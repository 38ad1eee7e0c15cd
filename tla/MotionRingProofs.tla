-------------------------- MODULE MotionRingProofs --------------------------
(***************************************************************************)
(* The ring implements the queue, for any depth, any number of cycle       *)
(* indices and any payloads.                                               *)
(*                                                                         *)
(* The argument.  The queue is read off the array by the slots of the      *)
(* samples (Mapped).  A push writes a slot no sample is in (SlotsDiffer);  *)
(* a pop moves the head, which renumbers the samples left (SlotShift).     *)
(***************************************************************************)
EXTENDS MotionRing, TLAPS, SequenceTheorems

\* The queue the ring stands for, as in the refinement mapping.
Mapped == [k \in 1 .. len |-> [tag |-> tag[Slot(k-1)], sample |-> data[Slot(k-1)]]]

-----------------------------------------------------------------------------
(* Arithmetic of the slots *)

\* A slot number below the depth is its own remainder.
LEMMA ModSmall ==
  ASSUME NEW x \in Nat, x < Depth
  PROVE  x % Depth = x
BY RingDepth

\* One turn past the end of the array.
LEMMA ModOnce ==
  ASSUME NEW x \in Nat, Depth <= x, x < 2 * Depth
  PROVE  x % Depth = x - Depth
BY RingDepth

\* Every remainder is a slot.
LEMMA ModRange ==
  ASSUME NEW x \in Nat
  PROVE  x % Depth \in Slots
BY RingDepth DEF Slots

\* The slot of any offset from the head is one of the array.
LEMMA SlotType ==
  ASSUME TypeOK, NEW k \in Nat
  PROVE  Slot(k) \in Slots
<1>1. head + k \in Nat
  BY DEF TypeOK, Slots
<1> QED
  BY <1>1, ModRange DEF Slot

\* Different samples are in different slots.
LEMMA SlotsDiffer ==
  ASSUME TypeOK, NEW i \in Nat, NEW k \in Nat, i < k, k < Depth
  PROVE  Slot(i) # Slot(k)
<1>1. head \in Nat /\ head < Depth /\ Depth \in Nat
  BY RingDepth DEF TypeOK, Slots
<1>2. CASE head + k < Depth
  BY <1>1, <1>2, ModSmall DEF Slot
<1>3. CASE head + i < Depth /\ ~(head + k < Depth)
  <2>1. Slot(i) = head + i /\ Slot(k) = head + k - Depth
    BY <1>1, <1>3, ModSmall, ModOnce DEF Slot
  <2> QED
    BY <1>1, <2>1
<1>4. CASE ~(head + i < Depth)
  <2>1. Slot(i) = head + i - Depth /\ Slot(k) = head + k - Depth
    BY <1>1, <1>4, ModOnce DEF Slot
  <2> QED
    BY <1>1, <2>1
<1> QED
  BY <1>1, <1>2, <1>3, <1>4

\* Samples are renumbered, not moved, when the head moves.
LEMMA SlotShift ==
  ASSUME TypeOK, NEW k \in 0 .. Depth, head' = Slot(k), NEW i \in Nat, i + k < Depth
  PROVE  Slot(i)' = Slot(k + i)
<1>1. head \in Nat /\ head < Depth /\ Depth \in Nat /\ k \in Nat
  BY RingDepth DEF TypeOK, Slots
<1>2. Slot(i)' = (Slot(k) + i) % Depth
  BY DEF Slot
<1>3. CASE head + k + i < Depth
  <2>1. Slot(k) = head + k /\ Slot(k + i) = head + k + i
    BY <1>1, <1>3, ModSmall DEF Slot
  <2> QED
    BY <1>1, <1>2, <1>3, <2>1, ModSmall
<1>4. CASE head + k < Depth /\ ~(head + k + i < Depth)
  <2>1. Slot(k) = head + k
    BY <1>1, <1>4, ModSmall DEF Slot
  <2>2. Slot(k + i) = head + k + i - Depth
    BY <1>1, <1>4, ModOnce DEF Slot
  <2>3. (head + k + i) % Depth = head + k + i - Depth
    BY <1>1, <1>4, ModOnce
  <2> QED
    BY <1>1, <1>2, <2>1, <2>2, <2>3
<1>5. CASE ~(head + k < Depth)
  <2>1. Slot(k) = head + k - Depth
    BY <1>1, <1>5, ModOnce DEF Slot
  <2>2. Slot(k + i) = head + k + i - Depth
    BY <1>1, <1>5, ModOnce DEF Slot
  <2>3. (head + k - Depth + i) % Depth = head + k - Depth + i
    BY <1>1, <1>5, ModSmall
  <2> QED
    BY <1>1, <1>2, <2>1, <2>2, <2>3
<1> QED
  BY <1>3, <1>4, <1>5

-----------------------------------------------------------------------------
(* Type correctness *)

\* The ring starts well typed.
LEMMA InitType == Init => TypeOK
<1>1. 0 \in Slots /\ 0 \in Tags /\ 0 \in 0 .. Depth
  BY RingDepth, RingTags DEF Slots, Tags
<1> QED
  BY <1>1 DEF Init, TypeOK

\* A push keeps head, length and slots in their ranges.
LEMMA PushType ==
  ASSUME TypeOK, NEW t \in Tags, NEW s \in Samples, Push(t, s)
  PROVE  TypeOK'
<1>1. CASE Full
  BY <1>1 DEF Push, vars, TypeOK
<1>2. CASE ~Full
  <2>1. len' \in 0 .. Depth
    BY <1>2, RingDepth DEF Push, Full, TypeOK
  <2>2. Slot(len) \in Slots
    BY SlotType DEF TypeOK
  <2> QED
    BY <1>2, <2>1, <2>2 DEF Push, TypeOK
<1> QED
  BY <1>1, <1>2

\* A pop keeps head, length and slots in their ranges.
LEMMA PopType ==
  ASSUME TypeOK, NEW current \in Tags, Pop(current)
  PROVE  TypeOK'
<1>1. PICK k \in 0 .. len :
        /\ StopsAt(k, current)
        /\ IF k < len /\ tag[Slot(k)] = current
           THEN /\ popped' = data[Slot(k)]
                /\ head' = Slot(k + 1)
                /\ len' = len - k - 1
                /\ underrun' = FALSE
           ELSE /\ popped' = NoSample
                /\ head' = Slot(k)
                /\ len' = len - k
                /\ underrun' = (started /\ len' = 0)
  BY DEF Pop
<1>2. k \in Nat /\ k + 1 \in Nat /\ len \in 0 .. Depth /\ k <= len
  BY RingDepth DEF TypeOK
<1>3. Slot(k) \in Slots /\ Slot(k + 1) \in Slots
  BY <1>2, SlotType
<1>4. head' \in Slots /\ underrun' \in BOOLEAN /\ popped' \in Samples \cup {NoSample}
  BY <1>1, <1>3 DEF TypeOK
<1>5. len' \in 0 .. Depth
  BY <1>1, <1>2, RingDepth
<1> QED
  BY <1>4, <1>5 DEF Pop, TypeOK

\* Every step keeps the types.
LEMMA NextType ==
  ASSUME TypeOK, [Next]_vars
  PROVE  TypeOK'
<1>1. CASE UNCHANGED vars
  BY <1>1 DEF vars, TypeOK
<1>2. CASE Next
  BY <1>2, PushType, PopType DEF Next
<1> QED
  BY <1>1, <1>2

\* The head, the length and the slots stay within the array of motion_buffer.rs,
\* whatever is pushed and popped.
THEOREM RingTypeCorrect == Spec => []TypeOK
BY InitType, NextType, PTL DEF Spec

-----------------------------------------------------------------------------
(* Refinement *)

\* The queue a ring stands for: its len samples, oldest first.
LEMMA MappedType ==
  ASSUME TypeOK
  PROVE  /\ Mapped \in Seq(Queue!Entry)
         /\ Len(Mapped) = len
         /\ \A k \in 1 .. len : Mapped[k] = [tag |-> tag[Slot(k-1)], sample |-> data[Slot(k-1)]]
<1>1. len \in Nat
  BY RingDepth DEF TypeOK
<1>2. ASSUME NEW k \in 1 .. len
      PROVE  [tag |-> tag[Slot(k-1)], sample |-> data[Slot(k-1)]] \in Queue!Entry
  <2>1. Slot(k-1) \in Slots
    BY <1>1, SlotType
  <2> QED
    BY <2>1 DEF TypeOK, Queue!Entry, Queue!Tags, Tags
<1> QED
  BY <1>1, <1>2 DEF Mapped

\* A push appends to the queue, or changes nothing when the ring is full.
LEMMA PushRefines ==
  ASSUME TypeOK, NEW t \in Tags, NEW s \in Samples, Push(t, s)
  PROVE  Queue!Accept(t, s) \/ UNCHANGED Queue!qvars
<1>1. CASE Full
  BY <1>1 DEF Push, vars, Queue!qvars, Slot
<1>2. CASE ~Full
  <2> DEFINE new == [tag |-> t, sample |-> s]
  <2>1. len \in Nat /\ len < Depth /\ Depth \in Nat
    BY <1>2, RingDepth DEF Full, TypeOK
  <2>2. /\ data' = [data EXCEPT ![Slot(len)] = s]
        /\ tag' = [tag EXCEPT ![Slot(len)] = t]
        /\ len' = len + 1 /\ started' = TRUE
        /\ UNCHANGED <<head, underrun, popped>>
    BY <1>2 DEF Push
  <2>3. \A k \in Nat : Slot(k)' = Slot(k)
    BY <2>2 DEF Slot
  <2>4. new \in Queue!Entry
    BY DEF Queue!Entry, Queue!Tags, Tags
  <2>5. TypeOK'
    BY PushType
  <2>6. /\ Mapped' \in Seq(Queue!Entry) /\ Len(Mapped') = len + 1
        /\ \A k \in 1 .. len + 1 :
             Mapped'[k] = [tag |-> tag'[Slot(k-1)'], sample |-> data'[Slot(k-1)']]
    <3>1. len' \in Nat /\ len' = len + 1
      BY <2>1, <2>2
    <3>2. \A k \in 1 .. len + 1 :
            [tag |-> tag'[Slot(k-1)'], sample |-> data'[Slot(k-1)']] \in Queue!Entry
      <4>1. ASSUME NEW k \in 1 .. len + 1 PROVE Slot(k-1)' \in Slots
        BY <2>1, <2>3, SlotType
      <4> QED
        BY <2>5, <4>1 DEF TypeOK, Queue!Entry, Queue!Tags, Tags
    <3>3. Mapped' = [k \in 1 .. len + 1 |->
                       [tag |-> tag'[Slot(k-1)'], sample |-> data'[Slot(k-1)']]]
      BY <3>1 DEF Mapped
    <3> QED
      BY <3>1, <3>2, <3>3
  <2>7. /\ Append(Mapped, new) \in Seq(Queue!Entry)
        /\ Len(Append(Mapped, new)) = len + 1
        /\ \A k \in 1 .. len : Append(Mapped, new)[k] = Mapped[k]
        /\ Append(Mapped, new)[len + 1] = new
    BY <2>4, MappedType, AppendProperties
  <2>8. ASSUME NEW k \in 1 .. len + 1
        PROVE  Mapped'[k] = Append(Mapped, new)[k]
    <3>1. k-1 \in Nat /\ Slot(k-1)' = Slot(k-1)
      BY <2>1, <2>3
    <3>2. Slot(k-1) \in Slots /\ Slot(len) \in Slots
      BY <2>1, <3>1, SlotType
    <3>3. CASE k = len + 1
      <4>1. k - 1 = len
        BY <2>1, <3>3
      <4>2. tag'[Slot(len)] = t /\ data'[Slot(len)] = s
        BY <2>2, <3>2 DEF TypeOK
      <4>3. Mapped'[k] = [tag |-> tag'[Slot(len)], sample |-> data'[Slot(len)]]
        BY <2>6, <3>1, <4>1
      <4> QED
        BY <2>7, <3>3, <4>2, <4>3
    <3>4. CASE k # len + 1
      <4>1. k \in 1 .. len /\ k - 1 < len
        BY <2>1, <3>4
      <4>2. Slot(k-1) # Slot(len)
        BY <2>1, <3>1, <4>1, SlotsDiffer
      <4>3. tag'[Slot(k-1)] = tag[Slot(k-1)] /\ data'[Slot(k-1)] = data[Slot(k-1)]
        BY <2>2, <3>2, <4>2 DEF TypeOK
      <4>4. Mapped'[k] = [tag |-> tag'[Slot(k-1)], sample |-> data'[Slot(k-1)]]
        BY <2>6, <3>1
      <4> QED
        BY <2>7, <4>1, <4>3, <4>4, MappedType
    <3> QED
      BY <3>3, <3>4
  <2>9. Mapped' = Append(Mapped, new)
    BY <2>6, <2>7, <2>8, SeqEqual
  <2>10. Len(Mapped) < Depth
    BY <2>1, MappedType
  <2> QED
    BY <2>2, <2>9, <2>10 DEF Queue!Accept, Mapped
<1> QED
  BY <1>1, <1>2

\* A pop drops the overdue samples from the queue and takes the due one.
LEMMA PopRefines ==
  ASSUME TypeOK, NEW current \in Tags, Pop(current)
  PROVE  Queue!Serve(current)
<1>1. PICK k \in 0 .. len :
        /\ StopsAt(k, current)
        /\ IF k < len /\ tag[Slot(k)] = current
           THEN /\ popped' = data[Slot(k)]
                /\ head' = Slot(k + 1)
                /\ len' = len - k - 1
                /\ underrun' = FALSE
           ELSE /\ popped' = NoSample
                /\ head' = Slot(k)
                /\ len' = len - k
                /\ underrun' = (started /\ len' = 0)
  BY DEF Pop
<1>2. UNCHANGED <<data, tag, started>>
  BY DEF Pop
<1>3. /\ len \in Nat /\ k \in Nat /\ Depth \in Nat /\ len <= Depth /\ k <= len
      /\ Len(Mapped) = len
  BY RingDepth, MappedType DEF TypeOK
<1>4. \A i \in 1 .. len : Mapped[i] = [tag |-> tag[Slot(i-1)], sample |-> data[Slot(i-1)]]
  BY MappedType
<1>5. \A a, b : Queue!Before(a, b) <=> CycleBefore(a, b)
  BY DEF Queue!Before, CycleBefore
<1>6. \A i \in 1 .. k : Queue!Before(Mapped[i].tag, current)
  <2>1. ASSUME NEW i \in 1 .. k PROVE Queue!Before(Mapped[i].tag, current)
    <3>1. i - 1 \in 0 .. k-1 /\ i \in 1 .. len
      BY <1>3
    <3>2. CycleBefore(tag[Slot(i-1)], current)
      BY <1>1, <3>1 DEF StopsAt
    <3>3. Mapped[i] = [tag |-> tag[Slot(i-1)], sample |-> data[Slot(i-1)]]
      BY <1>4, <3>1
    <3>4. Mapped[i].tag = tag[Slot(i-1)]
      BY <3>3
    <3> QED
      BY <1>5, <3>2, <3>4, Zenon
  <2> QED
    BY <2>1
<1>7. k < len => /\ Mapped[k + 1] = [tag |-> tag[Slot(k)], sample |-> data[Slot(k)]]
                 /\ ~Queue!Before(Mapped[k + 1].tag, current)
  <2>1. ASSUME k < len
        PROVE  /\ Mapped[k + 1] = [tag |-> tag[Slot(k)], sample |-> data[Slot(k)]]
               /\ ~Queue!Before(Mapped[k + 1].tag, current)
    <3>1. k + 1 \in 1 .. len /\ (k + 1) - 1 = k
      BY <1>3, <2>1
    <3>2. Mapped[k + 1] = [tag |-> tag[Slot(k)], sample |-> data[Slot(k)]]
      BY <1>4, <3>1
    <3>3. ~CycleBefore(tag[Slot(k)], current)
      BY <1>1, <1>3, <2>1 DEF StopsAt
    <3> QED
      BY <1>5, <3>2, <3>3
  <2> QED
    BY <2>1
<1>8. ASSUME NEW used \in 0 .. len, head' = Slot(used), len' = len - used
      PROVE  Mapped' = SubSeq(Mapped, used + 1, Len(Mapped))
  <2>1. used \in Nat /\ used <= len /\ used \in 0 .. Depth /\ len' \in Nat
    BY <1>3, <1>8
  <2>2. Mapped' = [i \in 1 .. len - used |->
                     [tag |-> tag[Slot(i-1)'], sample |-> data[Slot(i-1)']]]
    BY <1>2, <1>8 DEF Mapped
  <2>3. ASSUME NEW i \in 1 .. len - used
        PROVE  Slot(i-1)' = Slot(i + used - 1)
    <3>1. i - 1 \in Nat /\ i - 1 + used < Depth /\ used + (i - 1) = i + used - 1
      BY <1>3, <2>1
    <3> QED
      BY <1>8, <2>1, <3>1, SlotShift
  <2>4. SubSeq(Mapped, used + 1, Len(Mapped)) = [i \in 1 .. len - used |-> Mapped[i + used]]
    <3>1. Mapped \in Seq(Queue!Entry)
      BY MappedType
    <3>2. SubSeq(Mapped, used + 1, Len(Mapped))
            = [i \in 1 .. (Len(Mapped) - (used + 1) + 1) |-> Mapped[i + (used + 1) - 1]]
      BY <1>3, <2>1, <3>1
    <3>3. Len(Mapped) - (used + 1) + 1 = len - used
      BY <1>3, <2>1
    <3>4. \A i \in 1 .. len - used : i + (used + 1) - 1 = i + used
      BY <2>1
    <3> QED
      BY <3>2, <3>3, <3>4
  <2>5. ASSUME NEW i \in 1 .. len - used
        PROVE  Mapped[i + used] = [tag |-> tag[Slot(i-1)'], sample |-> data[Slot(i-1)']]
    <3>1. i + used \in 1 .. len /\ (i + used) - 1 = i + used - 1
      BY <1>3, <2>1
    <3> QED
      BY <1>4, <2>3, <3>1
  <2> QED
    BY <2>2, <2>4, <2>5
<1>9. CASE k < len /\ tag[Slot(k)] = current
  <2>1. /\ popped' = data[Slot(k)] /\ head' = Slot(k + 1)
        /\ len' = len - (k + 1) /\ underrun' = FALSE
    BY <1>1, <1>3, <1>9
  <2>2. k + 1 \in 0 .. len /\ (k + 1) + 1 = k + 2
    BY <1>3, <1>9
  <2>3. Mapped' = SubSeq(Mapped, k + 2, Len(Mapped))
    BY <1>8, <2>1, <2>2
  <2>4. Mapped[k + 1].tag = current /\ Mapped[k + 1].sample = data[Slot(k)]
    BY <1>7, <1>9
  <2>5. k \in 0 .. Len(Mapped) /\ k < Len(Mapped)
    BY <1>3, <1>9
  <2> QED
    BY <1>2, <1>6, <1>7, <1>9, <2>1, <2>3, <2>4, <2>5 DEF Queue!Serve, Mapped
<1>10. CASE ~(k < len /\ tag[Slot(k)] = current)
  <2>1. /\ popped' = NoSample /\ head' = Slot(k)
        /\ len' = len - k /\ underrun' = (started /\ len' = 0)
    BY <1>1, <1>10
  <2>2. Mapped' = SubSeq(Mapped, k + 1, Len(Mapped))
    BY <1>3, <1>8, <2>1
  <2>3. len' = 0 <=> k = Len(Mapped)
    BY <1>3, <2>1
  <2>4. k \in 0 .. Len(Mapped) /\ (k < Len(Mapped) <=> k < len)
    BY <1>3
  <2>5. ~(k < Len(Mapped) /\ Mapped[k + 1].tag = current)
    BY <1>7, <1>10, <2>4
  <2> QED
    BY <1>2, <1>6, <1>7, <2>1, <2>2, <2>3, <2>4, <2>5 DEF Queue!Serve, Mapped
<1> QED
  BY <1>9, <1>10

\* MotionRing (push and pop of motion_buffer.rs) implements the queue of
\* samples the cyclic task relies on: each operation on the array is one
\* operation on the queue, or, for a push into a full ring, none.
THEOREM RingImplementsQueue == Spec => QueueSpec
<1>1. Init => Queue!QueueInit
  <2>1. ASSUME Init PROVE Mapped = << >>
    BY <2>1 DEF Init, Mapped
  <2> QED
    BY <2>1 DEF Init, Queue!QueueInit, Mapped
<1>2. TypeOK /\ [Next]_vars => [Queue!QueueNext]_Queue!qvars
  <2> SUFFICES ASSUME TypeOK, [Next]_vars
               PROVE  [Queue!QueueNext]_Queue!qvars
    OBVIOUS
  <2>1. CASE UNCHANGED vars
    BY <2>1 DEF vars, Queue!qvars, Slot
  <2>2. ASSUME NEW t \in Tags, NEW s \in Samples, Push(t, s)
        PROVE  [Queue!QueueNext]_Queue!qvars
    BY <2>2, PushRefines DEF Queue!QueueNext, Queue!Tags, Tags
  <2>3. ASSUME NEW current \in Tags, Pop(current)
        PROVE  [Queue!QueueNext]_Queue!qvars
    BY <2>3, PopRefines DEF Queue!QueueNext, Queue!Tags, Tags
  <2> QED
    BY <2>1, <2>2, <2>3 DEF Next
<1> QED
  BY <1>1, <1>2, RingTypeCorrect, PTL DEF Spec, QueueSpec, Queue!QueueSpec
=============================================================================
