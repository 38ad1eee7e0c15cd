----------------------------- MODULE MotionRing -----------------------------
(***************************************************************************)
(* The motion look-ahead ring (src/hal/motion_buffer.rs): an array of      *)
(* slots with a head and a length, pushed by the SPI task and popped by    *)
(* the cyclic task, one operation at a time under the host_bridge lock.    *)
(* A payload is one value: how its bytes are laid out is left out.         *)
(***************************************************************************)
EXTENDS Integers

CONSTANTS
  Depth,    \* MOTION_RING_DEPTH
  TagMod,   \* number of cycle indices (2^32: a wrapping u32)
  Samples,  \* payloads
  NoSample  \* pop returned None

ASSUME RingDepth   == Depth \in Nat \ {0}
ASSUME RingTags    == TagMod \in Nat \ {0}
ASSUME RingSamples == NoSample \notin Samples

VARIABLES
  data,      \* payload of every slot
  tag,       \* cycle index of every slot
  head,      \* slot of the oldest sample
  len,       \* samples in the ring
  underrun,  \* the last pop found the ring drained
  started,   \* a sample has been pushed
  popped     \* payload the last pop returned

vars == <<data, tag, head, len, underrun, started, popped>>

Slots == 0 .. Depth - 1
Tags  == 0 .. TagMod - 1

\* Slot of the k-th sample, counted from 0.
Slot(k) == (head + k) % Depth

\* Mutant: the comparison does not survive the wrap of the cycle index.
CycleBeforeNoWrap(a, b) == a < b

\* cycle_before: the sign of the wrapping difference.
CycleBefore(a, b) ==
  LET diff == (b - a) % TagMod IN 0 < diff /\ 2 * diff < TagMod

Full == len >= Depth

Push(t, s) ==
  IF Full THEN UNCHANGED vars
  ELSE /\ data' = [data EXCEPT ![Slot(len)] = s]
       /\ tag'  = [tag EXCEPT ![Slot(len)] = t]
       /\ len' = len + 1
       /\ started' = TRUE
       /\ UNCHANGED <<head, underrun, popped>>

\* The loop of pop stops at sample k: those before it are for passed cycles.
StopsAt(k, current) ==
  /\ \A i \in 0 .. k-1 : CycleBefore(tag[Slot(i)], current)
  /\ k = len \/ ~CycleBefore(tag[Slot(k)], current)

Pop(current) ==
  \E k \in 0 .. len :
    /\ StopsAt(k, current)
    /\ IF k < len /\ tag[Slot(k)] = current
       THEN /\ popped' = data[Slot(k)]
            /\ head' = Slot(k + 1)
            /\ len' = len - k - 1
            /\ underrun' = FALSE
       ELSE /\ popped' = NoSample
            /\ head' = Slot(k)
            /\ len' = len - k
            /\ underrun' = (started /\ len' = 0)
    /\ UNCHANGED <<data, tag, started>>

Init ==
  /\ data \in [Slots -> Samples]
  /\ tag = [i \in Slots |-> 0]
  /\ head = 0 /\ len = 0
  /\ underrun = FALSE /\ started = FALSE
  /\ popped = NoSample

Next ==
  \/ \E t \in Tags, s \in Samples : Push(t, s)
  \/ \E current \in Tags : Pop(current)

Spec == Init /\ [][Next]_vars

-----------------------------------------------------------------------------
(* Properties *)

\* The indices never leave the arrays, wherever the ring has wrapped.
TypeOK ==
  /\ data \in [Slots -> Samples]
  /\ tag \in [Slots -> Tags]
  /\ head \in Slots
  /\ len \in 0 .. Depth
  /\ underrun \in BOOLEAN
  /\ started \in BOOLEAN
  /\ popped \in Samples \cup {NoSample}

Queue == INSTANCE MotionQueue WITH
  queue   <- [k \in 1 .. len |-> [tag |-> tag[Slot(k-1)], sample |-> data[Slot(k-1)]]],
  streams <- started,
  given   <- popped,
  dry     <- underrun

\* push() and pop() are the operations of a queue: a sample is handed over on
\* the cycle it is tagged for, none is lost but to a later one, none is handed
\* over twice, however the head and the length have wrapped around the array.
QueueSpec == Queue!QueueSpec
=============================================================================
