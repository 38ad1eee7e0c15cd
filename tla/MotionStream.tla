---------------------------- MODULE MotionStream ----------------------------
(***************************************************************************)
(* The motion stream end to end: the LinuxCNC component builds a frame of  *)
(* tagged setpoints (linuxcnc/teensy_ecat_bridge.c), the SPI task ingests  *)
(* it and answers with the reply the last tick prepared, one frame late,   *)
(* and the cyclic task pops the sample of every tick (host_bridge.rs,      *)
(* motion_buffer.rs; the ring is the queue that MotionRing implements).    *)
(*                                                                         *)
(* Cycle indices are kept relative to the board's present one: every tick  *)
(* lowers them by one, and an index more than Horizon cycles in the past   *)
(* stays there.  The wrap of the 32-bit index is therefore not modelled    *)
(* here (MotionRing has it).  Setpoints are told apart by their tags.      *)
(***************************************************************************)
EXTENDS Integers, Sequences, Functions

CONSTANTS
  Depth,    \* MOTION_RING_DEPTH
  Lead,     \* lead of the component: samples to keep buffered
  Batch,    \* MAX_SAMPLES_PER_FRAME
  Burst,    \* bound: frames the host sends back to back after a late period
  MaxAhead, \* bound: how far ahead of the board the host tags samples
  MaxRun,   \* bound: cycles of an engine that is stopped and started again
  Horizon,  \* bound: how far back an index is kept
  Settle    \* bound: smooth cycles counted

ASSUME StreamAssumption ==
  /\ Depth \in Nat \ {0} /\ Lead \in Nat \ {0} /\ Batch \in Nat \ {0}
  /\ Burst \in Nat \ {0} /\ Settle \in Nat /\ MaxAhead \in Nat /\ MaxRun \in Nat
  /\ Horizon \in Nat /\ Horizon > Batch

\* A frame that can catch up, a ring that can buffer, and a count of cycles that
\* reaches the one in which the gaps of a full ring have been worked off.
ASSUME HealAssumption ==
  /\ Batch >= 2 /\ Depth >= 2
  /\ Settle >= Depth + 5

VARIABLES
  queue,      \* tags in the motion ring, oldest first
  streams,    \* started: a sample has been pushed
  onTime,     \* the last tick found its sample
  underrun,   \* the last tick found the ring drained
  staged      \* the reply prepared by the last tick

board == <<queue, streams, onTime, underrun, staged>>

VARIABLES
  frame,      \* tags in the MOSI frame under way, << >> if there is none
  shift       \* the reply that goes out with the next frame

spi == <<frame, shift>>

VARIABLES
  nextTag,    \* next_tag
  lastIndex,  \* last_cycle_index
  lastDepth,  \* last_buf_depth
  primed      \* the first refill has been sent

host == <<nextTag, lastIndex, lastDepth, primed>>

VARIABLES
  credit,     \* frames the host may send before the next tick
  got,        \* frames since the last tick; 2: several, or a corrupted one
  clipped,    \* a sample was dropped for lack of room since the last tick
  smooth,     \* ticks in a row with exactly one, good, frame each
  whole       \* the same, and every sample of the frames found room

pace == <<credit, got, clipped, smooth, whole>>
vars == <<board, spi, host, pace>>

Lesser(a, b)  == IF a <= b THEN a ELSE b
Greater(a, b) == IF a >= b THEN a ELSE b

Blank == [index |-> 0, depth |-> 0, valid |-> FALSE]

-----------------------------------------------------------------------------
(* The host *)

\* Mutant: a stream that leads is brought back to the clock as well.
ResyncedAlways == lastIndex + 1

Resynced == Greater(nextTag, lastIndex + 1)

Want ==
  LET wish == IF ~primed THEN Lead
              ELSE IF lastDepth < Lead THEN Lead - lastDepth + 1
              ELSE 1
  IN Lesser(wish, Batch)

\* update(), up to the transfer.  The tags of a frame that gets lost are spent.
Build ==
  /\ frame = << >> /\ credit > 0
  /\ Resynced + Want <= MaxAhead
  /\ frame' = [k \in 1 .. Want |-> Resynced + k - 1]
  /\ nextTag' = Resynced + Want
  /\ primed' = TRUE
  /\ credit' = credit - 1
  /\ UNCHANGED <<board, shift, lastIndex, lastDepth, got, clipped, smooth, whole>>

\* ingest(): push stops at a full ring, sample by sample.
Ingest(tags) ==
  LET room == Lesser(Depth - Len(queue), Len(tags))
  IN /\ queue' = queue \o SubSeq(tags, 1, room)
     /\ streams' = TRUE
     /\ clipped' = (clipped \/ room < Len(tags))

\* host_spi_task(), and the rest of update(): the frame is ingested unless its
\* CRC is wrong, and the host takes in the reply shifted out with it.
Deliver(mosiOk, misoOk) ==
  /\ frame # << >>
  /\ IF mosiOk THEN Ingest(frame) ELSE UNCHANGED <<queue, streams, clipped>>
  /\ IF misoOk /\ shift.valid
     THEN lastIndex' = shift.index /\ lastDepth' = shift.depth
     ELSE UNCHANGED <<lastIndex, lastDepth>>
  /\ shift' = staged
  /\ frame' = << >>
  /\ got' = IF mosiOk /\ misoOk THEN Lesser(got + 1, 2) ELSE 2
  /\ UNCHANGED <<onTime, underrun, staged, nextTag, primed, credit, smooth,
                 whole>>

-----------------------------------------------------------------------------
(* The cyclic task *)

Past(index)   == Greater(index - 1, -Horizon)
PastAll(tags) == [k \in DOMAIN tags |-> Past(tags[k])]

\* Mutant: the sample for the next cycle is taken for a passed one.
PassedEarly(tag) == tag <= 1

\* cycle_before(tag, current)
Passed(tag) == tag < 0

\* Mutant: a ring that only leads is reported as drained.
DrainedOrLeading(left, found) == streams /\ ~found

Drained(left, found) == streams /\ left = << >>

\* tick_with_host(): the cycle index advances, the sample tagged for it is
\* popped, and the reply is prepared.
Tick ==
  LET aged  == PastAll(queue)
      stale == {k \in DOMAIN aged : \A i \in 1 .. k : Passed(aged[i])}
      skip  == IF stale = {} THEN 0 ELSE CHOOSE k \in stale : k + 1 \notin stale
      found == skip < Len(aged) /\ aged[skip + 1] = 0
      left  == SubSeq(aged, skip + (IF found THEN 2 ELSE 1), Len(aged))
  IN /\ queue' = left
     /\ onTime' = found
     /\ underrun' = (~found /\ Drained(left, found))
     /\ staged' = [index |-> 0, depth |-> Len(left), valid |-> TRUE]
     /\ shift' = [shift EXCEPT !.index = Past(@)]
     /\ frame' = PastAll(frame)
     /\ nextTag' = Past(nextTag) /\ lastIndex' = Past(lastIndex)
     /\ credit' = Lesser(credit + 1, Burst)
     /\ smooth' = IF got = 1 THEN Lesser(smooth + 1, Settle) ELSE 0
     /\ whole' = IF got = 1 /\ ~clipped THEN Lesser(whole + 1, Settle) ELSE 0
     /\ got' = 0 /\ clipped' = FALSE
     /\ UNCHANGED <<streams, lastDepth, primed>>

\* "stop" and "start": the new engine counts from zero, so that every index of
\* the old one, all of them small here, is ahead of it by the cycles the old one
\* had counted.  Ring, replies and the host's own counters stay; how many frames
\* the host sends in between is bounded by Burst.
Later(index, cycles) == index + cycles

Restart ==
  \E cycles \in 1 .. MaxRun :
    LET kept == {nextTag, lastIndex, shift.index, staged.index} \cup Range(queue) \cup Range(frame)
        LaterAll(tags) == [k \in DOMAIN tags |-> Later(tags[k], cycles)]
    IN /\ \A index \in kept : index > -Horizon /\ Later(index, cycles) \in 0 .. MaxAhead
       /\ queue' = LaterAll(queue) /\ frame' = LaterAll(frame)
       /\ staged' = [staged EXCEPT !.index = Later(@, cycles)]
       /\ shift' = [shift EXCEPT !.index = Later(@, cycles)]
       /\ nextTag' = Later(nextTag, cycles) /\ lastIndex' = Later(lastIndex, cycles)
       /\ credit' = Burst /\ got' = 2
       /\ UNCHANGED <<streams, onTime, underrun, lastDepth, primed,
                      clipped, smooth, whole>>

-----------------------------------------------------------------------------

\* The host component is loaded at any time after the board has started.
Init ==
  /\ queue = << >> /\ streams = FALSE /\ onTime = FALSE /\ underrun = FALSE
  /\ staged = [Blank EXCEPT !.valid = TRUE]
  /\ frame = << >> /\ shift = Blank
  /\ lastIndex \in {-Horizon, 0} /\ nextTag = lastIndex
  /\ lastDepth = 0 /\ primed = FALSE
  /\ credit = 1 /\ got = 0 /\ clipped = FALSE /\ smooth = 0 /\ whole = 0

Next ==
  \/ Build
  \/ \E mosiOk, misoOk \in BOOLEAN : Deliver(mosiOk, misoOk)
  \/ Tick
  \/ Restart

Spec == Init /\ [][Next]_vars

-----------------------------------------------------------------------------
(* Properties *)

Index == -Horizon .. MaxAhead

\* The ring never holds more than its depth, nor a frame more than a batch; only
\* a restart puts what is known of the board's index ahead of it.
TypeOK ==
  /\ queue \in Seq(Index) /\ Len(queue) <= Depth
  /\ streams \in BOOLEAN /\ onTime \in BOOLEAN /\ underrun \in BOOLEAN
  /\ {staged, shift} \subseteq [index : Index, depth : 0 .. Depth, valid : BOOLEAN]
  /\ frame \in Seq(Index) /\ Len(frame) <= Batch
  /\ lastIndex \in Index /\ lastDepth \in 0 .. Depth
  /\ nextTag \in Index /\ primed \in BOOLEAN

\* build_motion() and push(): the tags in the ring ascend and the host has yet
\* to send a later one, so that pop, which looks at the head only, cannot miss
\* a sample that is there.
TagsAscend ==
  \A i, j \in DOMAIN queue :
    i < j /\ ~Passed(queue[i]) => queue[i] < queue[j] /\ queue[j] < nextTag

\* build_motion() refills from a depth that is two frames old, after lost frames
\* and late periods of the host.  Once the host sends one good frame per cycle
\* again and the ring has room for all of it, every tick finds its sample.
HealsWithRoom == whole >= Settle => onTime

\* pop() and tick_with_host(): a host that sends one good frame per cycle is not
\* quick-stopped for an underrun, even when samples were dropped at a full ring.
FedIsNotStopped == smooth >= Settle => ~underrun

\* motion_buffer.rs:5-7, "make the stream self-healing under host jitter /
\* dropped SPI frames": once the host sends one good frame per cycle again,
\* every tick finds its sample.
Heals == smooth >= Settle => onTime
=============================================================================
