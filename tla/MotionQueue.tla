---------------------------- MODULE MotionQueue ----------------------------
(***************************************************************************)
(* What the motion look-ahead promises the cyclic task: a queue of samples *)
(* tagged for the cycle they are to be applied on.  A tick is handed the   *)
(* sample tagged for it and loses only samples that come before that one;  *)
(* it is told that the stream ran dry when nothing is left of it.          *)
(***************************************************************************)
EXTENDS Integers, Sequences

CONSTANTS
  Depth,    \* samples the queue holds, at least 1
  TagMod,   \* number of cycle indices, at least 1
  Samples,  \* payloads
  NoSample  \* what a tick gets that has no sample, outside Samples

VARIABLES
  queue,    \* samples to come, oldest first
  streams,  \* a sample has been accepted since power-up
  given,    \* what the last tick was handed
  dry       \* the last tick found the stream dry

qvars == <<queue, streams, given, dry>>

Tags  == 0 .. TagMod - 1
Entry == [tag : Tags, sample : Samples]

\* "a is strictly before b" on a wrapping index.
Before(a, b) == 0 < (b - a) % TagMod /\ 2 * ((b - a) % TagMod) < TagMod

QueueInit == queue = << >> /\ streams = FALSE /\ given = NoSample /\ dry = FALSE

Accept(t, s) ==
  /\ Len(queue) < Depth
  /\ queue' = Append(queue, [tag |-> t, sample |-> s])
  /\ streams' = TRUE
  /\ UNCHANGED <<given, dry>>

\* Samples for cycles already passed make room for sample number k + 1, which is
\* handed over if it is due now.
Serve(current) ==
  \E k \in 0 .. Len(queue) :
    /\ \A i \in 1 .. k : Before(queue[i].tag, current)
    /\ k < Len(queue) => ~Before(queue[k + 1].tag, current)
    /\ UNCHANGED streams
    /\ IF k < Len(queue) /\ queue[k + 1].tag = current
       THEN /\ given' = queue[k + 1].sample
            /\ queue' = SubSeq(queue, k + 2, Len(queue))
            /\ dry' = FALSE
       ELSE /\ given' = NoSample
            /\ queue' = SubSeq(queue, k + 1, Len(queue))
            /\ dry' = (streams /\ k = Len(queue))

QueueNext ==
  \/ \E t \in Tags, s \in Samples : Accept(t, s)
  \/ \E current \in Tags : Serve(current)

QueueSpec == QueueInit /\ [][QueueNext]_qvars
=============================================================================
