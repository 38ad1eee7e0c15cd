------------------------------ MODULE DcClock ------------------------------
(***************************************************************************)
(* The arithmetic of the distributed clocks (dc.rs): from the times FsmDc  *)
(* reads of the reference and of a follower to the delay, the offset and   *)
(* the start time it writes.  The order of the datagrams is SlaveConfig's. *)
(*                                                                         *)
(* A slave's system time is its local time plus the offset it was written. *)
(* The numbers wrap where the code's wrap; TLC is given small ones.        *)
(***************************************************************************)
EXTENDS Integers

CONSTANTS
  ClockMod,   \* 2^64: local times, system times and offsets
  PortMod,    \* 2^32: receive times of the ports
  Margin,     \* START_MARGIN_NS
  MaxDelay,   \* MAX_DELAY_NS
  MaxCycle,   \* bound: the longest cycle time configured
  MaxTransit, \* bound: the longest way of a frame from the reference to a slave
  MaxCable,   \* bound: the longest delay of a cable
  MaxLoop     \* bound: the longest way of a frame beyond a slave and back to it

\* A frame is back before the receive times of the ports, 4 s, have wrapped.
ASSUME ClockAssumption ==
  /\ ClockMod \in Nat \ {0} /\ PortMod \in Nat \ {0}
  /\ Margin \in Nat /\ MaxDelay \in Nat /\ MaxCycle \in Nat
  /\ MaxTransit \in Nat /\ MaxCable \in Nat /\ MaxLoop \in Nat
  /\ 2 * MaxCable + MaxLoop < PortMod

SystemTime(local, offset) == (local + offset) % ClockMod

\* cyclic_start.  The sum of the last line does not wrap here: 2^64 ns are
\* 584 years.
CyclicStart(cycle, phase, now) ==
  LET period == IF cycle >= 1 THEN cycle ELSE 1
      target == (now + Margin) % ClockMod
  IN (target \div period + 1) * period + phase

\* Mutant: what the follower has been written before is not counted.
NewOffsetAnew(old, reference, follower) == (reference - follower) % ClockMod

\* CompReadTimes: the follower's system time includes the old offset.
NewOffset(old, reference, follower) ==
  (old + ((reference - follower) % ClockMod)) % ClockMod

\* propagation_delay, from the receive times of port 0 and port 1; the division
\* rounds to zero.
PropagationDelay(ref, fol) ==
  LET trip(ports) == (ports[2] - ports[1]) % PortMod
      both   == trip(ref) - trip(fol)
      oneWay == IF both >= 0 THEN both \div 2 ELSE -((-both) \div 2)
  IN IF oneWay \in 0 .. MaxDelay THEN oneWay ELSE 0

-----------------------------------------------------------------------------
(* What a bring-up comes to *)

Clocks == 0 .. ClockMod - 1

\* After CompWriteOffset the follower runs with the reference, behind it by the
\* time the frame took between the two, whatever their local clocks say and
\* however often the follower has been started before.
ClocksAgree ==
  \A reference, local, old \in Clocks, transit \in 0 .. MaxTransit :
    LET read == SystemTime(local + transit, old)
        new  == NewOffset(old, reference, read)
    IN SystemTime(local + transit, new) = reference

\* Reference and follower, whose start times are computed at different times of
\* the reference, pulse on the same grid; the first pulse is at least the margin
\* ahead, and no more than a cycle and the shift beyond it.
PulsesAgree ==
  \A cycle \in 0 .. MaxCycle : \A phase \in 0 .. cycle :
    \A now, later \in 0 .. ClockMod - Margin - 1 :
      LET start == CyclicStart(cycle, phase, now)
          other == CyclicStart(cycle, phase, later)
      IN /\ cycle > 0 => (start - other) % cycle = 0
         /\ start > now + Margin
         /\ start <= now + Margin + phase + (IF cycle > 0 THEN cycle ELSE 1)

\* The delay is that of the cable between two slaves, wherever their port times
\* wrap; a reading no cable explains counts as none.
DelayIsTrue ==
  \A a, b \in 0 .. PortMod - 1, cable \in 0 .. MaxCable, loop \in 0 .. MaxLoop :
    PropagationDelay(<<a, (a + 2 * cable + loop) % PortMod>>, <<b, (b + loop) % PortMod>>)
      = IF cable <= MaxDelay THEN cable ELSE 0
=============================================================================
