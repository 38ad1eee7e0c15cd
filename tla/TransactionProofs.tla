-------------------------- MODULE TransactionProofs --------------------------
(***************************************************************************)
(* The transaction proved, for rings of any length, any index width and    *)
(* any number of attempts: driver and ENET stay in step, a reply is the    *)
(* request's own, and nothing is left behind it.                           *)
(***************************************************************************)
EXTENDS Transaction, TLAPS, SequenceTheorems

\* The slot k places after "from", and what it holds.
Place(from, k, len)    == (from + k) % len
At(ring, from, k, len) == ring[Place(from, k, len)]

\* RingsInStep of one ring, of which n slots are in use.
InUse(ring, from, to, len, n) ==
  /\ to = Place(from, n, len)
  /\ \A k \in 0 .. len - 1 : (At(ring, from, k, len) # None) <=> k < n

\* A request that waits has an attempt left, so that the count stays in bounds.
TypeInv == TypeOK /\ (waiting => attempts < MaxAttempts)

\* Frames keep the order they were sent in: behind a request's own frame there
\* is none in the transmit ring, on the wire and in the receive ring, but what
\* is not EtherCAT.
TxEmpty == \A k \in 0 .. TxLen - 1 : tx[k] = None

OwnIsLast ==
  /\ \A k \in 0 .. TxLen - 1 : tx[k].mine => txPos = NextSlot(k, TxLen)
  /\ \A i \in DOMAIN wire : wire[i].mine => i = Len(wire) /\ TxEmpty
  /\ \A k \in 0 .. RxLen - 1 : rx[k].mine => wire = <<>> /\ TxEmpty
  /\ \A i, j \in 0 .. RxLen - 1 :
       i < j /\ At(rx, rxPos, i, RxLen).mine => At(rx, rxPos, j, RxLen) \in {None, Foreign}

\* The index of a frame tells how old it is: no older than the requests that
\* have failed since the last that got its own reply.
InAge(f, oldest) ==
  f \in Frames => IF f.mine THEN f.lag = 0 ELSE f.lag \in 1 .. oldest

Oldest == IF waiting THEN fails ELSE fails - 1

AgesKept ==
  fails < IndexMod =>
    /\ \A k \in 0 .. TxLen - 1 : InAge(tx[k], Oldest)
    /\ \A k \in 0 .. RxLen - 1 : InAge(rx[k], Oldest)
    /\ \A i \in DOMAIN wire : InAge(wire[i], Oldest)

IInv == TypeInv /\ RingsInStep /\ OwnIsLast /\ AgesKept /\ QuietAfterReply

-----------------------------------------------------------------------------
(* Slots *)

\* A slot number below the length is its own remainder.
LEMMA RemainderSmall ==
  ASSUME NEW len \in Nat, NEW x \in Nat, x < len
  PROVE  x % len = x
  OBVIOUS

\* One turn past the end of the ring.
LEMMA RemainderOnce ==
  ASSUME NEW len \in Nat, NEW x \in Nat, len <= x, x < 2 * len
  PROVE  x % len = x - len
  OBVIOUS

\* The place k after a slot, without the remainder.
LEMMA PlaceValue ==
  ASSUME NEW len \in Nat \ {0}, NEW from \in 0 .. len - 1, NEW k \in 0 .. len
  PROVE  /\ Place(from, k, len) = IF from + k < len THEN from + k ELSE from + k - len
         /\ Place(from, k, len) \in 0 .. len - 1
<1>1. from + k \in Nat /\ from + k < 2 * len /\ len \in Nat
  OBVIOUS
<1>2. CASE from + k < len
  <2>1. (from + k) % len = from + k
    BY <1>1, <1>2, RemainderSmall
  <2>. QED BY <1>1, <1>2, <2>1 DEF Place
<1>3. CASE ~(from + k < len)
  <2>1. (from + k) % len = from + k - len
    BY <1>1, <1>3, RemainderOnce
  <2>. QED BY <1>1, <1>3, <2>1 DEF Place
<1>. QED BY <1>2, <1>3

\* The next slot, without the remainder.
LEMMA NextSlotValue ==
  ASSUME NEW len \in Nat \ {0}, NEW pos \in 0 .. len - 1
  PROVE  /\ NextSlot(pos, len) = IF pos + 1 < len THEN pos + 1 ELSE 0
         /\ NextSlot(pos, len) \in 0 .. len - 1
<1>1. 1 \in 0 .. len
  OBVIOUS
<1>2. NextSlot(pos, len) = Place(pos, 1, len)
  BY DEF Place, NextSlot
<1>3. Place(pos, 1, len) = IF pos + 1 < len THEN pos + 1 ELSE pos + 1 - len
  BY <1>1, PlaceValue
<1>. QED BY <1>2, <1>3

\* Every slot is some place.
LEMMA EverySlot ==
  ASSUME NEW len \in Nat \ {0}, NEW from \in 0 .. len - 1, NEW s \in 0 .. len - 1
  PROVE  \E k \in 0 .. len - 1 : Place(from, k, len) = s
<1>. DEFINE k == IF s >= from THEN s - from ELSE s - from + len
<1>1. k \in 0 .. len - 1 /\ k \in 0 .. len
  OBVIOUS
<1>2. (IF from + k < len THEN from + k ELSE from + k - len) = s
  OBVIOUS
<1>. HIDE DEF k
<1>. QED BY <1>1, <1>2, PlaceValue

\* Different places are different slots.
LEMMA PlacesDiffer ==
  ASSUME NEW len \in Nat \ {0}, NEW from \in 0 .. len - 1,
         NEW j \in 0 .. len - 1, NEW k \in 0 .. len - 1, j # k
  PROVE  Place(from, j, len) # Place(from, k, len)
<1>1. j \in 0 .. len /\ k \in 0 .. len
  OBVIOUS
<1>2. /\ Place(from, j, len) = IF from + j < len THEN from + j ELSE from + j - len
      /\ Place(from, k, len) = IF from + k < len THEN from + k ELSE from + k - len
  BY <1>1, PlaceValue
<1>. QED BY <1>2

\* Seen from the next slot, every place is one nearer.
LEMMA PlaceShift ==
  ASSUME NEW len \in Nat \ {0}, NEW from \in 0 .. len - 1, NEW k \in 0 .. len - 1
  PROVE  Place(NextSlot(from, len), k, len) = Place(from, k + 1, len)
<1>. DEFINE next == NextSlot(from, len)
<1>1. next = (IF from + 1 < len THEN from + 1 ELSE 0) /\ next \in 0 .. len - 1
  BY NextSlotValue
<1>. HIDE DEF next
<1>2. k \in 0 .. len /\ k + 1 \in 0 .. len
  OBVIOUS
<1>3. Place(next, k, len) = IF next + k < len THEN next + k ELSE next + k - len
  BY <1>1, <1>2, PlaceValue
<1>4. Place(from, k + 1, len) = IF from + (k + 1) < len THEN from + (k + 1) ELSE from + (k + 1) - len
  BY <1>2, PlaceValue
<1>5. Place(next, k, len) = Place(from, k + 1, len)
  BY <1>1, <1>3, <1>4
<1>. QED BY <1>5 DEF next

\* The slot after a place is the next place.
LEMMA NextOfPlace ==
  ASSUME NEW len \in Nat \ {0}, NEW from \in 0 .. len - 1, NEW k \in 0 .. len - 1
  PROVE  NextSlot(Place(from, k, len), len) = Place(from, k + 1, len)
<1>1. k \in 0 .. len /\ k + 1 \in 0 .. len
  OBVIOUS
<1>2. /\ Place(from, k, len) = IF from + k < len THEN from + k ELSE from + k - len
      /\ Place(from, k, len) \in 0 .. len - 1
  BY <1>1, PlaceValue
<1>3. Place(from, k + 1, len) = IF from + (k + 1) < len THEN from + (k + 1) ELSE from + (k + 1) - len
  BY <1>1, PlaceValue
<1>4. NextSlot(Place(from, k, len), len)
        = IF Place(from, k, len) + 1 < len THEN Place(from, k, len) + 1 ELSE 0
  BY <1>2, NextSlotValue
<1>. QED BY <1>2, <1>3, <1>4

-----------------------------------------------------------------------------
(* A ring that is filled and emptied *)

\* A slot that changes leaves the other places.
LEMMA AtFilled ==
  ASSUME NEW len \in Nat \ {0}, NEW from \in 0 .. len - 1, NEW n \in 0 .. len - 1,
         NEW ring, NEW after,
         \A s \in 0 .. len - 1 : s # Place(from, n, len) => after[s] = ring[s]
  PROVE  \A k \in 0 .. len - 1 : k # n => At(after, from, k, len) = At(ring, from, k, len)
<1>1. TAKE k \in 0 .. len - 1
<1>2. Place(from, k, len) \in 0 .. len - 1
  <2>1. k \in 0 .. len
    OBVIOUS
  <2>. QED BY <2>1, PlaceValue
<1>3. k # n => Place(from, k, len) # Place(from, n, len)
  BY PlacesDiffer
<1>. QED BY <1>2, <1>3 DEF At

\* When the first slot is emptied and the next one is the first, every place is
\* one nearer and the emptied slot is the last.
LEMMA AtEmptied ==
  ASSUME NEW len \in Nat \ {0}, NEW from \in 0 .. len - 1, NEW ring, NEW after,
         after[from] = None, \A s \in 0 .. len - 1 : s # from => after[s] = ring[s]
  PROVE  \A k \in 0 .. len - 1 :
           At(after, NextSlot(from, len), k, len)
             = IF k = len - 1 THEN None ELSE At(ring, from, k + 1, len)
<1>. TAKE k \in 0 .. len - 1
<1>1. k + 1 \in 0 .. len /\ 0 \in 0 .. len
  OBVIOUS
<1>2. Place(NextSlot(from, len), k, len) = Place(from, k + 1, len) /\ Place(from, k + 1, len) \in 0 .. len - 1
  BY <1>1, PlaceShift, PlaceValue
<1>3. CASE k = len - 1
  <2>1. Place(from, k + 1, len) = from
    BY <1>1, <1>3, PlaceValue
  <2>. QED BY <1>2, <1>3, <2>1 DEF At
<1>4. CASE k # len - 1
  <2>1. k + 1 \in 0 .. len - 1 /\ k + 1 # 0 /\ 0 \in 0 .. len - 1
    BY <1>4
  <2>2. Place(from, 0, len) = from
    BY <1>1, PlaceValue
  <2>3. Place(from, k + 1, len) # from
    BY <2>1, <2>2, PlacesDiffer
  <2>. QED BY <1>2, <1>4, <2>3 DEF At
<1>. QED BY <1>3, <1>4

\* The first place.
LEMMA AtFirst ==
  ASSUME NEW len \in Nat \ {0}, NEW from \in 0 .. len - 1, NEW ring
  PROVE  At(ring, from, 0, len) = ring[from] /\ Place(from, 0, len) = from
  BY PlaceValue DEF At

\* A ring is in step when some number of its slots is in use.
LEMMA BetweenInUse ==
  ASSUME NEW ring, NEW from, NEW to, NEW len
  PROVE  Between(ring, from, to, len) <=> \E n \in 0 .. len : InUse(ring, from, to, len, n)
  BY DEF Between, InUse, At, Place

\* The one who fills the ring stays in step ...
LEMMA FillInStep ==
  ASSUME NEW len \in Nat \ {0}, NEW from \in 0 .. len - 1, NEW to \in 0 .. len - 1,
         NEW ring, NEW after, NEW n \in 0 .. len, InUse(ring, from, to, len, n),
         ring[to] = None, after[to] # None,
         \A s \in 0 .. len - 1 : s # to => after[s] = ring[s]
  PROVE  n < len /\ InUse(after, from, NextSlot(to, len), len, n + 1)
<1>1. n \in 0 .. len - 1
  <2>1. CASE n = len
    <3>1. to = from
      BY <2>1, PlaceValue DEF InUse
    <3>2. At(ring, from, 0, len) = None
      BY <3>1, AtFirst
    <3>. QED BY <2>1, <3>2 DEF InUse
  <2>. QED BY <2>1
<1>2. NextSlot(to, len) = Place(from, n + 1, len)
  BY <1>1, NextOfPlace DEF InUse
<1>3. ASSUME NEW k \in 0 .. len - 1
      PROVE  (At(after, from, k, len) # None) <=> k < n + 1
  <2>4. to = Place(from, n, len)
    BY DEF InUse
  <2>1. k # n => At(after, from, k, len) = At(ring, from, k, len)
    BY <1>1, <2>4, AtFilled
  <2>2. (At(ring, from, k, len) # None) <=> k < n
    BY DEF InUse
  <2>3. At(after, from, n, len) # None
    BY <2>4 DEF At
  <2>. QED BY <1>1, <2>1, <2>2, <2>3
<1>4. n < len
  BY <1>1
<1>. QED BY <1>2, <1>3, <1>4 DEF InUse

\* ... and so does the one who empties it.
LEMMA EmptyInStep ==
  ASSUME NEW len \in Nat \ {0}, NEW from \in 0 .. len - 1, NEW to,
         NEW ring, NEW after, NEW n \in 0 .. len, InUse(ring, from, to, len, n),
         ring[from] # None, after[from] = None,
         \A s \in 0 .. len - 1 : s # from => after[s] = ring[s]
  PROVE  n > 0 /\ InUse(after, NextSlot(from, len), to, len, n - 1)
<1>1. n \in 1 .. len
  <2>1. At(ring, from, 0, len) # None /\ 0 \in 0 .. len - 1
    BY AtFirst
  <2>. QED BY <2>1 DEF InUse
<1>2. to = Place(NextSlot(from, len), n - 1, len)
  <2>1. n - 1 \in 0 .. len - 1 /\ (n - 1) + 1 = n
    BY <1>1
  <2>. QED BY <2>1, PlaceShift DEF InUse
<1>3. ASSUME NEW k \in 0 .. len - 1
      PROVE  (At(after, NextSlot(from, len), k, len) # None) <=> k < n - 1
  <2>1. At(after, NextSlot(from, len), k, len)
          = IF k = len - 1 THEN None ELSE At(ring, from, k + 1, len)
    BY AtEmptied
  <2>2. k # len - 1 => ((At(ring, from, k + 1, len) # None) <=> k + 1 < n)
    BY DEF InUse
  <2>. QED BY <1>1, <2>1, <2>2
<1>4. n > 0
  BY <1>1
<1>. QED BY <1>2, <1>3, <1>4 DEF InUse

\* Which slots are in use depends only on which are None.
LEMMA SameInStep ==
  ASSUME NEW len \in Nat \ {0}, NEW from \in 0 .. len - 1, NEW to,
         NEW ring, NEW after, NEW n, InUse(ring, from, to, len, n),
         \A s \in 0 .. len - 1 : after[s] = None <=> ring[s] = None
  PROVE  InUse(after, from, to, len, n)
<1>1. ASSUME NEW k \in 0 .. len - 1
      PROVE  (At(after, from, k, len) # None) <=> k < n
  <2>1. k \in 0 .. len
    OBVIOUS
  <2>2. Place(from, k, len) \in 0 .. len - 1
    BY <2>1, PlaceValue
  <2>. QED BY <2>2 DEF InUse, At
<1>. QED BY <1>1 DEF InUse

-----------------------------------------------------------------------------
(* Frames *)

\* What a descriptor of the receive ring holds.
Held == Frames \cup {Foreign, None}

\* What the proofs need of the constants.
LEMMA Sizes ==
  /\ TxLen \in Nat \ {0} /\ RxLen \in Nat \ {0} /\ IndexMod \in Nat \ {0}
  /\ MaxAttempts \in Nat \ {0} /\ WireLen \in Nat \ {0} /\ MaxTrouble \in Nat
  BY TransactionAssumption

\* A frame is told from a descriptor without one and from foreign traffic.
LEMMA FrameProperties ==
  /\ None \notin Frames /\ Foreign \notin Frames /\ Foreign # None
  /\ ~None.mine /\ ~Foreign.mine /\ Own \in Frames /\ Own.mine
  /\ Foreign.lag # 0 /\ None.lag # 0
<1>1. IndexMod \in Nat \ {0}
  BY Sizes
<1>. QED BY <1>1 DEF None, Foreign, Own, Frames

\* A new request turns no frame into another kind, and makes none its own.
LEMMA AgedProperties ==
  ASSUME NEW f \in Held
  PROVE  /\ Aged(f) \in Held /\ ~Aged(f).mine
         /\ f \in Frames <=> Aged(f) \in Frames
         /\ Aged(f) = None <=> f = None
         /\ Aged(f) = Foreign <=> f = Foreign
<1>1. IndexMod \in Nat \ {0}
  BY Sizes
<1>2. CASE f \in Frames
  <2>1. f.lag + 1 \in Nat
    BY <1>1, <1>2 DEF Frames
  <2>2. (f.lag + 1) % IndexMod \in 0 .. IndexMod - 1
    BY <1>1, <2>1
  <2>3. Aged(f) = [lag |-> (f.lag + 1) % IndexMod, mine |-> FALSE]
    BY <1>2 DEF Aged
  <2>4. Aged(f) \in Frames /\ ~Aged(f).mine
    BY <2>2, <2>3 DEF Frames
  <2>. QED BY <1>2, <2>4, FrameProperties DEF Held
<1>3. CASE f \notin Frames
  BY <1>3, FrameProperties DEF Aged, Held
<1>. QED BY <1>2, <1>3

\* A new request makes every frame of a ring older, slot by slot.
LEMMA AllAgedRing ==
  ASSUME NEW D, NEW ring \in [D -> Held]
  PROVE  /\ AllAged(ring) \in [D -> Held]
         /\ \A s \in D : AllAged(ring)[s] = Aged(ring[s])
  BY AgedProperties DEF AllAged

\* A new request makes every frame on the wire older, in their order.
LEMMA AllAgedWire ==
  ASSUME NEW w \in Seq(Frames)
  PROVE  /\ AllAged(w) \in Seq(Frames) /\ Len(AllAged(w)) = Len(w)
         /\ DOMAIN AllAged(w) = DOMAIN w
         /\ \A k \in DOMAIN w : AllAged(w)[k] = Aged(w[k])
<1>1. \A k \in 1 .. Len(w) : Aged(w[k]) \in Frames
  BY AgedProperties DEF Held
<1>2. AllAged(w) = [k \in 1 .. Len(w) |-> Aged(w[k])]
  BY DEF AllAged
<1>. QED BY <1>1, <1>2

\* A frame that is lost leaves the order of the others.
LEMMA RemoveAtProperties ==
  ASSUME NEW S, NEW w \in Seq(S), NEW k \in DOMAIN w
  PROVE  /\ RemoveAt(w, k) \in Seq(S) /\ Len(RemoveAt(w, k)) = Len(w) - 1
         /\ \A i \in 1 .. Len(w) - 1 : RemoveAt(w, k)[i] = w[IF i < k THEN i ELSE i + 1]
<1>. DEFINE before == SubSeq(w, 1, k - 1)
            behind == SubSeq(w, k + 1, Len(w))
<1>1. k \in 1 .. Len(w) /\ Len(w) \in Nat /\ \A i \in 1 .. Len(w) : w[i] \in S
  OBVIOUS
<1>2. /\ before \in Seq(S) /\ Len(before) = k - 1
      /\ \A i \in 1 .. k - 1 : before[i] = w[i]
  BY <1>1
<1>3. /\ behind \in Seq(S) /\ Len(behind) = Len(w) - k
      /\ \A i \in 1 .. Len(w) - k : behind[i] = w[k + i]
  <2>1. k + 1 \in Int /\ Len(w) \in Int /\ \A i \in k + 1 .. Len(w) : w[i] \in S
    BY <1>1
  <2>2. \A i \in 1 .. Len(w) - (k + 1) + 1 : behind[i] = w[(k + 1) + i - 1]
    BY <2>1, SubSeqProperties
  <2>3. behind \in Seq(S) /\ Len(behind) = IF k + 1 <= Len(w) THEN Len(w) - (k + 1) + 1 ELSE 0
    BY <2>1, SubSeqProperties
  <2>. QED BY <1>1, <2>2, <2>3
<1>4. RemoveAt(w, k) = before \o behind
  BY DEF RemoveAt
<1>. HIDE DEF before, behind
<1>5. RemoveAt(w, k) \in Seq(S) /\ Len(RemoveAt(w, k)) = Len(w) - 1
  BY <1>1, <1>2, <1>3, <1>4, ConcatProperties
<1>6. ASSUME NEW i \in 1 .. Len(w) - 1
      PROVE  RemoveAt(w, k)[i] = w[IF i < k THEN i ELSE i + 1]
  <2>1. (before \o behind)[i] = IF i <= Len(before) THEN before[i] ELSE behind[i - Len(before)]
    <3>1. i \in 1 .. Len(before) + Len(behind)
      BY <1>1, <1>2, <1>3
    <3>. QED BY <1>2, <1>3, <3>1, ConcatProperties
  <2>2. CASE i < k
    BY <1>1, <1>2, <1>4, <2>1, <2>2
  <2>3. CASE ~(i < k)
    <3>1. i - Len(before) \in 1 .. Len(w) - k /\ ~(i <= Len(before)) /\ k + (i - Len(before)) = i + 1
      BY <1>1, <1>2, <2>3
    <3>. QED BY <1>3, <1>4, <2>1, <2>3, <3>1
  <2>. QED BY <2>2, <2>3
<1>. QED BY <1>5, <1>6

-----------------------------------------------------------------------------
(* Types *)

\* The types in the form the steps use them.
LEMMA TypeFacts ==
  ASSUME TypeOK
  PROVE  /\ tx \in [0 .. TxLen - 1 -> Held] /\ rx \in [0 .. RxLen - 1 -> Held]
         /\ \A k \in 0 .. TxLen - 1 : tx[k] # Foreign
         /\ txPos \in 0 .. TxLen - 1 /\ txDma \in 0 .. TxLen - 1
         /\ rxPos \in 0 .. RxLen - 1 /\ rxDma \in 0 .. RxLen - 1
         /\ waiting \in BOOLEAN /\ wire \in Seq(Frames) /\ Len(wire) \in Nat
         /\ fails \in 0 .. IndexMod
<1>1. \A k \in 0 .. TxLen - 1 : tx[k] # Foreign
  BY FrameProperties DEF TypeOK
<1>. QED BY <1>1 DEF TypeOK, Held

\* poll_raw keeps the receive ring well-formed.
LEMMA PolledType ==
  ASSUME TypeOK, Polled
  PROVE  /\ rx' \in [0 .. RxLen - 1 -> Held] /\ rxPos' \in 0 .. RxLen - 1
         /\ rxDma' = rxDma /\ rxActive' \in BOOLEAN
<1>1. NextSlot(rxPos, RxLen) \in 0 .. RxLen - 1
  BY TypeFacts, Sizes, NextSlotValue
<1>2. rx \in [0 .. RxLen - 1 -> Held] /\ None \in Held /\ rxActive \in BOOLEAN /\ rxPos \in 0 .. RxLen - 1
  BY TypeFacts DEF Held, TypeOK
<1>. QED BY <1>1, <1>2 DEF Polled, rxRing

\* The ENET keeps the receive ring well-formed.
LEMMA ReceivedType ==
  ASSUME TypeOK, NEW f \in Frames \cup {Foreign}, Received(f)
  PROVE  /\ rx' \in [0 .. RxLen - 1 -> Held] /\ rxDma' \in 0 .. RxLen - 1
         /\ rxPos' = rxPos /\ rxActive' \in BOOLEAN
<1>1. NextSlot(rxDma, RxLen) \in 0 .. RxLen - 1
  BY TypeFacts, Sizes, NextSlotValue
<1>2. rx \in [0 .. RxLen - 1 -> Held] /\ f \in Held /\ rxActive \in BOOLEAN /\ rxDma \in 0 .. RxLen - 1
  BY TypeFacts DEF Held, TypeOK
<1>. QED BY <1>1, <1>2 DEF Received

\* Rings and wire are empty at the start.
LEMMA InitType ==
  ASSUME Init
  PROVE  TypeInv
<1>1. tx \in [0 .. TxLen - 1 -> Frames \cup {None}] /\ rx \in [0 .. RxLen - 1 -> Frames \cup {Foreign, None}]
  BY DEF Init
<1>2. 0 \in 0 .. TxLen - 1 /\ 0 \in 0 .. RxLen - 1 /\ 0 \in 0 .. MaxAttempts
      /\ 0 \in 0 .. MaxTrouble /\ 0 \in 0 .. IndexMod /\ 0 <= WireLen
  BY Sizes
<1>3. wire \in Seq(Frames) /\ Len(wire) <= WireLen
  BY <1>2 DEF Init
<1>. QED BY <1>1, <1>2, <1>3 DEF Init, TypeInv, TypeOK

\* Every step keeps the types, and a request that waits has an attempt left.
LEMMA StepType ==
  ASSUME TypeInv, [Next]_vars
  PROVE  TypeInv'
<1>. USE DEF TypeInv
<1>1. /\ tx \in [0 .. TxLen - 1 -> Frames \cup {None}] /\ rx \in [0 .. RxLen - 1 -> Held]
      /\ wire \in Seq(Frames) /\ Len(wire) <= WireLen
  BY DEF TypeOK, Held
<1>2. CASE Send
  <2>1. AllAged(tx) \in [0 .. TxLen - 1 -> Frames \cup {None}]
    <3>1. \A k \in 0 .. TxLen - 1 : tx[k] \in Held /\ Aged(tx[k]) \in Frames \cup {None}
      BY <1>1, AgedProperties DEF Held
    <3>. QED BY <1>1, <3>1 DEF AllAged
  <2>2. tx' \in [0 .. TxLen - 1 -> Frames \cup {None}]
    BY <1>2, <2>1, FrameProperties DEF Send
  <2>3. rx' \in [0 .. RxLen - 1 -> Held] /\ wire' \in Seq(Frames) /\ Len(wire') <= WireLen
    BY <1>1, <1>2, AllAgedRing, AllAgedWire DEF Send
  <2>4. txPos' \in 0 .. TxLen - 1
    BY <1>2, TypeFacts, Sizes, NextSlotValue DEF Send
  <2>. QED BY <1>2, <2>2, <2>3, <2>4, Sizes DEF Send, TypeOK, Held
<1>3. CASE SendRefused
  <2>1. tx' \in [0 .. TxLen - 1 -> Frames \cup {None}]
    <3>1. \A k \in 0 .. TxLen - 1 : tx[k] \in Held /\ Aged(tx[k]) \in Frames \cup {None}
      BY <1>1, AgedProperties DEF Held
    <3>. QED BY <1>1, <1>3, <3>1 DEF AllAged, SendRefused
  <2>2. rx' \in [0 .. RxLen - 1 -> Held] /\ wire' \in Seq(Frames) /\ Len(wire') <= WireLen
    BY <1>1, <1>3, AllAgedRing, AllAgedWire DEF SendRefused
  <2>3. fails' \in 0 .. IndexMod /\ trouble' \in 0 .. MaxTrouble
    BY <1>3, Sizes DEF SendRefused, Failed, Trouble, TypeOK
  <2>. QED BY <1>3, <2>1, <2>2, <2>3 DEF SendRefused, TypeOK, Held, pump
<1>4. CASE Answered
  <2>1. fails' \in 0 .. IndexMod
    BY <1>4, Sizes DEF Answered, Failed, TypeOK
  <2>2. UNCHANGED <<attempts, txRing, wire, trouble>> /\ waiting' = FALSE
    BY <1>4 DEF Answered
  <2>. QED BY <1>4, <2>1, <2>2, PolledType DEF Answered, txRing, TypeOK, Held
<1>5. CASE Again
  <2>1. attempts' \in 0 .. MaxAttempts /\ attempts' < MaxAttempts
    BY <1>5, Sizes DEF Again, TypeOK
  <2>2. UNCHANGED <<waiting, txRing, wire, trouble, fails>>
    BY <1>5 DEF Again
  <2>. QED BY <1>5, <2>1, <2>2, PolledType DEF Again, txRing, TypeOK, Held
<1>6. CASE GiveUp
  <2>1. attempts' \in 0 .. MaxAttempts /\ waiting' = FALSE
    BY <1>6, Sizes DEF GiveUp, TypeOK
  <2>2. fails' \in 0 .. IndexMod /\ trouble' \in 0 .. MaxTrouble
    BY <1>6, Sizes DEF GiveUp, Failed, Tired, TypeOK
  <2>3. UNCHANGED <<txRing, wire>>
    BY <1>6 DEF GiveUp
  <2>. QED BY <1>6, <2>1, <2>2, <2>3, PolledType DEF GiveUp, txRing, TypeOK, Held
<1>7. CASE Transmit
  <2>1. tx[txDma] \in Frames
    BY <1>1, <1>7, TypeFacts DEF Transmit
  <2>2. wire' \in Seq(Frames) /\ Len(wire') <= WireLen
    BY <1>1, <1>7, <2>1, Sizes DEF Transmit
  <2>3. txDma' \in 0 .. TxLen - 1
    BY <1>7, TypeFacts, Sizes, NextSlotValue DEF Transmit
  <2>4. tx' \in [0 .. TxLen - 1 -> Frames \cup {None}]
    BY <1>1, <1>7 DEF Transmit
  <2>. QED BY <1>7, <2>2, <2>3, <2>4 DEF Transmit, TypeOK, rxRing, pump
<1>8. CASE TransmitEnds
  BY <1>8 DEF TransmitEnds, TypeOK, rxRing, pump
<1>9. CASE Arrive
  <2>1. Head(wire) \in Frames /\ wire' \in Seq(Frames) /\ Len(wire') <= WireLen
    BY <1>1, <1>9, Sizes DEF Arrive
  <2>2. Received(Head(wire)) /\ UNCHANGED <<txRing, pump, trouble, fails>>
    BY <1>9 DEF Arrive
  <2>3. rx' \in [0 .. RxLen - 1 -> Held] /\ rxDma' \in 0 .. RxLen - 1 /\ rxPos' = rxPos /\ rxActive' \in BOOLEAN
    BY <2>1, <2>2, ReceivedType
  <2>. QED BY <2>1, <2>2, <2>3 DEF TypeOK, txRing, pump, Held
<1>10. CASE Lose
  <2>1. PICK k \in DOMAIN wire : wire' = RemoveAt(wire, k)
    BY <1>10 DEF Lose
  <2>2. wire' \in Seq(Frames) /\ Len(wire') <= WireLen
    <3>1. RemoveAt(wire, k) \in Seq(Frames) /\ Len(RemoveAt(wire, k)) = Len(wire) - 1
      BY <1>1, RemoveAtProperties
    <3>. QED BY <1>1, <2>1, <3>1, Sizes
  <2>3. trouble' \in 0 .. MaxTrouble
    BY <1>10, Sizes DEF Lose, Trouble, TypeOK
  <2>4. UNCHANGED <<txRing, rxRing, pump, fails>>
    BY <1>10 DEF Lose
  <2>. QED BY <2>2, <2>3, <2>4 DEF TypeOK, txRing, rxRing, pump
<1>11. CASE Disturb
  <2>1. rx' \in [0 .. RxLen - 1 -> Held] /\ rxDma' \in 0 .. RxLen - 1 /\ rxPos' = rxPos /\ rxActive' \in BOOLEAN
    BY <1>11, ReceivedType DEF Disturb
  <2>2. trouble' \in 0 .. MaxTrouble
    BY <1>11, Sizes DEF Disturb, Trouble, TypeOK
  <2>3. UNCHANGED <<txRing, pump, wire, fails>>
    BY <1>11 DEF Disturb
  <2>. QED BY <2>1, <2>2, <2>3 DEF TypeOK, txRing, pump, Held
<1>12. CASE UNCHANGED vars
  BY <1>12 DEF vars, TypeOK, txRing, rxRing, pump
<1>. QED BY <1>2, <1>3, <1>4, <1>5, <1>6, <1>7, <1>8, <1>9, <1>10, <1>11, <1>12 DEF Next, Pump

-----------------------------------------------------------------------------
(* What the parts of a step do *)

\* poll_raw takes the frame of its slot, if there is one, and goes on to the next.
LEMMA PolledEffect ==
  ASSUME TypeOK, Polled
  PROVE  /\ rxDma' = rxDma
         /\ \A s \in 0 .. RxLen - 1 : s # rxPos => rx'[s] = rx[s]
         /\ rx'[rxPos] = None
         /\ rx[rxPos] = None => rxPos' = rxPos /\ rx' = rx
         /\ rx[rxPos] # None => rxPos' = NextSlot(rxPos, RxLen)
  BY TypeFacts DEF Polled, rxRing

\* The ENET puts a frame in its slot and goes on to the next, or drops the frame when
\* the ring is full.
LEMMA ReceivedEffect ==
  ASSUME TypeOK, NEW f, Received(f)
  PROVE  /\ rxPos' = rxPos
         /\ \/ /\ rx[rxDma] = None /\ rx'[rxDma] = f /\ rxDma' = NextSlot(rxDma, RxLen)
               /\ \A s \in 0 .. RxLen - 1 : s # rxDma => rx'[s] = rx[s]
            \/ UNCHANGED <<rx, rxDma>>
  BY TypeFacts DEF Received

\* send_frame fills its slot, which was empty, and goes on to the next.
LEMMA SendEffect ==
  ASSUME TypeOK, Send
  PROVE  /\ \A s \in 0 .. TxLen - 1 : s # txPos => tx'[s] = Aged(tx[s])
         /\ tx[txPos] = None /\ tx'[txPos] = Own
         /\ txPos' = NextSlot(txPos, TxLen) /\ txDma' = txDma
<1>1. AllAged(tx) \in [0 .. TxLen - 1 -> Held] /\ \A s \in 0 .. TxLen - 1 : AllAged(tx)[s] = Aged(tx[s])
  BY TypeFacts, AllAgedRing
<1>. QED BY <1>1, TypeFacts DEF Send

\* All frames but the one sent are aged, and the receive ring stays as it is.
LEMMA RequestEffect ==
  ASSUME TypeOK, Send \/ SendRefused
  PROVE  /\ \A s \in 0 .. RxLen - 1 : rx'[s] = Aged(rx[s])
         /\ wire' \in Seq(Frames) /\ Len(wire') = Len(wire) /\ DOMAIN wire' = DOMAIN wire
         /\ \A i \in DOMAIN wire : wire'[i] = Aged(wire[i])
         /\ UNCHANGED <<rxPos, rxDma, txDma>>
<1>1. rx' = AllAged(rx) /\ wire' = AllAged(wire) /\ UNCHANGED <<rxPos, rxDma, txDma>>
  BY DEF Send, SendRefused
<1>2. \A s \in 0 .. RxLen - 1 : rx'[s] = Aged(rx[s])
  <2>1. rx \in [0 .. RxLen - 1 -> Held]
    BY TypeFacts
  <2>2. \A s \in 0 .. RxLen - 1 : AllAged(rx)[s] = Aged(rx[s])
    BY <2>1, AllAgedRing
  <2>. QED BY <1>1, <2>2
<1>3. wire \in Seq(Frames)
  BY TypeFacts
<1>4. /\ AllAged(wire) \in Seq(Frames) /\ Len(AllAged(wire)) = Len(wire)
      /\ DOMAIN AllAged(wire) = DOMAIN wire
      /\ \A k \in DOMAIN wire : AllAged(wire)[k] = Aged(wire[k])
  BY <1>3, AllAgedWire
<1>. QED BY <1>1, <1>2, <1>4

\* A frame that is refused leaves its slot as it is.
LEMMA RefusedEffect ==
  ASSUME TypeOK, SendRefused
  PROVE  /\ \A s \in 0 .. TxLen - 1 : tx'[s] = Aged(tx[s])
         /\ txPos' = txPos
<1>1. tx' = AllAged(tx) /\ txPos' = txPos
  BY DEF SendRefused
<1>2. tx \in [0 .. TxLen - 1 -> Held]
  BY TypeFacts
<1>3. \A s \in 0 .. TxLen - 1 : AllAged(tx)[s] = Aged(tx[s])
  BY <1>2, AllAgedRing
<1>. QED BY <1>1, <1>3

\* The ENET empties its slot, which had a frame, and goes on to the next.
LEMMA TransmitEffect ==
  ASSUME TypeOK, Transmit
  PROVE  /\ \A s \in 0 .. TxLen - 1 : s # txDma => tx'[s] = tx[s]
         /\ tx[txDma] # None /\ tx'[txDma] = None
         /\ txDma' = NextSlot(txDma, TxLen) /\ txPos' = txPos
  BY TypeFacts DEF Transmit

-----------------------------------------------------------------------------
(* Driver and ENET in step *)

\* Empty rings are in step.
LEMMA InitRings ==
  ASSUME Init
  PROVE  RingsInStep
<1>1. InUse(tx, txDma, txPos, TxLen, 0)
  <2>1. txPos = Place(txDma, 0, TxLen)
    BY Sizes, RemainderSmall DEF Init, Place
  <2>2. \A k \in 0 .. TxLen - 1 : Place(txDma, k, TxLen) \in 0 .. TxLen - 1
    BY Sizes, PlaceValue DEF Init
  <2>. QED BY <2>1, <2>2 DEF InUse, At, Init
<1>2. InUse(rx, rxPos, rxDma, RxLen, 0)
  <2>1. rxDma = Place(rxPos, 0, RxLen)
    BY Sizes, RemainderSmall DEF Init, Place
  <2>2. \A k \in 0 .. RxLen - 1 : Place(rxPos, k, RxLen) \in 0 .. RxLen - 1
    BY Sizes, PlaceValue DEF Init
  <2>. QED BY <2>1, <2>2 DEF InUse, At, Init
<1>3. 0 \in 0 .. TxLen /\ 0 \in 0 .. RxLen
  BY Sizes
<1>. QED BY <1>1, <1>2, <1>3, BetweenInUse DEF RingsInStep

\* Every step of driver and ENET keeps both rings in step.
LEMMA StepRings ==
  ASSUME TypeInv, RingsInStep, [Next]_vars
  PROVE  RingsInStep'
<1>. USE DEF TypeInv
<1>1. PICK n \in 0 .. TxLen : InUse(tx, txDma, txPos, TxLen, n)
  BY BetweenInUse DEF RingsInStep
<1>2. PICK m \in 0 .. RxLen : InUse(rx, rxPos, rxDma, RxLen, m)
  BY BetweenInUse DEF RingsInStep
<1>3. SUFFICES /\ \E k \in 0 .. TxLen : InUse(tx', txDma', txPos', TxLen, k)
               /\ \E k \in 0 .. RxLen : InUse(rx', rxPos', rxDma', RxLen, k)
  BY BetweenInUse DEF RingsInStep
<1>4. TypeOK /\ TypeOK' /\ n + 1 \in Nat /\ n - 1 \in Int /\ m + 1 \in Nat /\ m - 1 \in Int
  BY StepType
<1>5. /\ tx \in [0 .. TxLen - 1 -> Held] /\ rx \in [0 .. RxLen - 1 -> Held]
      /\ txDma \in 0 .. TxLen - 1 /\ txPos \in 0 .. TxLen - 1
      /\ rxPos \in 0 .. RxLen - 1 /\ rxDma \in 0 .. RxLen - 1
  BY TypeFacts
<1>6. ASSUME Send \/ SendRefused
      PROVE  InUse(rx', rxPos', rxDma', RxLen, m)
  <2>1. \A s \in 0 .. RxLen - 1 : rx'[s] = None <=> rx[s] = None
    BY <1>5, <1>6, RequestEffect, AgedProperties
  <2>2. rxPos' = rxPos /\ rxDma' = rxDma
    BY <1>6, RequestEffect
  <2>. QED BY <1>2, <1>5, <2>1, <2>2, Sizes, SameInStep
<1>7. CASE Send
  <2>. DEFINE aged == [s \in 0 .. TxLen - 1 |-> Aged(tx[s])]
  <2>1. InUse(aged, txDma, txPos, TxLen, n)
    <3>1. \A s \in 0 .. TxLen - 1 : aged[s] = None <=> tx[s] = None
      BY <1>5, AgedProperties
    <3>. HIDE DEF aged
    <3>. QED BY <1>1, <1>5, <3>1, Sizes, SameInStep
  <2>2. /\ aged[txPos] = None /\ tx'[txPos] # None /\ txPos' = NextSlot(txPos, TxLen) /\ txDma' = txDma
        /\ \A s \in 0 .. TxLen - 1 : s # txPos => tx'[s] = aged[s]
    BY <1>5, <1>7, SendEffect, AgedProperties, FrameProperties
  <2>. HIDE DEF aged
  <2>3. n < TxLen /\ InUse(tx', txDma, txPos', TxLen, n + 1)
    BY <1>5, <2>1, <2>2, Sizes, FillInStep
  <2>4. n + 1 \in 0 .. TxLen
    BY <2>3, Sizes
  <2>. QED BY <1>6, <1>7, <2>2, <2>3, <2>4
<1>8. CASE SendRefused
  <2>1. \A s \in 0 .. TxLen - 1 : tx'[s] = None <=> tx[s] = None
    BY <1>5, <1>8, RefusedEffect, AgedProperties
  <2>2. txPos' = txPos /\ txDma' = txDma
    BY <1>8, RefusedEffect, RequestEffect
  <2>3. InUse(tx', txDma, txPos, TxLen, n)
    BY <1>1, <1>5, <2>1, Sizes, SameInStep
  <2>. QED BY <1>6, <1>8, <2>2, <2>3
<1>9. CASE Pump
  <2>1. Polled /\ UNCHANGED txRing
    BY <1>9 DEF Pump, Answered, Again, GiveUp
  <2>2. InUse(tx', txDma', txPos', TxLen, n)
    BY <1>1, <2>1 DEF txRing
  <2>3. CASE rx[rxPos] = None
    BY <1>2, <2>1, <2>2, <2>3, PolledEffect
  <2>4. CASE rx[rxPos] # None
    <3>1. m > 0 /\ InUse(rx', rxPos', rxDma', RxLen, m - 1)
      BY <1>2, <1>5, <2>1, <2>4, Sizes, PolledEffect, EmptyInStep
    <3>2. m - 1 \in 0 .. RxLen
      BY <3>1, Sizes
    <3>. QED BY <2>2, <3>1, <3>2
  <2>. QED BY <2>3, <2>4
<1>10. CASE Transmit
  <2>1. n > 0 /\ InUse(tx', txDma', txPos', TxLen, n - 1)
    BY <1>1, <1>5, <1>10, Sizes, TransmitEffect, EmptyInStep
  <2>2. n - 1 \in 0 .. TxLen
    BY <2>1, Sizes
  <2>. QED BY <1>2, <1>10, <2>1, <2>2 DEF Transmit, rxRing
<1>11. CASE TransmitEnds \/ Lose \/ UNCHANGED vars
  <2>1. UNCHANGED <<tx, txPos, txDma, rx, rxPos, rxDma>>
    BY <1>11 DEF TransmitEnds, Lose, vars, txRing, rxRing
  <2>. QED BY <1>1, <1>2, <2>1
<1>12. CASE Arrive \/ Disturb
  <2>1. PICK f \in Frames \cup {Foreign} : Received(f)
    <3>1. wire # <<>> => Head(wire) \in Frames
      BY TypeFacts
    <3>. QED BY <1>12, <3>1 DEF Arrive, Disturb
  <2>2. f # None
    BY FrameProperties
  <2>3. InUse(tx', txDma', txPos', TxLen, n)
    BY <1>1, <1>12 DEF Arrive, Disturb, txRing
  <2>4. CASE UNCHANGED <<rx, rxDma>>
    BY <1>2, <2>1, <2>3, <2>4, ReceivedEffect
  <2>5. CASE ~UNCHANGED <<rx, rxDma>>
    <3>1. m < RxLen /\ InUse(rx', rxPos, rxDma', RxLen, m + 1)
      BY <1>2, <1>5, <2>1, <2>2, <2>5, Sizes, ReceivedEffect, FillInStep
    <3>2. m + 1 \in 0 .. RxLen
      BY <3>1, Sizes
    <3>. QED BY <2>1, <2>3, <3>1, <3>2, ReceivedEffect
  <2>. QED BY <2>4, <2>5
<1>. QED BY <1>7, <1>8, <1>9, <1>10, <1>11, <1>12 DEF Next

-----------------------------------------------------------------------------
(* The order of the frames, and their ages *)

\* When the reply taken is the own one, the receive ring has no other frame of the pump.
LEMMA PlaceOfOwn ==
  ASSUME TypeOK, OwnIsLast, RingsInStep,
         NEW k \in 0 .. RxLen - 1, rx[k].mine, k = rxPos
  PROVE  \A s \in 0 .. RxLen - 1 : s # rxPos => rx[s] \in {None, Foreign}
<1>1. TAKE s \in 0 .. RxLen - 1
<1>2. HAVE s # rxPos
<1>3. rxPos \in 0 .. RxLen - 1 /\ RxLen \in Nat \ {0} /\ 0 \in 0 .. RxLen - 1
  BY TypeFacts, Sizes
<1>4. PICK j \in 0 .. RxLen - 1 : Place(rxPos, j, RxLen) = s
  BY <1>3, EverySlot
<1>5. At(rx, rxPos, 0, RxLen) = rx[rxPos] /\ Place(rxPos, 0, RxLen) = rxPos
  BY <1>3, AtFirst
<1>6. 0 < j
  BY <1>2, <1>4, <1>5
<1>7. At(rx, rxPos, j, RxLen) \in {None, Foreign}
  BY <1>3, <1>5, <1>6 DEF OwnIsLast
<1>. QED BY <1>4, <1>7 DEF At

\* With nothing under way order and ages hold.
LEMMA InitOrder ==
  ASSUME Init
  PROVE  OwnIsLast /\ AgesKept /\ QuietAfterReply
<1>1. \A i \in 0 .. RxLen - 1 : At(rx, rxPos, i, RxLen) = None
  <2>1. \A i \in 0 .. RxLen - 1 : Place(rxPos, i, RxLen) \in 0 .. RxLen - 1
    <3>1. rxPos \in 0 .. RxLen - 1 /\ \A i \in 0 .. RxLen - 1 : i \in 0 .. RxLen
      BY Sizes DEF Init
    <3>. QED BY <3>1, Sizes, PlaceValue
  <2>. QED BY <2>1 DEF Init, At
<1>2. OwnIsLast
  <2>1. (\A k \in 0 .. TxLen - 1 : ~tx[k].mine) /\ (\A k \in 0 .. RxLen - 1 : ~rx[k].mine) /\ wire = <<>>
    BY FrameProperties DEF Init
  <2>2. \A i \in 0 .. RxLen - 1 : ~At(rx, rxPos, i, RxLen).mine
    BY <1>1, FrameProperties
  <2>3. DOMAIN wire = {}
    BY <2>1
  <2>. QED BY <2>1, <2>2, <2>3 DEF OwnIsLast
<1>3. AgesKept
  BY FrameProperties DEF Init, AgesKept, InAge
<1>. QED BY <1>2, <1>3 DEF Init, QuietAfterReply

\* A new request is behind everything, and all others cease to be the own one.
LEMMA RequestOrder ==
  ASSUME IInv, Send \/ SendRefused
  PROVE  OwnIsLast'
<1>. USE DEF IInv, TypeInv
<1>1. \A s \in 0 .. RxLen - 1 : ~rx'[s].mine
  BY TypeFacts, RequestEffect, AgedProperties
<1>2. \A i \in DOMAIN wire' : ~wire'[i].mine
  <2>1. \A i \in DOMAIN wire : wire[i] \in Held
    BY TypeFacts DEF Held
  <2>. QED BY <2>1, RequestEffect, AgedProperties
<1>3. \A k \in 0 .. TxLen - 1 : tx'[k].mine => txPos' = NextSlot(k, TxLen)
  <2>1. CASE Send
    BY <2>1, TypeFacts, SendEffect, AgedProperties
  <2>2. CASE SendRefused
    BY <2>2, TypeFacts, RefusedEffect, AgedProperties
  <2>. QED BY <2>1, <2>2
<1>4. \A i \in 0 .. RxLen - 1 : ~At(rx', rxPos', i, RxLen).mine
  <2>1. \A i \in 0 .. RxLen - 1 : Place(rxPos', i, RxLen) \in 0 .. RxLen - 1
    <3>1. rxPos' \in 0 .. RxLen - 1 /\ \A i \in 0 .. RxLen - 1 : i \in 0 .. RxLen
      BY TypeFacts, Sizes, RequestEffect
    <3>. QED BY <3>1, Sizes, PlaceValue
  <2>. QED BY <1>1, <2>1 DEF At
<1>5. (\A i, j \in 0 .. RxLen - 1 :
        i < j /\ At(rx, rxPos, i, RxLen).mine => At(rx, rxPos, j, RxLen) \in {None, Foreign})'
  BY <1>4
<1>. QED BY <1>1, <1>2, <1>3, <1>5 DEF OwnIsLast

\* A frame that is polled is the first, the others come one nearer.
LEMMA PumpOrder ==
  ASSUME IInv, Pump
  PROVE  OwnIsLast'
<1>. USE DEF IInv, TypeInv
<1>1. Polled /\ UNCHANGED <<tx, txPos, txDma, wire>>
  BY DEF Pump, Answered, Again, GiveUp, txRing
<1>2. CASE rx[rxPos] = None
  BY <1>1, <1>2, PolledEffect DEF OwnIsLast, TxEmpty
<1>3. CASE rx[rxPos] # None
  <2>1. rxPos \in 0 .. RxLen - 1 /\ RxLen \in Nat \ {0}
    BY TypeFacts, Sizes
  <2>2. /\ rxPos' = NextSlot(rxPos, RxLen) /\ rx'[rxPos] = None
        /\ \A s \in 0 .. RxLen - 1 : s # rxPos => rx'[s] = rx[s]
    BY <1>1, <1>3, PolledEffect
  <2>3. \A k \in 0 .. RxLen - 1 : At(rx', rxPos', k, RxLen)
                                    = IF k = RxLen - 1 THEN None ELSE At(rx, rxPos, k + 1, RxLen)
    BY <2>1, <2>2, AtEmptied
  <2>4. ASSUME NEW i \in 0 .. RxLen - 1, NEW j \in 0 .. RxLen - 1, i < j, At(rx', rxPos', i, RxLen).mine
        PROVE  At(rx', rxPos', j, RxLen) \in {None, Foreign}
    <3>1. i # RxLen - 1 /\ i + 1 \in 0 .. RxLen - 1 /\ At(rx, rxPos, i + 1, RxLen).mine
      BY <2>1, <2>3, <2>4
    <3>2. CASE j = RxLen - 1
      BY <2>3, <3>2
    <3>3. CASE j # RxLen - 1
      <4>1. j + 1 \in 0 .. RxLen - 1 /\ i + 1 < j + 1
        BY <2>1, <2>4, <3>3
      <4>. QED BY <2>3, <3>1, <3>3, <4>1 DEF OwnIsLast
    <3>. QED BY <3>2, <3>3
  <2>5. \A s \in 0 .. RxLen - 1 : rx'[s].mine => rx[s].mine
    BY <2>2, FrameProperties
  <2>. QED BY <1>1, <2>4, <2>5 DEF OwnIsLast, TxEmpty
<1>. QED BY <1>2, <1>3

\* The frame that leaves the transmit ring is its first: if it is the own one,
\* nothing is left there.
LEMMA TransmitOrder ==
  ASSUME IInv, Transmit
  PROVE  OwnIsLast'
<1>. USE DEF IInv, TypeInv
<1>1. /\ \A s \in 0 .. TxLen - 1 : s # txDma => tx'[s] = tx[s]
      /\ tx[txDma] # None /\ tx'[txDma] = None
      /\ txDma' = NextSlot(txDma, TxLen) /\ txPos' = txPos
      /\ wire' = Append(wire, tx[txDma]) /\ rx' = rx /\ rxPos' = rxPos
  BY TransmitEffect DEF Transmit, rxRing
<1>2. ~TxEmpty /\ txDma \in 0 .. TxLen - 1 /\ TxLen \in Nat \ {0}
  BY <1>1, TypeFacts, Sizes DEF TxEmpty
<1>3. \A i \in DOMAIN wire : ~wire[i].mine
  BY <1>2 DEF OwnIsLast
<1>4. \A k \in 0 .. RxLen - 1 : ~rx[k].mine
  BY <1>2 DEF OwnIsLast
<1>5. ASSUME tx[txDma].mine
      PROVE  TxEmpty'
  <2>1. txPos = NextSlot(txDma, TxLen)
    BY <1>2, <1>5 DEF OwnIsLast
  <2>2. PICK n \in 0 .. TxLen : InUse(tx, txDma, txPos, TxLen, n)
    BY BetweenInUse DEF RingsInStep
  <2>3. n = 1
    <3>1. txPos = IF txDma + n < TxLen THEN txDma + n ELSE txDma + n - TxLen
      BY <1>2, <2>2, PlaceValue DEF InUse
    <3>2. txPos = IF txDma + 1 < TxLen THEN txDma + 1 ELSE 0
      BY <1>2, <2>1, NextSlotValue
    <3>3. n # 0
      <4>1. At(tx, txDma, 0, TxLen) # None /\ 0 \in 0 .. TxLen - 1
        BY <1>1, <1>2, AtFirst
      <4>. QED BY <2>2, <4>1 DEF InUse
    <3>. QED BY <1>2, <3>1, <3>2, <3>3
  <2>4. ASSUME NEW s \in 0 .. TxLen - 1
        PROVE  tx'[s] = None
    <3>1. PICK j \in 0 .. TxLen - 1 : Place(txDma, j, TxLen) = s
      BY <1>2, EverySlot
    <3>2. CASE j = 0
      BY <1>1, <1>2, <3>1, <3>2, AtFirst
    <3>3. CASE j # 0
      <4>1. At(tx, txDma, j, TxLen) = None
        BY <2>2, <2>3, <3>3 DEF InUse
      <4>. QED BY <1>1, <3>1, <4>1 DEF At
    <3>. QED BY <3>2, <3>3
  <2>. QED BY <2>4 DEF TxEmpty
<1>6. ASSUME NEW i \in DOMAIN wire', wire'[i].mine
      PROVE  i = Len(wire') /\ TxEmpty'
  <2>1. wire \in Seq(Frames)
    BY TypeFacts
  <2>2. CASE i \in DOMAIN wire
    BY <1>1, <1>3, <1>6, <2>1, <2>2
  <2>3. CASE i \notin DOMAIN wire
    BY <1>1, <1>5, <1>6, <2>1, <2>3
  <2>. QED BY <2>2, <2>3
<1>7. \A k \in 0 .. TxLen - 1 : tx'[k].mine => txPos' = NextSlot(k, TxLen)
  BY <1>1, FrameProperties DEF OwnIsLast
<1>8. (\A i, j \in 0 .. RxLen - 1 :
        i < j /\ At(rx, rxPos, i, RxLen).mine => At(rx, rxPos, j, RxLen) \in {None, Foreign})'
  BY <1>1 DEF OwnIsLast
<1>. QED BY <1>1, <1>4, <1>6, <1>7, <1>8 DEF OwnIsLast

\* A frame is received behind all there are; behind the own one on the wire
\* there is none.
LEMMA ReceivedOrder ==
  ASSUME IInv, NEW f \in Frames \cup {Foreign}, Received(f),
         \/ UNCHANGED <<tx, txPos, wire>> /\ f = Foreign
         \/ Arrive /\ f = Head(wire)
  PROVE  OwnIsLast'
<1>. USE DEF IInv, TypeInv
<1>1. UNCHANGED <<tx, txPos>> /\ wire \in Seq(Frames)
  BY TypeFacts DEF Arrive, txRing
<1>2. \A i \in DOMAIN wire' : wire'[i].mine => i = Len(wire') /\ TxEmpty'
  <2>1. CASE wire' = wire
    BY <1>1, <2>1 DEF OwnIsLast, TxEmpty
  <2>2. CASE Arrive
    <3>1. wire # <<>> /\ wire' = Tail(wire)
      BY <2>2 DEF Arrive
    <3>2. \A i \in DOMAIN wire' : i + 1 \in DOMAIN wire /\ wire'[i] = wire[i + 1] /\ Len(wire') = Len(wire) - 1
      BY <1>1, <3>1
    <3>. QED BY <1>1, <3>1, <3>2 DEF OwnIsLast, TxEmpty
  <2>. QED BY <2>1, <2>2
<1>3. f.mine => wire' = <<>> /\ TxEmpty
  <2>1. CASE f = Foreign
    BY <2>1, FrameProperties
  <2>2. CASE Arrive /\ f = Head(wire)
    <3>1. wire # <<>> /\ wire' = Tail(wire) /\ f = wire[1] /\ 1 \in DOMAIN wire
      BY <1>1, <2>2 DEF Arrive
    <3>2. f.mine => 1 = Len(wire) /\ TxEmpty
      BY <3>1 DEF OwnIsLast
    <3>. QED BY <1>1, <3>1, <3>2
  <2>. QED BY <2>1, <2>2
<1>4. \A k \in 0 .. RxLen - 1 : rx[k].mine => f = Foreign /\ wire' = <<>> /\ TxEmpty
  BY DEF OwnIsLast, Arrive
<1>5. CASE UNCHANGED <<rx, rxDma>>
  BY <1>1, <1>2, <1>4, <1>5, ReceivedEffect DEF OwnIsLast, TxEmpty
<1>6. CASE ~UNCHANGED <<rx, rxDma>>
  <2>1. /\ rxPos' = rxPos /\ rx[rxDma] = None /\ rx'[rxDma] = f
        /\ \A s \in 0 .. RxLen - 1 : s # rxDma => rx'[s] = rx[s]
    BY <1>6, ReceivedEffect
  <2>2. rxPos \in 0 .. RxLen - 1 /\ rxDma \in 0 .. RxLen - 1 /\ RxLen \in Nat \ {0}
    BY TypeFacts, Sizes
  <2>3. PICK n \in 0 .. RxLen : InUse(rx, rxPos, rxDma, RxLen, n)
    BY BetweenInUse DEF RingsInStep
  <2>4. n \in 0 .. RxLen - 1
    <3>1. f # None
      BY FrameProperties
    <3>2. rx'[rxDma] # None
      BY <2>1, <3>1
    <3>3. n < RxLen
      BY <2>1, <2>2, <2>3, <3>2, FillInStep
    <3>. QED BY <2>2, <3>3
  <2>5. rxDma = Place(rxPos, n, RxLen)
    BY <2>3 DEF InUse
  <2>6. \A k \in 0 .. RxLen - 1 : k # n => At(rx', rxPos, k, RxLen) = At(rx, rxPos, k, RxLen)
    <3>1. \A s \in 0 .. RxLen - 1 : s # Place(rxPos, n, RxLen) => rx'[s] = rx[s]
      BY <2>1, <2>5
    <3>. QED BY <2>2, <2>4, <3>1, AtFilled
  <2>7. At(rx', rxPos, n, RxLen) = f
    BY <2>1, <2>5 DEF At
  <2>8. \A k \in 0 .. RxLen - 1 : k > n => At(rx, rxPos, k, RxLen) = None
    BY <2>3, <2>4 DEF InUse
  <2>9. ASSUME NEW i \in 0 .. RxLen - 1, At(rx, rxPos, i, RxLen).mine
        PROVE  f = Foreign
    <3>1. i \in 0 .. RxLen
      BY <2>2
    <3>2. Place(rxPos, i, RxLen) \in 0 .. RxLen - 1
      BY <2>2, <3>1, PlaceValue
    <3>. QED BY <1>4, <2>9, <3>2 DEF At
  <2>10. ASSUME NEW i \in 0 .. RxLen - 1, NEW j \in 0 .. RxLen - 1, i < j, At(rx', rxPos', i, RxLen).mine
         PROVE  At(rx', rxPos', j, RxLen) \in {None, Foreign}
    <3>1. CASE i = n
      BY <2>1, <2>4, <2>6, <2>8, <2>10, <3>1
    <3>2. CASE i # n
      <4>1. At(rx, rxPos, i, RxLen).mine
        BY <2>1, <2>6, <2>10, <3>2
      <4>2. At(rx, rxPos, j, RxLen) \in {None, Foreign} /\ f = Foreign
        BY <2>9, <2>10, <4>1 DEF OwnIsLast
      <4>. QED BY <2>1, <2>6, <2>7, <4>2
    <3>. QED BY <3>1, <3>2
  <2>11. \A k \in 0 .. RxLen - 1 : rx'[k].mine => wire' = <<>> /\ TxEmpty'
    BY <1>1, <1>3, <1>4, <2>1 DEF TxEmpty
  <2>. QED BY <1>1, <1>2, <2>10, <2>11 DEF OwnIsLast
<1>. QED BY <1>5, <1>6

\* A frame that is lost leaves the others in their order.
LEMMA LoseOrder ==
  ASSUME IInv, Lose
  PROVE  OwnIsLast'
<1>. USE DEF IInv, TypeInv
<1>1. PICK k \in DOMAIN wire : wire' = RemoveAt(wire, k)
  BY DEF Lose
<1>2. wire \in Seq(Frames) /\ UNCHANGED <<tx, txPos, rx, rxPos>>
  BY TypeFacts DEF Lose, txRing, rxRing
<1>3. /\ RemoveAt(wire, k) \in Seq(Frames) /\ Len(RemoveAt(wire, k)) = Len(wire) - 1
      /\ \A i \in 1 .. Len(wire) - 1 : RemoveAt(wire, k)[i] = wire[IF i < k THEN i ELSE i + 1]
  BY <1>2, RemoveAtProperties
<1>4. \A s \in 0 .. RxLen - 1 : ~rx[s].mine
  BY <1>2 DEF OwnIsLast
<1>5. ASSUME NEW i \in DOMAIN wire', wire'[i].mine
      PROVE  i = Len(wire') /\ TxEmpty
  <2>. DEFINE j == IF i < k THEN i ELSE i + 1
  <2>1. i \in 1 .. Len(wire) - 1 /\ Len(wire') = Len(wire) - 1 /\ Len(wire) \in Nat
    BY <1>1, <1>2, <1>3, <1>5
  <2>2. j \in DOMAIN wire /\ wire[j].mine
    BY <1>1, <1>2, <1>3, <1>5, <2>1
  <2>3. j = Len(wire) /\ TxEmpty
    BY <2>2 DEF OwnIsLast
  <2>. QED BY <2>1, <2>3
<1>. QED BY <1>2, <1>4, <1>5 DEF OwnIsLast, TxEmpty

\* Every step keeps the own frame last.
LEMMA StepOrder ==
  ASSUME IInv, [Next]_vars
  PROVE  OwnIsLast'
<1>1. CASE Arrive
  <2>1. wire # <<>> /\ Received(Head(wire)) /\ wire \in Seq(Frames)
    BY <1>1, TypeFacts DEF Arrive, IInv, TypeInv
  <2>2. Head(wire) \in Frames
    BY <2>1
  <2>. QED BY <1>1, <2>1, <2>2, ReceivedOrder
<1>2. CASE Disturb
  BY <1>2, ReceivedOrder DEF Disturb, txRing
<1>3. CASE TransmitEnds \/ UNCHANGED vars
  BY <1>3 DEF TransmitEnds, vars, txRing, rxRing, IInv, OwnIsLast, TxEmpty
<1>. QED BY <1>1, <1>2, <1>3, RequestOrder, PumpOrder, TransmitOrder, LoseOrder DEF Next

-----------------------------------------------------------------------------
(* Nothing is left behind the own reply *)

\* Every step keeps the bus quiet behind an own reply: the pump takes the last frame.
LEMMA StepQuiet ==
  ASSUME IInv, [Next]_vars
  PROVE  QuietAfterReply'
<1>. USE DEF IInv, TypeInv
<1>1. /\ fails \in 0 .. IndexMod /\ IndexMod \in Nat \ {0} /\ waiting \in BOOLEAN
      /\ tx \in [0 .. TxLen - 1 -> Held] /\ rx \in [0 .. RxLen - 1 -> Held]
      /\ rxPos \in 0 .. RxLen - 1 /\ rxDma \in 0 .. RxLen - 1 /\ txDma \in 0 .. TxLen - 1
  BY TypeFacts, Sizes
<1>2. Failed => fails' # 0
  BY <1>1 DEF Failed
<1>3. CASE Send \/ SendRefused \/ Again \/ GiveUp
  BY <1>2, <1>3 DEF Send, SendRefused, Again, GiveUp, pump, QuietAfterReply
<1>4. CASE Answered
  <2>1. CASE rx[rxPos].mine
    <3>1. wire = <<>> /\ TxEmpty
      BY <1>1, <2>1 DEF OwnIsLast
    <3>2. \A s \in 0 .. RxLen - 1 : s # rxPos => rx[s] \in {None, Foreign}
      BY <1>1, <2>1, PlaceOfOwn
    <3>3. \A s \in 0 .. RxLen - 1 : rx'[s] \in {None, Foreign}
      BY <1>4, <3>2, PolledEffect DEF Answered
    <3>4. rx' \in [0 .. RxLen - 1 -> Held] /\ tx' = tx /\ wire' = wire
      BY <1>4, PolledType DEF Answered, txRing
    <3>. QED BY <1>1, <3>1, <3>3, <3>4 DEF QuietAfterReply, TxEmpty
  <2>2. CASE ~rx[rxPos].mine
    BY <1>2, <1>4, <2>2 DEF Answered, QuietAfterReply
  <2>. QED BY <2>1, <2>2
<1>5. CASE Transmit
  BY <1>1, <1>5 DEF Transmit, pump, QuietAfterReply
<1>6. CASE Arrive \/ Lose
  BY <1>6 DEF Arrive, Lose, pump, QuietAfterReply
<1>7. CASE Disturb
  <2>1. Received(Foreign) /\ UNCHANGED <<tx, waiting, wire, fails>>
    BY <1>7 DEF Disturb, txRing, pump
  <2>2. rx' \in [0 .. RxLen - 1 -> Held]
    BY <2>1, ReceivedType
  <2>3. \A s \in 0 .. RxLen - 1 : rx'[s] \in {rx[s], Foreign}
    BY <2>1, ReceivedEffect
  <2>. QED BY <1>1, <2>1, <2>2, <2>3 DEF QuietAfterReply
<1>8. CASE TransmitEnds \/ UNCHANGED vars
  BY <1>8 DEF TransmitEnds, vars, txRing, rxRing, pump, QuietAfterReply
<1>. QED BY <1>3, <1>4, <1>5, <1>6, <1>7, <1>8 DEF Next, Pump

-----------------------------------------------------------------------------
(* The ages *)

\* A frame is one request older, and its index does not come round.
LEMMA OlderInAge ==
  ASSUME NEW f \in Held, NEW n \in Nat, n < IndexMod, InAge(f, n - 1), n # 0 \/ f \notin Frames
  PROVE  InAge(Aged(f), n)
<1>1. IndexMod \in Nat \ {0}
  BY Sizes
<1>2. CASE f \in Frames
  <2>1. f.lag + 1 \in 1 .. n
    BY <1>1, <1>2 DEF InAge, Frames
  <2>2. (f.lag + 1) % IndexMod = f.lag + 1
    <3>1. f.lag + 1 \in Nat /\ f.lag + 1 < IndexMod
      BY <1>1, <2>1
    <3>. QED BY <1>1, <3>1, RemainderSmall
  <2>3. Aged(f) = [lag |-> f.lag + 1, mine |-> FALSE]
    BY <1>2, <2>2 DEF Aged
  <2>. QED BY <2>1, <2>3 DEF InAge
<1>3. CASE f \notin Frames
  BY <1>3 DEF Aged, InAge
<1>. QED BY <1>2, <1>3

\* Before a request that follows an own reply nothing is under way.
LEMMA QuietHasNoFrame ==
  ASSUME IInv, ~waiting, fails = 0
  PROVE  /\ \A k \in 0 .. TxLen - 1 : tx[k] \notin Frames
         /\ \A k \in 0 .. RxLen - 1 : rx[k] \notin Frames
         /\ DOMAIN wire = {}
<1>1. tx \in [0 .. TxLen - 1 -> Held] /\ rx \in [0 .. RxLen - 1 -> Held]
  BY TypeFacts DEF IInv, TypeInv
<1>2. \A k \in 0 .. RxLen - 1 : rx[k] \in {None, Foreign}
  BY <1>1 DEF IInv, QuietAfterReply
<1>. QED BY <1>1, <1>2, FrameProperties DEF IInv, QuietAfterReply

\* A new request: all others are one request older.
LEMMA RequestAges ==
  ASSUME IInv, Send \/ SendRefused, fails < IndexMod
  PROVE  /\ \A s \in 0 .. RxLen - 1 : InAge(rx'[s], fails)
         /\ \A i \in DOMAIN wire' : InAge(wire'[i], fails)
         /\ \A s \in 0 .. TxLen - 1 : InAge(tx'[s], fails)
<1>. USE DEF IInv, TypeInv
<1>1. /\ fails \in Nat /\ ~waiting /\ Oldest = fails - 1 /\ wire \in Seq(Frames)
      /\ tx \in [0 .. TxLen - 1 -> Held] /\ rx \in [0 .. RxLen - 1 -> Held]
  BY TypeFacts, Sizes DEF Oldest, Send, SendRefused
<1>2. ASSUME NEW f \in Held, InAge(f, fails - 1), fails # 0 \/ f \notin Frames
      PROVE  InAge(Aged(f), fails)
  BY <1>1, <1>2, OlderInAge
<1>3. \A s \in 0 .. RxLen - 1 : InAge(Aged(rx[s]), fails)
  BY <1>1, <1>2, QuietHasNoFrame DEF AgesKept
<1>4. \A i \in DOMAIN wire : InAge(Aged(wire[i]), fails)
  <2>1. \A i \in DOMAIN wire : wire[i] \in Held
    BY <1>1 DEF Held
  <2>. QED BY <1>1, <1>2, <2>1, QuietHasNoFrame DEF AgesKept
<1>5. \A s \in 0 .. TxLen - 1 : InAge(Aged(tx[s]), fails)
  BY <1>1, <1>2, QuietHasNoFrame DEF AgesKept
<1>6. InAge(Own, fails)
  BY DEF InAge, Own
<1>7. \A s \in 0 .. TxLen - 1 : InAge(tx'[s], fails)
  <2>1. CASE Send
    BY <1>5, <1>6, <2>1, SendEffect
  <2>2. CASE SendRefused
    BY <1>5, <2>2, RefusedEffect
  <2>. QED BY <2>1, <2>2
<1>. QED BY <1>3, <1>4, <1>7, RequestEffect

\* A request that fails is one more that the frames may be behind, one that gets
\* its own reply leaves none.
LEMMA PumpAges ==
  ASSUME IInv, Pump, fails' < IndexMod
  PROVE  AgesKept'
<1>. USE DEF IInv, TypeInv
<1>1. /\ fails \in 0 .. IndexMod /\ IndexMod \in Nat \ {0} /\ waiting
      /\ rxPos \in 0 .. RxLen - 1 /\ Oldest = fails
      /\ Polled /\ tx' = tx /\ wire' = wire
  BY TypeFacts, Sizes DEF Pump, Answered, Again, GiveUp, txRing, Oldest
<1>2. \A s \in 0 .. RxLen - 1 : rx'[s] \in {rx[s], None}
  BY <1>1, PolledEffect
<1>3. CASE ~waiting' /\ fails' = 0
  <2>1. QuietAfterReply' /\ TypeOK'
    BY StepQuiet, StepType DEF Next
  <2>2. /\ tx' \in [0 .. TxLen - 1 -> Frames \cup {None}] /\ rx' \in [0 .. RxLen - 1 -> Held]
    BY <2>1 DEF TypeOK, Held
  <2>3. /\ \A s \in 0 .. TxLen - 1 : tx'[s] = None
        /\ \A s \in 0 .. RxLen - 1 : rx'[s] \in {None, Foreign}
        /\ DOMAIN wire' = {}
    BY <1>3, <2>1, <2>2 DEF QuietAfterReply
  <2>. QED BY <2>3, FrameProperties DEF AgesKept, InAge
<1>4. CASE fails < IndexMod /\ Oldest' = fails
  BY <1>1, <1>2, <1>4, FrameProperties DEF AgesKept, InAge
<1>5. (~waiting' /\ fails' = 0) \/ (fails < IndexMod /\ Oldest' = fails)
  <2>1. CASE waiting' = FALSE /\ fails' = 0
    BY <2>1
  <2>2. CASE waiting' = FALSE /\ Failed
    <3>1. fails < IndexMod /\ fails' = fails + 1
      BY <1>1, <2>2 DEF Failed
    <3>. QED BY <1>1, <2>2, <3>1 DEF Oldest
  <2>3. CASE waiting' = waiting /\ fails' = fails
    BY <1>1, <2>3 DEF Oldest
  <2>. QED BY <2>1, <2>2, <2>3 DEF Pump, Answered, Again, GiveUp
<1>. QED BY <1>3, <1>4, <1>5

\* Every step keeps the ages: only a new request makes frames older, and each that fails
\* is counted.
LEMMA StepAges ==
  ASSUME IInv, [Next]_vars
  PROVE  AgesKept'
<1>. USE DEF IInv, TypeInv
<1>1. SUFFICES ASSUME fails' < IndexMod
               PROVE  AgesKept'
  BY DEF AgesKept
<1>2. /\ fails \in 0 .. IndexMod /\ IndexMod \in Nat \ {0} /\ wire \in Seq(Frames)
      /\ rxDma \in 0 .. RxLen - 1 /\ txDma \in 0 .. TxLen - 1
  BY TypeFacts, Sizes
<1>3. CASE Send \/ SendRefused
  <2>1. fails < IndexMod /\ Oldest' = fails
    BY <1>1, <1>2, <1>3 DEF Send, SendRefused, Failed, Oldest, pump
  <2>. QED BY <1>3, <2>1, RequestAges DEF AgesKept
<1>4. CASE Pump
  BY <1>1, <1>4, PumpAges
<1>5. ASSUME UNCHANGED <<fails, waiting>>
      PROVE  fails < IndexMod /\ Oldest' = Oldest
  BY <1>1, <1>5 DEF Oldest
<1>6. CASE Transmit
  <2>1. \A s \in 0 .. TxLen - 1 : tx'[s] \in {tx[s], None}
    BY <1>2, <1>6, TransmitEffect
  <2>2. ASSUME NEW i \in DOMAIN wire'
        PROVE  \/ wire'[i] = tx[txDma]
               \/ i \in DOMAIN wire /\ wire'[i] = wire[i]
    <3>1. wire' = Append(wire, tx[txDma]) /\ tx[txDma] \in Frames
      BY <1>2, <1>6 DEF Transmit, TypeOK
    <3>2. wire' \in Seq(Frames) /\ Len(wire') = Len(wire) + 1
      BY <1>2, <3>1
    <3>3. i \in 1 .. Len(wire) + 1
      BY <3>2
    <3>. QED BY <1>2, <3>1, <3>3
  <2>3. UNCHANGED <<rx, fails, waiting>>
    BY <1>6 DEF Transmit, rxRing, pump
  <2>. QED BY <1>2, <1>5, <2>1, <2>2, <2>3, FrameProperties DEF AgesKept, InAge
<1>7. ASSUME NEW f, Received(f), InAge(f, Oldest), UNCHANGED <<tx, fails, waiting>>,
             \A i \in DOMAIN wire' : InAge(wire'[i], Oldest)
      PROVE  AgesKept'
  <2>1. \A s \in 0 .. RxLen - 1 : rx'[s] \in {rx[s], f}
    BY <1>7, ReceivedEffect
  <2>. QED BY <1>5, <1>7, <2>1 DEF AgesKept
<1>8. CASE Arrive
  <2>1. wire # <<>> /\ Received(Head(wire)) /\ wire' = Tail(wire) /\ UNCHANGED <<tx, fails, waiting>>
    BY <1>8 DEF Arrive, txRing, pump
  <2>2. Head(wire) = wire[1] /\ 1 \in DOMAIN wire
    BY <1>2, <2>1
  <2>3. \A i \in DOMAIN wire' : i + 1 \in DOMAIN wire /\ wire'[i] = wire[i + 1]
    BY <1>2, <2>1
  <2>. QED BY <1>5, <1>7, <2>1, <2>2, <2>3 DEF AgesKept
<1>9. CASE Disturb
  <2>1. Received(Foreign) /\ UNCHANGED <<tx, wire, fails, waiting>>
    BY <1>9 DEF Disturb, txRing, pump
  <2>2. InAge(Foreign, Oldest)
    BY FrameProperties DEF InAge
  <2>. QED BY <1>5, <1>7, <2>1, <2>2 DEF AgesKept
<1>10. CASE Lose
  <2>1. PICK k \in DOMAIN wire : wire' = RemoveAt(wire, k)
    BY <1>10 DEF Lose
  <2>2. /\ RemoveAt(wire, k) \in Seq(Frames) /\ Len(RemoveAt(wire, k)) = Len(wire) - 1
        /\ \A i \in 1 .. Len(wire) - 1 : RemoveAt(wire, k)[i] = wire[IF i < k THEN i ELSE i + 1]
    BY <1>2, RemoveAtProperties
  <2>3. ASSUME NEW i \in DOMAIN wire'
        PROVE  InAge(wire'[i], Oldest)
    <3>. DEFINE j == IF i < k THEN i ELSE i + 1
    <3>1. i \in 1 .. Len(wire) - 1
      BY <1>2, <2>1, <2>2
    <3>2. j \in DOMAIN wire /\ wire'[i] = wire[j]
      BY <1>2, <2>1, <2>2, <3>1
    <3>. HIDE DEF j
    <3>3. fails < IndexMod
      BY <1>5, <1>10 DEF Lose, pump
    <3>. QED BY <3>2, <3>3 DEF AgesKept
  <2>4. UNCHANGED <<tx, rx, fails, waiting>>
    BY <1>10 DEF Lose, txRing, rxRing, pump
  <2>. QED BY <1>5, <2>3, <2>4 DEF AgesKept
<1>11. CASE TransmitEnds \/ UNCHANGED vars
  BY <1>11 DEF TransmitEnds, vars, txRing, rxRing, pump, AgesKept, Oldest
<1>. QED BY <1>3, <1>4, <1>6, <1>8, <1>9, <1>10, <1>11 DEF Next

-----------------------------------------------------------------------------
(* Theorems *)

\* The inductive invariant holds in every state of the model.
LEMMA Inductive == Spec => []IInv
<1>1. Init => IInv
  BY InitType, InitRings, InitOrder DEF IInv
<1>2. IInv /\ [Next]_vars => IInv'
  BY StepType, StepRings, StepOrder, StepAges, StepQuiet DEF IInv
<1>. QED BY <1>1, <1>2, PTL DEF Spec

\* The places of driver and ENET stay inside their rings, the attempts within
\* PUMP_MAX_ATTEMPTS, for rings and an index of any size.
THEOREM TransactionTypeCorrect == Spec => []TypeOK
<1>1. IInv => TypeOK
  BY DEF IInv, TypeInv
<1>. QED BY <1>1, Inductive, PTL

\* send_frame and poll_raw walk the rings of any length in step with the ENET:
\* no descriptor is skipped, overwritten or read twice, however the rings fill.
THEOREM RingsStayInStep == Spec => []RingsInStep
<1>1. IInv => RingsInStep
  BY DEF IInv
<1>. QED BY <1>1, Inductive, PTL

\* When pump has returned the reply to its own request, no frame of any request
\* is in a ring or on the wire.
THEOREM OwnReplyLeavesNone == Spec => []QuietAfterReply
<1>1. IInv => QuietAfterReply
  BY DEF IInv
<1>. QED BY <1>1, Inductive, PTL

\* pump takes only the reply to the request it made, unless as many requests in
\* a row as there are index values have failed.
THEOREM ReplyIsOwn == Spec => OwnReply
<1>1. ASSUME IInv, Matches
      PROVE  rx[rxPos].mine \/ fails >= IndexMod \/ ~waiting
  <2>1. /\ rxPos \in 0 .. RxLen - 1 /\ rx \in [0 .. RxLen - 1 -> Held]
        /\ fails \in 0 .. IndexMod /\ IndexMod \in Nat \ {0}
    BY <1>1, TypeFacts, Sizes DEF IInv, TypeInv
  <2>2. rx[rxPos] \in Frames
    BY <1>1, <2>1, FrameProperties DEF Matches, Held
  <2>3. fails < IndexMod => InAge(rx[rxPos], Oldest)
    BY <1>1, <2>1 DEF IInv, AgesKept
  <2>. QED BY <1>1, <2>1, <2>2, <2>3 DEF InAge, Matches, Oldest
<1>2. IInv /\ [Next]_vars => [waiting /\ Matches /\ ~waiting' => rx[rxPos].mine \/ fails >= IndexMod]_vars
  BY <1>1
<1>. QED BY <1>2, Inductive, PTL DEF Spec, OwnReply
=============================================================================
