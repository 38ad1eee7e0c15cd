---------------------------- MODULE MasterProofs ----------------------------
(***************************************************************************)
(* The safety properties of the master, for every bus, every set of        *)
(* commands and every amount of work per phase.  Each rests on its own     *)
(* invariant, and all but the first and the last on Base:                  *)
(*                                                                         *)
(*   OneUser             UserInv: when the PIT is started the engine must  *)
(*                       be there, which the launch that follows "start"   *)
(*                       inherits from it.                                 *)
(*   ListedIsAddressed   Base: operations are well-formed (OpTyped), slaves*)
(*                       have their own address or none (StationOwn), and  *)
(*                       the scan lists in the order of the bus, past the  *)
(*                       address write (ScanFollowed).                     *)
(*   StartedIsConfigured ConfInv: along a bring-up, what each slave has    *)
(*                       been written follows the step FsmSlaveConfig is   *)
(*                       at (Progress).                                    *)
(*   ReportedIsReached   ReachInv: while nothing goes wrong, the slaves a  *)
(*                       bring-up has passed are and stay in SAFEOP.       *)
(*   AnswerIsOwn         BoxInv: no old letter is in the mailboxes of a    *)
(*                       slave once SM1 has been set up for its transfers. *)
(*   ClocksAligned       the arithmetic of residues, for clocks of any     *)
(*                       width.                                            *)
(***************************************************************************)
EXTENDS Master, FiniteSetTheorems, WellFoundedInduction, TLAPS

-----------------------------------------------------------------------------
(* The device has one user: UserInv *)

\* OneUser, and at a launch the engine is there.
UserInv ==
  /\ "kind" \in DOMAIN op
  /\ op.kind = "Launch" => cyclic # <<>>
  /\ OneUser

\* The PIT is off and there is no operation.
LEMMA InitUser == Init => UserInv
  BY DEF Init, UserInv, OneUser, Idle

\* A command begins when the worker is idle: one that drives the bus finds no
\* engine, hence no PIT, and "stop" stops the PIT itself.
LEMMA CommandUser ==
  ASSUME UserInv, Rescan \/ SetState \/ Sdo \/ Start \/ Stop
  PROVE  UserInv'
<1>1. CASE Rescan
  BY <1>1 DEF Rescan, Begin, UserInv, OneUser
<1>2. CASE SetState
  <2>1. PICK k \in DOMAIN slaves, target \in Targets :
          Begin([kind |-> "State", pos |-> k - 1, target |-> target,
                 pre |-> PreOp(target, NeedsMailbox(target))])
    BY <1>2 DEF SetState
  <2>2. op'.kind = "State" /\ "kind" \in DOMAIN op'
    BY <2>1 DEF Begin
  <2> QED
    BY <1>2, <2>1, <2>2 DEF SetState, Begin, UserInv, OneUser
<1>3. CASE Sdo
  <2>1. PICK k \in {j \in DOMAIN slaves : slaves[j].coe} :
          Begin([kind |-> "Sdo", pos |-> k - 1, target |-> SdoState(slaves[k]),
                 pre |-> PreOp(SdoState(slaves[k]), TRUE), coe |-> Transfer])
    BY <1>3 DEF Sdo
  <2>2. op'.kind = "Sdo" /\ "kind" \in DOMAIN op'
    BY <2>1 DEF Begin
  <2> QED
    BY <1>3, <2>1, <2>2 DEF Sdo, Begin, UserInv, OneUser
<1>4. CASE Start
  BY <1>4 DEF Start, Begin, UserInv, OneUser
<1>5. CASE Stop
  BY <1>5 DEF Stop, Begin, UserInv, OneUser
<1> QED
  BY <1>1, <1>2, <1>3, <1>4, <1>5

\* A reply leaves the PIT alone; it makes a launch only along with an engine.
LEMMA ReplyUser ==
  ASSUME UserInv, Waiting, NEW r, OpAfter(r)
  PROVE  UserInv'
<1>1. "kind" \in DOMAIN op /\ ~pit /\ op.kind # "Launch" /\ op.kind # "none"
  BY DEF UserInv, OneUser, Waiting, Missing
<1>2. ~pit'
  <2>1. CASE op.kind = "Rescan" /\ RescanAfter(r)
    BY <1>1, <2>1 DEF RescanAfter
  <2>2. CASE op.kind = "State" /\ StateAfter(r)
    BY <1>1, <2>2 DEF StateAfter
  <2>3. CASE op.kind = "Sdo" /\ SdoPreAfter(r)
    BY <1>1, <2>3 DEF SdoPreAfter
  <2>4. CASE op.kind = "Sdo" /\ SdoCoeAfter(r)
    BY <1>1, <2>4 DEF SdoCoeAfter
  <2>5. CASE op.kind = "Start" /\ StartAfter(r)
    BY <1>1, <2>5 DEF StartAfter
  <2>6. CASE op.kind = "Stop" /\ StopAfter(r)
    BY <1>1, <2>6 DEF StopAfter
  <2> QED
    BY <2>1, <2>2, <2>3, <2>4, <2>5, <2>6 DEF OpAfter
<1>3. "kind" \in DOMAIN op' /\ (op'.kind = "Launch" => cyclic' # <<>>)
  <2>1. CASE op.kind = "Rescan" /\ RescanAfter(r)
    BY <1>1, <2>1 DEF RescanAfter, Idle
  <2>2. CASE op.kind = "State" /\ StateAfter(r)
    BY <1>1, <2>2 DEF StateAfter, Idle
  <2>3. CASE op.kind = "Sdo" /\ SdoPreAfter(r)
    BY <1>1, <2>3 DEF SdoPreAfter, Idle
  <2>4. CASE op.kind = "Sdo" /\ SdoCoeAfter(r)
    BY <1>1, <2>4 DEF SdoCoeAfter, Idle
  <2>5. CASE op.kind = "Start" /\ StartAfter(r)
    <3> DEFINE f == ConfigAfter(op.cfg, r)
    <3>1. CASE f.at = "Done" /\ op.pos + 1 < N
      BY <1>1, <2>5, <3>1 DEF StartAfter, StartNext
    <3>2. CASE f.at = "Done" /\ ~(op.pos + 1 < N)
      <4>1. op' = [kind |-> "Launch"] /\ cyclic' = [k \in 1 .. N |-> Station(k - 1)]
        BY <2>5, <3>2 DEF StartAfter, StartNext
      <4>2. 1 \in DOMAIN cyclic'
        BY <4>1, MasterAssumption
      <4>3. cyclic' # <<>>
        BY <4>2
      <4>4. "kind" \in DOMAIN op'
        BY <4>1
      <4> QED
        BY <4>3, <4>4
    <3>3. CASE f.at = "Failed"
      BY <2>5, <3>3 DEF StartAfter, Idle
    <3>4. CASE f.at \notin {"Done", "Failed"}
      BY <1>1, <2>5, <3>4 DEF StartAfter
    <3> QED
      BY <3>1, <3>2, <3>3, <3>4
  <2>6. CASE op.kind = "Stop" /\ StopAfter(r)
    <3> DEFINE f == ChangeAfter(op.change, r)
    <3>1. \/ op' = [op EXCEPT !.change = f]
          \/ op' = [op EXCEPT !.idx = @ + 1, !.change = Change("PREOP")]
          \/ op' = Idle
      BY <2>6 DEF StopAfter
    <3>2. CASE op' = [op EXCEPT !.change = f]
      BY <1>1, <2>6, <3>2
    <3>3. CASE op' = [op EXCEPT !.idx = @ + 1, !.change = Change("PREOP")]
      BY <1>1, <2>6, <3>3
    <3>4. CASE op' = Idle
      BY <3>4 DEF Idle
    <3> HIDE DEF f
    <3> QED
      BY <3>1, <3>2, <3>3, <3>4
  <2> QED
    BY <2>1, <2>2, <2>3, <2>4, <2>5, <2>6 DEF OpAfter
<1> QED
  BY <1>2, <1>3 DEF UserInv, OneUser

\* The worker's other steps: an operation that ends without a datagram, and the
\* launch, the only step that starts the PIT.
LEMMA WorkerUser ==
  ASSUME UserInv, Worker
  PROVE  UserInv'
<1>1. CASE Answered
  <2>1. PICK r \in Replies(OpRequest) : OpAfter(r)
    BY <1>1 DEF Answered
  <2> QED
    BY <1>1, <2>1, ReplyUser DEF Answered
<1>2. CASE LostOut
  BY <1>2, ReplyUser DEF LostOut
<1>3. CASE LostBack
  BY <1>3, ReplyUser DEF LostBack
<1>4. CASE StartMissing
  BY <1>4 DEF StartMissing, Missing, Idle, UserInv, OneUser
<1>5. CASE StopIdle
  BY <1>5 DEF StopIdle, Idle, UserInv, OneUser
<1>6. CASE Launch
  BY <1>6 DEF Launch, Idle, UserInv, OneUser
<1> QED
  BY <1>1, <1>2, <1>3, <1>4, <1>5, <1>6 DEF Worker

\* The interrupt and the slaves leave the master's variables alone.
LEMMA OthersUser ==
  ASSUME UserInv, CyclicTick \/ Environment \/ UNCHANGED vars
  PROVE  UserInv'
<1>1. UNCHANGED master
  <2>1. CASE CyclicTick
    BY <2>1 DEF CyclicTick
  <2>2. CASE Environment
    BY <2>2 DEF Environment, Settle, Refuse, Slip, PowerCycle, Serve, Cut, Mend
  <2>3. CASE UNCHANGED vars
    BY <2>3 DEF vars
  <2> QED
    BY <2>1, <2>2, <2>3
<1> QED
  BY <1>1 DEF master, UserInv, OneUser

\* Whenever the PIT may tick, the worker leaves the device to it and there is an
\* engine to tick: "start" launches the timer last, "stop" stops it first, and
\* no other command begins while the engine exists.
THEOREM OneUserAlways == Spec => []OneUser
<1>1. UserInv /\ [Next]_vars => UserInv'
  BY CommandUser, WorkerUser, OthersUser DEF Next
<1>2. UserInv => OneUser
  BY DEF UserInv
<1> QED
  BY InitUser, <1>1, <1>2, PTL DEF Spec

-----------------------------------------------------------------------------
(* State changes, transfers, PreOp: what a reply does *)

\* The steps of the state machines, and their records while the step is one of S.
ChangeSteps   == {"WriteControl", "AckError", "ReadStatus", "ReadStatusCode"}
TransferSteps == {"WriteRequest", "WaitMailbox", "ReadResponse"}
PreOpSteps    == {"ConfigSm0", "ConfigSm1", "Change"}
ScanSteps     == {"Count", "Clear", "Apwr", "Al", "Dl", "SiiCommand", "SiiPoll"}

ChangeType(S)   == [at : S, target : AlStates, waits : Nat, acked : BOOLEAN]
TransferType(S) == [at : S, waits : Nat]
PreOpType(S)    == [at : S, change : ChangeType(ChangeSteps \cup Ended)]
ScanType(S)     == [at : S, count : 0 .. N, pos : Nat, al : AlStates, word : Nat,
                    polls : Nat]

\* A state change answered in any way is one of the same target, at one of its
\* steps or ended (FsmChange: the waits are counted, the error acknowledged once).
LEMMA ChangeAfterType ==
  ASSUME NEW c \in ChangeType(ChangeSteps), NEW r
  PROVE  /\ ChangeAfter(c, r) \in ChangeType(ChangeSteps \cup Ended)
         /\ ChangeAfter(c, r).target = c.target
<1>1. c.waits + 1 \in Nat
  BY DEF ChangeType
<1>2. Waited(c) \in ChangeType(ChangeSteps \cup Ended) /\ Waited(c).target = c.target
  BY <1>1 DEF ChangeType, Waited, Ended
<1>3. /\ StatusRead(c, r.data) \in ChangeType(ChangeSteps \cup Ended)
      /\ StatusRead(c, r.data).target = c.target
  BY <1>2 DEF ChangeType, ChangeSteps, StatusRead, Ended
<1> QED
  BY <1>3 DEF ChangeType, ChangeSteps, ChangeAfter, Ended

\* A state change is done only when AL status, read back, shows the target without
\* an error: never because AL control has been written.
LEMMA ChangeDone ==
  ASSUME NEW c \in ChangeType(ChangeSteps), NEW r, ChangeAfter(c, r).at = "Done"
  PROVE  /\ c.at = "ReadStatus" /\ r.wkc = 1
         /\ ~r.data.err /\ r.data.al = c.target
<1>1. Waited(c).at # "Done" \/ c.at = "Done"
  BY DEF ChangeType, Waited
<1>2. c.at \in ChangeSteps
  BY DEF ChangeType
<1>3. c.at # "Done"
  BY <1>2 DEF ChangeSteps
<1>4. r.wkc = 1 /\ c.at # "ReadStatusCode"
  BY DEF ChangeAfter, ChangeType
<1>5. c.at = "ReadStatus"
  BY <1>2, <1>4 DEF ChangeAfter, ChangeType, ChangeSteps
<1>6. StatusRead(c, r.data).at = "Done"
  BY <1>4, <1>5 DEF ChangeAfter
<1>7. ~r.data.err
  BY <1>6 DEF StatusRead, ChangeType
<1>8. r.data.al = c.target
  BY <1>1, <1>3, <1>6, <1>7 DEF StatusRead
<1> QED
  BY <1>4, <1>5, <1>7, <1>8

\* A transfer goes through its steps in order: it waits for an answer only once its
\* request was confirmed, and it is done only by an answer it has read (CoeSdo).
LEMMA TransferAfterType ==
  ASSUME NEW t \in TransferType(TransferSteps), NEW r
  PROVE  /\ TransferAfter(t, r) \in TransferType(TransferSteps \cup Ended)
         /\ TransferAfter(t, r).at = "Done" => t.at = "ReadResponse" /\ r.wkc = 1
         /\ TransferAfter(t, r).at # "WriteRequest"
         /\ t.at = "WriteRequest" /\ TransferAfter(t, r).at # "Failed"
              => TransferAfter(t, r).at = "WaitMailbox" /\ r.wkc = 1
<1>1. t.waits + 1 \in Nat /\ t.at \in TransferSteps
  BY DEF TransferType
<1>2. CASE Lost(r)
  BY <1>2, <1>1 DEF TransferType, TransferAfter, Ended, TransferSteps
<1>3. CASE ~Lost(r) /\ t.at = "WaitMailbox"
  BY <1>3, <1>1 DEF TransferType, TransferAfter, Ended, TransferSteps
<1>4. CASE ~Lost(r) /\ t.at = "WriteRequest"
  BY <1>4, <1>1 DEF TransferType, TransferAfter, Ended, TransferSteps
<1>5. CASE ~Lost(r) /\ t.at = "ReadResponse"
  BY <1>5, <1>1 DEF TransferType, TransferAfter, Ended, TransferSteps
<1> QED
  BY <1>1, <1>2, <1>3, <1>4, <1>5 DEF TransferSteps

\* PreOp sets up SM0, then SM1, each confirmed by its slave, and only then changes
\* the state; it is done by the state read back.
LEMMA PreOpAfterType ==
  ASSUME NEW p \in PreOpType(PreOpSteps), p.change.at \in ChangeSteps, NEW r
  PROVE  /\ PreOpAfter(p, r) \in PreOpType(PreOpSteps \cup Ended)
         /\ PreOpAfter(p, r).change.target = p.change.target
         /\ PreOpAfter(p, r).at \notin Ended =>
              \/ p.at = "ConfigSm0" /\ PreOpAfter(p, r) = [p EXCEPT !.at = "ConfigSm1"]
              \/ p.at = "ConfigSm1" /\ PreOpAfter(p, r) = [p EXCEPT !.at = "Change"] /\ r.wkc = 1
              \/ p.at = "Change" /\ PreOpAfter(p, r).at = "Change"
         /\ PreOpAfter(p, r).at \notin Ended => PreOpAfter(p, r).change.at \in ChangeSteps
         /\ PreOpAfter(p, r).at = "Done" =>
              /\ p.at = "Change" /\ p.change.at = "ReadStatus" /\ r.wkc = 1
              /\ ~r.data.err /\ r.data.al = p.change.target
<1>1. p.at \in PreOpSteps /\ p.change \in ChangeType(ChangeSteps \cup Ended)
  BY DEF PreOpType
<1>2. CASE p.at = "Change"
  <2> DEFINE c == ChangeAfter(p.change, r)
  <2>1. p.change \in ChangeType(ChangeSteps)
    BY <1>1, <1>2 DEF ChangeType
  <2>2. c \in ChangeType(ChangeSteps \cup Ended) /\ c.target = p.change.target
    BY <2>1, ChangeAfterType
  <2>3. c.at = "Done" => /\ p.change.at = "ReadStatus" /\ r.wkc = 1
                         /\ ~r.data.err /\ r.data.al = p.change.target
    BY <2>1, ChangeDone
  <2>4. PreOpAfter(p, r) = [p EXCEPT !.change = c,
                                     !.at = IF c.at \in Ended THEN c.at ELSE p.at]
    BY <1>2 DEF PreOpAfter
  <2>5. c.at \in ChangeSteps \cup Ended
    BY <2>2 DEF ChangeType
  <2> HIDE DEF c
  <2>6. /\ PreOpAfter(p, r).change = c
        /\ PreOpAfter(p, r).at = IF c.at \in Ended THEN c.at ELSE "Change"
    BY <1>2, <2>4 DEF PreOpType
  <2>7. PreOpAfter(p, r) \in PreOpType(PreOpSteps \cup Ended)
    BY <1>2, <2>2, <2>4 DEF PreOpType, PreOpSteps
  <2> QED
    BY <1>2, <2>2, <2>3, <2>5, <2>6, <2>7 DEF Ended, ChangeSteps
<1>3. CASE p.at # "Change" /\ r.wkc # 1
  BY <1>1, <1>3 DEF PreOpAfter, PreOpType, Ended, PreOpSteps
<1>4. CASE p.at = "ConfigSm0" /\ r.wkc = 1
  BY <1>1, <1>4 DEF PreOpAfter, PreOpType, Ended, PreOpSteps
<1>5. CASE p.at = "ConfigSm1" /\ r.wkc = 1
  BY <1>1, <1>5 DEF PreOpAfter, PreOpType, Ended, PreOpSteps
<1>6. p.change.at \in ChangeSteps
  OBVIOUS
<1> QED
  BY <1>1, <1>2, <1>3, <1>4, <1>5 DEF PreOpSteps

-----------------------------------------------------------------------------
(* FsmSlaveConfig: the order of the phases *)

\* No phase of FsmSlaveConfig comes twice.
LEMMA OrderDistinct == \A i, j \in DOMAIN Order : Order[i] = Order[j] => i = j
  BY DEF Order

\* The place of a phase in the order FsmSlaveConfig goes through them.
Place(ph) == CHOOSE k \in DOMAIN Order : Order[k] = ph

\* The fourteen phases and their places.
LEMMA Places ==
  /\ DOMAIN Order = 1 .. 14 /\ Len(Order) = 14
  /\ \A k \in 1 .. 14 : Order[k] \in Phases /\ Place(Order[k]) = k
  /\ \A ph \in Phases : Place(ph) \in 1 .. 14 /\ Order[Place(ph)] = ph
<1>1. DOMAIN Order = 1 .. 14 /\ Len(Order) = 14
  BY DEF Order
<1>2. \A k \in 1 .. 14 : Order[k] \in Phases
  BY <1>1 DEF Phases
<1>3. \A ph \in Phases : Place(ph) \in 1 .. 14 /\ Order[Place(ph)] = ph
  BY <1>1 DEF Place, Phases
<1>4. \A k \in 1 .. 14 : Place(Order[k]) = k
  BY <1>1, <1>2, <1>3, OrderDistinct
<1> QED
  BY <1>1, <1>2, <1>3, <1>4

\* A set of places that is not empty has a first one.
LEMMA LeastPlace ==
  ASSUME NEW S \in SUBSET (1 .. 14), S # {}
  PROVE  LET m == CHOOSE k \in S : \A j \in S : k <= j
         IN m \in S /\ \A j \in S : m <= j
<1> DEFINE Below == {{j \in 1 .. 14 : j < n} : n \in S}
<1>1. Below \in SUBSET FiniteSubsetsOf(1 .. 14) /\ Below # {}
  <2>1. IsFiniteSet(1 .. 14)
    BY 1 \in Int, 14 \in Int, FS_Interval
  <2>2. ASSUME NEW n \in S PROVE {j \in 1 .. 14 : j < n} \in FiniteSubsetsOf(1 .. 14)
    BY <2>1, FS_Subset DEF FiniteSubsetsOf
  <2> QED
    BY <2>2
<1>2. PICK X \in Below :
        \A Y \in Below : ~ (<<Y, X>> \in StrictSubsetOrdering(1 .. 14))
  BY <1>1, FS_StrictSubsetOrderingWellFounded, WFMin
<1>3. PICK m \in S : X = {j \in 1 .. 14 : j < m}
  OBVIOUS
<1>4. ASSUME NEW n \in S, n < m PROVE FALSE
  <2> DEFINE Y == {j \in 1 .. 14 : j < n}
  <2>1. Y \subseteq X /\ n \in X /\ n \notin Y
    BY <1>3, <1>4
  <2>2. <<Y, X>> \in StrictSubsetOrdering(1 .. 14)
    BY <1>3, <2>1 DEF StrictSubsetOrdering
  <2> QED
    BY <1>2, <2>2
<1>5. \A j \in S : m <= j
  BY <1>4
<1> QED
  BY <1>5

\* After a datagram of a phase comes the next of that phase, or the first of the next
\* phase with work, none with work in between, or the end (the skips of FsmSlaveConfig).
LEMMA NextWorkStep ==
  ASSUME NEW f, f.at \in Phases, f.n \in Nat, Length(f) \in Nat, f.n <= Length(f)
  PROVE  \/ /\ f.n < Length(f)
            /\ NextWork(f) = [f EXCEPT !.n = f.n + 1]
         \/ /\ f.n = Length(f)
            /\ \A j \in Place(f.at) + 1 .. 14 : Work[Order[j]] = 0
            /\ NextWork(f) = [f EXCEPT !.at = "Done"]
         \/ /\ f.n = Length(f)
            /\ \E k \in Place(f.at) + 1 .. 14 :
                 /\ Work[Order[k]] > 0
                 /\ \A j \in Place(f.at) + 1 .. k - 1 : Work[Order[j]] = 0
                 /\ NextWork(f) = [f EXCEPT !.at = Order[k], !.n = 1]
<1> DEFINE here  == Place(f.at)
           later == {k \in here + 1 .. 14 : Work[Order[k]] > 0}
           next  == CHOOSE k \in later : \A j \in later : k <= j
           On    == f.n < Length(f) /\ NextWork(f) = [f EXCEPT !.n = f.n + 1]
           Over  == /\ f.n = Length(f)
                    /\ \A j \in here + 1 .. 14 : Work[Order[j]] = 0
                    /\ NextWork(f) = [f EXCEPT !.at = "Done"]
           Skip  == /\ f.n = Length(f)
                    /\ \E k \in here + 1 .. 14 :
                         /\ Work[Order[k]] > 0
                         /\ \A j \in here + 1 .. k - 1 : Work[Order[j]] = 0
                         /\ NextWork(f) = [f EXCEPT !.at = Order[k], !.n = 1]
<1>1. here \in 1 .. 14 /\ Len(Order) = 14
  BY Places
<1>2. \A j \in 1 .. 14 : Work[Order[j]] \in Nat
  BY Places, WorkAssumption DEF WorkAssumption
<1>3. NextWork(f) =
        IF f.n < Length(f) THEN [f EXCEPT !.n = f.n + 1]
        ELSE IF later = {} THEN [f EXCEPT !.at = "Done"]
        ELSE [f EXCEPT !.at = Order[next], !.n = 1]
  BY <1>1 DEF NextWork, Place
<1>4. later \in SUBSET (1 .. 14)
  BY <1>1
<1>5. later # {} => next \in later /\ \A j \in later : next <= j
  BY <1>4, LeastPlace
<1> HIDE DEF next
<1>6. ASSUME f.n < Length(f) PROVE On
  BY <1>3, <1>6
<1>7. ASSUME f.n = Length(f), later = {} PROVE Over
  <2>1. \A j \in here + 1 .. 14 : ~(Work[Order[j]] > 0) /\ Work[Order[j]] \in Nat
    BY <1>1, <1>2, <1>7
  <2>2. \A j \in here + 1 .. 14 : Work[Order[j]] = 0
    BY <2>1
  <2>3. NextWork(f) = [f EXCEPT !.at = "Done"]
    BY <1>3, <1>7
  <2> QED
    BY <1>7, <2>2, <2>3
<1>8. ASSUME f.n = Length(f), later # {} PROVE Skip
  <2>1. next \in here + 1 .. 14 /\ Work[Order[next]] > 0
    BY <1>5, <1>8
  <2>2. \A j \in here + 1 .. next - 1 : Work[Order[j]] = 0
    <3> SUFFICES ASSUME NEW j \in here + 1 .. next - 1 PROVE Work[Order[j]] = 0
      OBVIOUS
    <3>1. j \in here + 1 .. 14 /\ j \in 1 .. 14 /\ j < next
      BY <1>1, <2>1
    <3>2. ~(Work[Order[j]] > 0) /\ Work[Order[j]] \in Nat
      BY <1>2, <1>5, <1>8, <2>1, <3>1
    <3> QED
      BY <3>2
  <2>3. NextWork(f) = [f EXCEPT !.at = Order[next], !.n = 1]
    BY <1>3, <1>8
  <2> QED
    BY <1>8, <2>1, <2>2, <2>3
<1>9. On \/ Over \/ Skip
  <2> HIDE DEF On, Over, Skip, later
  <2> QED
    BY <1>6, <1>7, <1>8
<1> QED
  BY <1>9

\* The clock steps: a follower has the three compensation writes among them, and both
\* ways end in the three SYNC0 writes (FsmDcConfig).
LEMMA DcSteps ==
  ASSUME NEW b
  PROVE  /\ b => /\ Len(DcPath(b)) = 8
                 /\ \A k \in 1 .. 3 : DcPath(b)[5 + k] = Sync0[k]
                 /\ DcPath(b)[3] = "CompWriteDelay" /\ DcPath(b)[5] = "CompWriteOffset"
         /\ ~b => /\ Len(DcPath(b)) = 5
                  /\ \A k \in 1 .. 3 : DcPath(b)[2 + k] = Sync0[k]
  BY DEF DcPath, Sync0

-----------------------------------------------------------------------------
(* What is asked at each step, and how a configuration moves on *)

\* What a state change asks of its slave, at each step.
LEMMA ChangeAsks ==
  ASSUME NEW c \in ChangeType(ChangeSteps), NEW s
  PROVE  LET dg == ChangeRequest(c, s) IN
         /\ dg.to = {s} /\ dg.cmd \in {"FPRD", "FPWR"}
         /\ dg.reg \in {"AL_CONTROL", "AL_STATUS", "AL_STATUS_CODE"}
         /\ c.at \in {"WriteControl", "AckError"} =>
              dg.reg = "AL_CONTROL" /\ dg.cmd = "FPWR" /\ dg.val.state = c.target
                /\ (dg.val.ack <=> c.at = "AckError")
         /\ c.at \notin {"WriteControl", "AckError"} => dg.cmd = "FPRD"
         /\ c.at = "ReadStatus" => dg.reg = "AL_STATUS"
<1>1. c.at \in ChangeSteps
  BY DEF ChangeType
<1> QED
  BY <1>1 DEF ChangeSteps, ChangeRequest, Write, Read, Datagram

\* What a transfer asks of its slave, at each step.
LEMMA TransferAsks ==
  ASSUME NEW t \in TransferType(TransferSteps), NEW s, NEW what
  PROVE  LET dg == TransferRequest(t, s, what) IN
         /\ dg.to = {s} /\ dg.cmd \in {"FPRD", "FPWR"}
         /\ t.at = "WriteRequest" => dg = Write(s, "RX_MBOX", what)
         /\ t.at = "WaitMailbox"  => dg = Read(s, "SM1_STATUS")
         /\ t.at = "ReadResponse" => dg = Read(s, "TX_MBOX")
<1>1. t.at \in TransferSteps
  BY DEF TransferType
<1> QED
  BY <1>1 DEF TransferSteps, TransferRequest, Write, Read, Datagram

\* What PreOp asks of its slave, at each step.
LEMMA PreOpAsks ==
  ASSUME NEW p \in PreOpType(PreOpSteps), NEW s
  PROVE  LET dg == PreOpRequest(p, s) IN
         /\ p.at = "ConfigSm0" => dg = Write(s, "CONFIG", <<"MboxSm0", 1>>)
         /\ p.at = "ConfigSm1" => dg = Write(s, "CONFIG", <<"MboxSm1", 1>>)
         /\ p.at = "Change"    => dg = ChangeRequest(p.change, s)
<1>1. p.at \in PreOpSteps
  BY DEF PreOpType
<1> QED
  BY <1>1 DEF PreOpSteps, PreOpRequest

\* What the scan asks of the bus or of one slave, at each step.
LEMMA ScanAsks ==
  ASSUME NEW f \in ScanType(ScanSteps)
  PROVE  LET dg == ScanRequest(f) IN
         /\ f.at = "Count" => dg = Datagram("BRD", {}, "AL_STATUS", "-")
         /\ f.at = "Clear" => dg = Datagram("BWR", {}, "STATION_ADDR", 0)
         /\ f.at = "Apwr"  => dg = Datagram("APWR", {f.pos}, "STATION_ADDR", Station(f.pos))
         /\ f.at = "Al"    => dg = Read(Station(f.pos), "AL_STATUS")
         /\ f.at = "Dl"    => dg = Read(Station(f.pos), "DL_INFO")
         /\ f.at = "SiiCommand" => dg = Write(Station(f.pos), "SII_CONTROL", "-")
         /\ f.at = "SiiPoll"    => dg = Read(Station(f.pos), "SII_CONTROL")
<1>1. f.at \in ScanSteps
  BY DEF ScanType
<1> QED
  BY <1>1 DEF ScanSteps, ScanRequest

\* The phases that write registers.
Configured == Phases \ (Changes \cup CoePhases \cup {"DcCycle"})

\* A configuration under way: within the work of its phase, with the target of the half
\* it is in, and nothing begun of a state change or a transfer outside their phases.
ConfigInv(f) ==
  /\ f \in [at : Phases, n : Nat, follower : BOOLEAN,
            change : ChangeType(ChangeSteps), coe : TransferType(TransferSteps)]
  /\ 1 <= f.n /\ f.n <= Length(f)
  /\ f.change.target = IF Place(f.at) <= 5 THEN "PREOP" ELSE "SAFEOP"
  /\ f.at \notin Changes => f.change.at = "WriteControl"
  /\ f.at \notin CoePhases => f.coe.at = "WriteRequest"

\* How many steps a phase has.
LEMMA Lengths ==
  ASSUME NEW f, f.at \in Phases
  PROVE  /\ Length(f) \in Nat
         /\ f.at = "DcCycle" /\ f.follower => Length(f) = 8
         /\ f.at = "DcCycle" /\ ~f.follower => Length(f) = 5
         /\ f.at # "DcCycle" => Length(f) = Work[f.at]
<1>1. Work[f.at] \in Nat
  BY WorkAssumption DEF WorkAssumption
<1>2. CASE f.at # "DcCycle"
  BY <1>1, <1>2 DEF Length
<1>3. CASE f.at = "DcCycle"
  <2>1. Length(f) = Len(DcPath(f.follower))
    BY <1>3 DEF Length
  <2>2. /\ f.follower => Len(DcPath(f.follower)) = 8
        /\ ~f.follower => Len(DcPath(f.follower)) = 5
    BY DcSteps, Zenon
  <2> QED
    BY <1>3, <2>1, <2>2
<1> QED
  BY <1>2, <1>3

\* What FsmSlaveConfig asks, at each phase.
LEMMA ConfigAsks ==
  ASSUME NEW f, ConfigInv(f), NEW s, NEW ref
  PROVE  LET dg == ConfigRequest(f, s, ref) IN
         /\ f.at \in Changes => dg = ChangeRequest(f.change, s)
         /\ f.at \in CoePhases => dg = TransferRequest(f.coe, s, <<f.at, f.n>>)
         /\ f.at = "DcCycle" => dg = DcRequest(DcPath(f.follower)[f.n], s, ref)
         /\ f.at \in Configured => dg = Write(s, "CONFIG", <<f.at, f.n>>)
BY DEF ConfigRequest, ConfigInv, Configured, Changes, CoePhases

\* What the clock bring-up asks: a latch of all slaves, a read, or a write to the slave.
LEMMA DcAsks ==
  ASSUME NEW step, NEW s, NEW ref
  PROVE  LET dg == DcRequest(step, s, ref) IN
         \/ dg.cmd = "BWR" /\ dg.reg = "DC_RECV_TIME" /\ step = "CompLatch"
         \/ dg.cmd = "FPRD" /\ dg.reg = "DC_TIMES"
              /\ step \in {"CompReadPorts", "CompReadTimes", "ReadTime"}
         \/ dg = Write(s, "CONFIG", <<step, 1>>)
BY DEF DcRequest, Write, Read, Datagram

\* Between two steps nothing is begun; a configuration goes on in its phase, is over, or
\* skips the phases without work.
Fresh(f) == f.change.at = "WriteControl" /\ f.coe.at = "WriteRequest"

On(f, g)   == f.n < Length(f) /\ ConfigInv(g) /\ g.at = f.at /\ g.n = f.n + 1 /\ Fresh(g)
Over(f, g) == f.n = Length(f) /\ f.at = "ToSafeop" /\ g.at = "Done"
Skip(f, g) ==
  /\ f.n = Length(f) /\ ConfigInv(g) /\ g.n = 1 /\ Fresh(g)
  /\ Place(f.at) < Place(g.at)
  /\ \A j \in Place(f.at) + 1 .. Place(g.at) - 1 : Work[Order[j]] = 0

\* The two state changes are always there (WorkAssumption).
LEMMA FixedWork ==
  /\ Place("ToPreop") = 5 /\ Place("ToSafeop") = 14 /\ Work["ToPreop"] = 1
  /\ Work["ToSafeop"] = 1 /\ "ToSafeop" \in Phases /\ "ToPreop" \in Phases
  /\ Order[5] = "ToPreop" /\ Order[14] = "ToSafeop"
<1>1. Order[5] = "ToPreop" /\ Order[14] = "ToSafeop"
  BY DEF Order
<1>2. "ToPreop" \in Phases /\ "ToSafeop" \in Phases
  BY <1>1, Places
<1>3. Place("ToPreop") = 5 /\ Place("ToSafeop") = 14
  BY <1>1, Places
<1>4. Work["ToPreop"] = 1 /\ Work["ToSafeop"] = 1
  BY <1>2, WorkAssumption DEF WorkAssumption, Optional, CoePhases
<1> QED
  BY <1>1, <1>2, <1>3, <1>4

\* From a step that is done FsmSlaveConfig goes on to the next step with work.
LEMMA NextWorkMoves ==
  ASSUME NEW f \in [at : Phases, n : Nat, follower : BOOLEAN,
                    change : ChangeType(ChangeSteps), coe : TransferType(TransferSteps)],
         1 <= f.n, f.n <= Length(f), Fresh(f),
         f.at \in Changes => f.n = Length(f),
         f.change.target = IF Place(f.at) <= 4 THEN "PREOP" ELSE "SAFEOP",
         NEW g, g = NextWork(f)
  PROVE  /\ On(f, g) \/ Over(f, g) \/ Skip(f, g)
         /\ g.follower = f.follower
<1>1. f.at \in Phases /\ f.n \in Nat /\ Length(f) \in Nat /\ Place(f.at) \in 1 .. 14
  BY Lengths, Places
<1>2. Place(f.at) = 5 => f.at = "ToPreop"
  BY <1>1, Places, FixedWork
<1>3. ASSUME f.n < Length(f), g = [f EXCEPT !.n = f.n + 1]
      PROVE  On(f, g) /\ g.follower = f.follower
  <2>1. /\ g \in [at : Phases, n : Nat, follower : BOOLEAN,
                  change : ChangeType(ChangeSteps), coe : TransferType(TransferSteps)]
        /\ g.at = f.at /\ g.n = f.n + 1 /\ g.change = f.change /\ g.coe = f.coe
        /\ g.follower = f.follower
    BY <1>3
  <2>2. Length(g) = Length(f)
    BY <2>1 DEF Length
  <2>3. Place(f.at) # 5
    BY <1>2, <1>3, <1>1 DEF Changes
  <2>4. f.change.target = IF Place(f.at) <= 5 THEN "PREOP" ELSE "SAFEOP"
    BY <1>1, <2>3
  <2> QED
    BY <1>1, <1>3, <2>1, <2>2, <2>4 DEF On, ConfigInv, Fresh
<1>4. ASSUME f.n = Length(f), \A j \in Place(f.at) + 1 .. 14 : Work[Order[j]] = 0,
             g = [f EXCEPT !.at = "Done"]
      PROVE  Over(f, g) /\ g.follower = f.follower
  <2>1. Place(f.at) = 14
    <3>1. 14 \notin Place(f.at) + 1 .. 14
      BY <1>4, FixedWork
    <3> QED
      BY <1>1, <3>1
  <2>2. f.at = "ToSafeop"
    BY <1>1, <2>1, Places, FixedWork
  <2> QED
    BY <1>4, <2>2 DEF Over
<1>5. ASSUME f.n = Length(f), NEW k \in Place(f.at) + 1 .. 14, Work[Order[k]] > 0,
             \A j \in Place(f.at) + 1 .. k - 1 : Work[Order[j]] = 0,
             g = [f EXCEPT !.at = Order[k], !.n = 1]
      PROVE  Skip(f, g) /\ g.follower = f.follower
  <2>1. k \in 1 .. 14 /\ Order[k] \in Phases /\ Place(Order[k]) = k
    BY <1>1, Places
  <2>2. /\ g \in [at : Phases, n : Nat, follower : BOOLEAN,
                  change : ChangeType(ChangeSteps), coe : TransferType(TransferSteps)]
        /\ g.at = Order[k] /\ g.n = 1 /\ g.change = f.change /\ g.coe = f.coe
        /\ g.follower = f.follower
    <3> DEFINE a == Order[k]
    <3>1. a \in Phases /\ 1 \in Nat /\ g = [[f EXCEPT !.at = a] EXCEPT !.n = 1]
      BY <1>5, <2>1
    <3> HIDE DEF a
    <3>2. DOMAIN g = {"at", "n", "follower", "change", "coe"}
      BY <3>1
    <3>3. g.at = a /\ g.n = 1 /\ g.change = f.change /\ g.coe = f.coe
      BY <3>1
    <3>4. g.follower = f.follower
      BY <3>1
    <3>5. g \in [at : Phases, n : Nat, follower : BOOLEAN,
                  change : ChangeType(ChangeSteps), coe : TransferType(TransferSteps)]
      BY <3>1
    <3> QED
      BY <3>3, <3>4, <3>5 DEF a
  <2>3. 1 <= Length(g)
    <3>1. g.at \in Phases /\ Work[g.at] \in Nat /\ Work[g.at] > 0
      BY <1>5, <2>1, <2>2, WorkAssumption DEF WorkAssumption
    <3>2. CASE g.at # "DcCycle"
      BY <3>1, <3>2, Lengths
    <3>3. CASE g.at = "DcCycle"
      BY <3>1, <3>3, Lengths
    <3> QED
      BY <3>2, <3>3
  <2>4. Place(f.at) <= 4 <=> k <= 5
    <3>1. ASSUME Place(f.at) <= 4, k > 5 PROVE FALSE
      <4>1. 5 \in Place(f.at) + 1 .. k - 1
        BY <1>1, <2>1, <3>1
      <4> QED
        BY <1>5, <4>1, FixedWork
    <3>2. ASSUME Place(f.at) > 4 PROVE k > 5
      BY <1>1, <3>2
    <3> QED
      BY <1>1, <2>1, <3>1, <3>2
  <2>5. g.change.target = IF Place(g.at) <= 5 THEN "PREOP" ELSE "SAFEOP"
    BY <2>1, <2>2, <2>4
  <2>6. ConfigInv(g)
    BY <2>2, <2>3, <2>5 DEF ConfigInv, Fresh
  <2> QED
    BY <1>1, <1>5, <2>1, <2>2, <2>6 DEF Skip, Fresh
<1>6. \/ f.n < Length(f) /\ g = [f EXCEPT !.n = f.n + 1]
      \/ /\ f.n = Length(f)
         /\ \A j \in Place(f.at) + 1 .. 14 : Work[Order[j]] = 0
         /\ g = [f EXCEPT !.at = "Done"]
      \/ /\ f.n = Length(f)
         /\ \E k \in Place(f.at) + 1 .. 14 :
              /\ Work[Order[k]] > 0
              /\ \A j \in Place(f.at) + 1 .. k - 1 : Work[Order[j]] = 0
              /\ g = [f EXCEPT !.at = Order[k], !.n = 1]
  <2> HIDE DEF ChangeType, TransferType
  <2> QED
    BY <1>1, NextWorkStep, Zenon
<1>7. CASE f.n < Length(f) /\ g = [f EXCEPT !.n = f.n + 1]
  BY <1>3, <1>7
<1>8. CASE /\ f.n = Length(f)
           /\ \A j \in Place(f.at) + 1 .. 14 : Work[Order[j]] = 0
           /\ g = [f EXCEPT !.at = "Done"]
  BY <1>4, <1>8
<1>9. CASE /\ f.n = Length(f)
           /\ \E k \in Place(f.at) + 1 .. 14 :
                /\ Work[Order[k]] > 0
                /\ \A j \in Place(f.at) + 1 .. k - 1 : Work[Order[j]] = 0
                /\ g = [f EXCEPT !.at = Order[k], !.n = 1]
  BY <1>5, <1>9
<1> QED
  BY <1>6, <1>7, <1>8, <1>9

\* What a reply must be for the step to be done.
Leaves(f, r) ==
  /\ f.at \in Configured => r.wkc = 1
  /\ f.at = "DcCycle" => DcAccepts(DcPath(f.follower)[f.n], r)
  /\ f.at \in CoePhases => f.coe.at = "ReadResponse" /\ r.wkc = 1
  /\ f.at \in Changes => ChangeAfter(f.change, r).at = "Done"

\* A reply that only advances the state change or the transfer the step is at.
Stays(f, g, r) ==
  /\ ConfigInv(g) /\ g.at = f.at /\ g.n = f.n
  /\ f.at \in Changes \cup CoePhases
  /\ f.at \in Changes => g.change = ChangeAfter(f.change, r)
  /\ f.at \in CoePhases => /\ g.coe.at # "WriteRequest"
                           /\ f.coe.at = "WriteRequest" => r.wkc = 1

\* A reply that does not fail FsmSlaveConfig either advances the state change or the
\* transfer it is at, or confirms the step and moves it on: no step is passed without
\* its confirmation.
LEMMA ConfigStep ==
  ASSUME NEW f, ConfigInv(f), NEW r, NEW g, g = ConfigAfter(f, r), g.at # "Failed"
  PROVE  /\ g.follower = f.follower
         /\ \/ Stays(f, g, r)
            \/ Leaves(f, r) /\ (On(f, g) \/ Over(f, g) \/ Skip(f, g))
<1> DEFINE T == [at : Phases, n : Nat, follower : BOOLEAN,
                 change : ChangeType(ChangeSteps), coe : TransferType(TransferSteps)]
<1>1. f \in T /\ f.at \in Phases /\ 1 <= f.n /\ f.n <= Length(f) /\ f.n \in Nat
  BY DEF ConfigInv
<1>2. f.change \in ChangeType(ChangeSteps) /\ f.coe \in TransferType(TransferSteps)
  BY <1>1
<1>3. GaveUp(f).at = "Failed"
  BY <1>1 DEF GaveUp
<1>4. Place(f.at) \in 1 .. 14
  BY <1>1, Places
<1>5. CASE f.at \in Changes
  <2> DEFINE c == ChangeAfter(f.change, r)
  <2>1. c \in ChangeType(ChangeSteps \cup Ended) /\ c.target = f.change.target
    BY <1>2, ChangeAfterType
  <2>4. f.at \notin CoePhases /\ f.at # "DcCycle" /\ f.at \notin Configured
    BY <1>5 DEF Changes, CoePhases, Configured
  <2>2. g = ChangedAfter(f, c)
    BY <1>5, <2>4 DEF ConfigAfter
  <2>3. c.at # "Failed"
    BY <2>2, <1>3 DEF ChangedAfter
  <2> HIDE DEF c
  <2>5. CASE c.at = "Done"
    <3> DEFINE h == [f EXCEPT !.change = Change("SAFEOP")]
    <3>1. g = NextWork(h)
      BY <2>2, <2>5 DEF ChangedAfter
    <3>2. Change("SAFEOP") \in ChangeType(ChangeSteps)
          /\ Change("SAFEOP").at = "WriteControl" /\ Change("SAFEOP").target = "SAFEOP"
      BY DEF Change, ChangeType, ChangeSteps, AlStates
    <3>3. /\ h \in T /\ h.at = f.at /\ h.n = f.n /\ h.follower = f.follower
          /\ h.coe = f.coe /\ h.change = Change("SAFEOP")
      BY <1>1, <3>2
    <3>4. Length(h) = Length(f)
      BY <3>3 DEF Length
    <3>5. Fresh(h)
      BY <2>4, <3>2, <3>3 DEF Fresh, ConfigInv
    <3>6. f.n = Length(f) /\ ~(Place(f.at) <= 4)
      <4>1. f.at = "ToPreop" \/ f.at = "ToSafeop"
        BY <1>5 DEF Changes
      <4>2. Length(f) = 1
        BY <1>1, <4>1, FixedWork, Lengths
      <4> QED
        BY <1>1, <4>1, <4>2, FixedWork
    <3> HIDE DEF h, T
    <3>7. /\ On(h, g) \/ Over(h, g) \/ Skip(h, g)
          /\ g.follower = h.follower
      BY <3>1, <3>2, <3>3, <3>4, <3>5, <3>6, <1>1, NextWorkMoves DEF T
    <3>8. On(f, g) \/ Over(f, g) \/ Skip(f, g)
      BY <3>3, <3>4, <3>7 DEF On, Over, Skip
    <3>9. Leaves(f, r)
      BY <2>4, <2>5 DEF Leaves, c
    <3> QED
      BY <3>3, <3>7, <3>8, <3>9
  <2>6. CASE c.at # "Done"
    <3>1. g = [f EXCEPT !.change = c]
      BY <2>2, <2>3, <2>6 DEF ChangedAfter
    <3>2. c \in ChangeType(ChangeSteps)
      BY <2>1, <2>3, <2>6 DEF ChangeType, Ended
    <3>3. /\ g \in T /\ g.at = f.at /\ g.n = f.n /\ g.follower = f.follower
          /\ g.coe = f.coe /\ g.change = c
      BY <1>1, <3>1, <3>2
    <3>4. Length(g) = Length(f)
      BY <3>3 DEF Length
    <3>5. ConfigInv(g)
      BY <1>5, <2>1, <3>3, <3>4 DEF ConfigInv
    <3> QED
      BY <1>5, <2>4, <3>3, <3>5 DEF Stays, c
  <2> QED
    BY <2>5, <2>6
<1>6. CASE f.at \in CoePhases
  <2> DEFINE t == TransferAfter(f.coe, r)
  <2>1. /\ t \in TransferType(TransferSteps \cup Ended)
        /\ t.at = "Done" => f.coe.at = "ReadResponse" /\ r.wkc = 1
        /\ t.at # "WriteRequest"
        /\ f.coe.at = "WriteRequest" /\ t.at # "Failed" => r.wkc = 1
    BY <1>2, TransferAfterType
  <2>2. f.at \notin Changes /\ f.at # "DcCycle" /\ f.at \notin Configured
    BY <1>6 DEF Changes, CoePhases, Configured
  <2>3. g = SentAfter(f, t)
    BY <1>6, <2>2 DEF ConfigAfter
  <2>4. t.at # "Failed"
    BY <2>3, <1>3 DEF SentAfter
  <2> HIDE DEF t
  <2>5. CASE t.at = "Done"
    <3> DEFINE h == [f EXCEPT !.coe = Transfer]
    <3>1. g = NextWork(h)
      BY <2>3, <2>5 DEF SentAfter
    <3>2. Transfer \in TransferType(TransferSteps) /\ Transfer.at = "WriteRequest"
      BY DEF Transfer, TransferType, TransferSteps
    <3>3. /\ h \in T /\ h.at = f.at /\ h.n = f.n /\ h.follower = f.follower
          /\ h.change = f.change /\ h.coe = Transfer
      BY <1>1, <3>2
    <3>4. Length(h) = Length(f)
      BY <3>3 DEF Length
    <3>5. Fresh(h)
      BY <2>2, <3>2, <3>3 DEF Fresh, ConfigInv
    <3>6. Place(f.at) # 5
      BY <1>1, <2>2, Places, FixedWork DEF Changes
    <3>7. h.change.target = IF Place(f.at) <= 4 THEN "PREOP" ELSE "SAFEOP"
      BY <1>4, <3>3, <3>6 DEF ConfigInv
    <3> HIDE DEF h, T
    <3>8. /\ On(h, g) \/ Over(h, g) \/ Skip(h, g)
          /\ g.follower = h.follower
      BY <2>2, <3>1, <3>3, <3>4, <3>5, <3>7, <1>1, NextWorkMoves DEF T
    <3>9. On(f, g) \/ Over(f, g) \/ Skip(f, g)
      BY <3>3, <3>4, <3>8 DEF On, Over, Skip
    <3>10. Leaves(f, r)
      BY <2>1, <2>2, <2>5 DEF Leaves
    <3> QED
      BY <3>3, <3>8, <3>9, <3>10
  <2>6. CASE t.at # "Done"
    <3>1. g = [f EXCEPT !.coe = t]
      BY <2>3, <2>4, <2>6 DEF SentAfter
    <3>2. t \in TransferType(TransferSteps)
      BY <2>1, <2>4, <2>6 DEF TransferType, Ended
    <3>3. /\ g \in T /\ g.at = f.at /\ g.n = f.n /\ g.follower = f.follower
          /\ g.coe = t /\ g.change = f.change
      BY <1>1, <3>1, <3>2
    <3>4. Length(g) = Length(f)
      BY <3>3 DEF Length
    <3>5. ConfigInv(g)
      BY <1>6, <3>3, <3>4 DEF ConfigInv
    <3> QED
      BY <1>6, <2>1, <2>2, <2>4, <3>3, <3>5 DEF Stays
  <2> QED
    BY <2>5, <2>6
<1>7. CASE f.at \notin Changes /\ f.at \notin CoePhases
  <2>1. /\ g = NextWork(f)
        /\ f.at = "DcCycle" => DcAccepts(DcPath(f.follower)[f.n], r)
        /\ f.at # "DcCycle" => r.wkc = 1
    BY <1>3, <1>7 DEF ConfigAfter
  <2>2. Fresh(f)
    BY <1>7 DEF Fresh, ConfigInv
  <2>3. Place(f.at) # 5
    BY <1>1, <1>7, Places, FixedWork DEF Changes
  <2>4. f.change.target = IF Place(f.at) <= 4 THEN "PREOP" ELSE "SAFEOP"
    BY <1>4, <2>3 DEF ConfigInv
  <2>5. /\ On(f, g) \/ Over(f, g) \/ Skip(f, g)
        /\ g.follower = f.follower
    BY <1>1, <1>7, <2>1, <2>2, <2>4, NextWorkMoves
  <2>6. Leaves(f, r)
    BY <1>7, <2>1 DEF Leaves, Configured
  <2> QED
    BY <2>5, <2>6
<1> QED
  BY <1>5, <1>6, <1>7

-----------------------------------------------------------------------------
(* The scan *)

\* The scan begins a slave at its station address.
LEMMA BegunType ==
  ASSUME NEW S, "Apwr" \in S, NEW f \in ScanType(S), NEW pos \in Nat,
         NEW g, g = Begun(f, pos)
  PROVE  g \in ScanType(S) /\ g.at = "Apwr" /\ g.pos = pos /\ g.count = f.count
<1>1. PICK a : a = [f EXCEPT !.at = "Apwr", !.pos = pos]
  OBVIOUS
<1>2. a \in ScanType(S) /\ a.at = "Apwr" /\ a.pos = pos /\ a.count = f.count
  BY <1>1 DEF ScanType
<1>3. PICK b : b = [a EXCEPT !.al = "INIT"]
  OBVIOUS
<1>4. b \in ScanType(S) /\ b.at = "Apwr" /\ b.pos = pos /\ b.count = f.count
  BY <1>2, <1>3 DEF ScanType, AlStates
<1>5. g = [b EXCEPT !.word = 1]
  BY <1>1, <1>3 DEF Begun
<1>6. 1 \in Nat
  OBVIOUS
<1> QED
  BY <1>4, <1>5, <1>6 DEF ScanType

\* ScanFsm goes through the steps of one slave in order and then to the next position,
\* as long as there are slaves counted.
LEMMA ScanStep ==
  ASSUME NEW f \in ScanType(ScanSteps), NEW r,
         f.at = "Count" /\ ~Lost(r) => r.wkc \in 0 .. N,
         f.at = "Al" /\ r.wkc = 1 => r.data.al \in AlStates,
         NEW g, g = ScanAfter(f, r)
  PROVE  /\ g \in ScanType(ScanSteps \cup Ended)
         /\ \/ g.at \in Ended
            \/ /\ f.at = "Count" /\ g.at = "Clear" /\ g.count > 0
               /\ ~Completes(f, r)
            \/ /\ f.at = "Clear" /\ g.at = "Apwr" /\ g.pos = 0 /\ g.count = f.count
               /\ ~Completes(f, r)
            \/ /\ f.at = "Apwr" /\ g.at = "Al" /\ g.pos = f.pos /\ g.count = f.count
               /\ r.wkc = 1 /\ ~Completes(f, r)
            \/ /\ f.at \in {"Al", "Dl", "SiiCommand", "SiiPoll"}
               /\ g.at \in {"Dl", "SiiCommand", "SiiPoll"}
               /\ g.pos = f.pos /\ g.count = f.count /\ ~Completes(f, r)
            \/ /\ Completes(f, r) /\ g.at = "Apwr" /\ g.pos = f.pos + 1
               /\ g.pos < f.count /\ g.count = f.count
         /\ Completes(f, r) => f.at = "SiiPoll" /\ r.wkc # 0
<1>1. f.at \in ScanSteps /\ f.pos + 1 \in Nat /\ f.word + 1 \in Nat /\ f.polls + 1 \in Nat
  BY DEF ScanType
<1>2. Completes(f, r) => f.at = "SiiPoll" /\ r.wkc # 0
  BY DEF Completes, WordRead
<1>3. CASE Lost(r)
  BY <1>2, <1>3 DEF ScanAfter, ScanType, Ended
<1>4. CASE f.at = "Count" /\ ~Lost(r)
  <2>1. g = [f EXCEPT !.count = r.wkc, !.at = IF r.wkc = 0 THEN "Done" ELSE "Clear"]
    BY <1>4 DEF ScanAfter
  <2>2. r.wkc \in 0 .. N
    BY <1>4
  <2>3. CASE r.wkc = 0
    <3>1. g = [f EXCEPT !.count = r.wkc, !.at = "Done"]
      BY <2>1, <2>3
    <3> QED
      BY <1>2, <1>4, <2>2, <3>1 DEF ScanType, Ended
  <2>4. CASE r.wkc # 0
    <3>1. g = [f EXCEPT !.count = r.wkc, !.at = "Clear"]
      BY <2>1, <2>4
    <3>2. g \in ScanType(ScanSteps \cup Ended) /\ g.at = "Clear" /\ g.count = r.wkc
      BY <2>2, <3>1 DEF ScanType, ScanSteps
    <3>3. r.wkc > 0
      BY <2>2, <2>4
    <3> QED
      BY <1>2, <1>4, <3>2, <3>3
  <2> QED
    BY <2>3, <2>4
<1>5. CASE f.at = "Clear" /\ ~Lost(r)
  <2>1. g = Begun(f, 0)
    BY <1>5 DEF ScanAfter
  <2>2. g \in ScanType(ScanSteps \cup Ended)
        /\ g.at = "Apwr" /\ g.pos = 0 /\ g.count = f.count
    <3>1. f \in ScanType(ScanSteps \cup Ended)
      BY DEF ScanType
    <3>2. "Apwr" \in ScanSteps \cup Ended /\ 0 \in Nat
      BY DEF ScanSteps
    <3> QED
      BY <2>1, <3>1, <3>2, BegunType
  <2> QED
    BY <1>2, <1>5, <2>2
<1>6. CASE f.at \in {"Apwr", "Al", "Dl"} /\ ~Lost(r)
  <2>1. g = IF r.wkc # 1 THEN [f EXCEPT !.at = "Failed"]
            ELSE IF f.at = "Apwr" THEN [f EXCEPT !.at = "Al"]
            ELSE IF f.at = "Al"   THEN [f EXCEPT !.at = "Dl", !.al = r.data.al]
            ELSE [f EXCEPT !.at = "SiiCommand"]
    BY <1>6 DEF ScanAfter
  <2>2. CASE r.wkc # 1
    BY <1>2, <1>6, <2>1, <2>2 DEF ScanType, Ended
  <2>3. CASE r.wkc = 1 /\ f.at = "Apwr"
    BY <1>2, <2>1, <2>3 DEF ScanType, ScanSteps
  <2>4. CASE r.wkc = 1 /\ f.at = "Al"
    <3>1. g = [f EXCEPT !.at = "Dl", !.al = r.data.al] /\ r.data.al \in AlStates
      BY <2>1, <2>4
    <3>2. g \in ScanType(ScanSteps \cup Ended)
          /\ g.at = "Dl" /\ g.pos = f.pos /\ g.count = f.count
      BY <3>1 DEF ScanType, ScanSteps
    <3> QED
      BY <1>2, <2>4, <3>2
  <2>5. CASE r.wkc = 1 /\ f.at = "Dl"
    BY <1>2, <2>1, <2>5 DEF ScanType, ScanSteps
  <2> QED
    BY <1>6, <2>2, <2>3, <2>4, <2>5
<1>7. CASE f.at = "SiiCommand" /\ ~Lost(r)
  <2>1. g = [f EXCEPT !.at = IF r.wkc = 0 THEN "Failed" ELSE "SiiPoll", !.polls = 0]
    BY <1>7 DEF ScanAfter
  <2>2. CASE r.wkc = 0
    <3>1. g = [[f EXCEPT !.at = "Failed"] EXCEPT !.polls = 0]
      BY <2>1, <2>2
    <3>2. PICK a : a = [f EXCEPT !.at = "Failed"]
      OBVIOUS
    <3>3. a \in ScanType(ScanSteps \cup Ended) /\ a.at = "Failed"
      BY <3>2 DEF ScanType, Ended
    <3>4. g \in ScanType(ScanSteps \cup Ended) /\ g.at = "Failed"
      BY <3>1, <3>2, <3>3, 0 \in Nat DEF ScanType
    <3> QED
      BY <1>2, <1>7, <3>4 DEF Ended
  <2>3. CASE r.wkc # 0
    <3>1. g = [[f EXCEPT !.at = "SiiPoll"] EXCEPT !.polls = 0]
      BY <2>1, <2>3
    <3>2. PICK a : a = [f EXCEPT !.at = "SiiPoll"]
      OBVIOUS
    <3>3. a \in ScanType(ScanSteps \cup Ended)
          /\ a.at = "SiiPoll" /\ a.pos = f.pos /\ a.count = f.count
      BY <3>2 DEF ScanType, ScanSteps
    <3>4. g \in ScanType(ScanSteps \cup Ended)
          /\ g.at = "SiiPoll" /\ g.pos = f.pos /\ g.count = f.count
      BY <3>1, <3>2, <3>3, 0 \in Nat DEF ScanType
    <3> QED
      BY <1>2, <1>7, <3>4
  <2> QED
    BY <2>2, <2>3
<1>8. CASE f.at = "SiiPoll" /\ ~Lost(r)
  <2>1. CASE Completes(f, r)
    <3>1. g = Finished(f)
      BY <1>8, <2>1 DEF ScanAfter, Completes, WordRead
    <3>2. CASE f.pos + 1 < f.count /\ f.pos + 1 < Capacity
      <4>1. g = Begun(f, f.pos + 1)
        BY <3>1, <3>2 DEF Finished
      <4>2. g \in ScanType(ScanSteps \cup Ended)
            /\ g.at = "Apwr" /\ g.pos = f.pos + 1 /\ g.count = f.count
        <5>1. f \in ScanType(ScanSteps \cup Ended)
          BY DEF ScanType
        <5>2. "Apwr" \in ScanSteps \cup Ended
          BY DEF ScanSteps
        <5>3. PICK q \in Nat : q = f.pos + 1
          BY <1>1
        <5>4. g = Begun(f, q)
          BY <4>1, <5>3
        <5>5. g \in ScanType(ScanSteps \cup Ended)
              /\ g.at = "Apwr" /\ g.pos = q /\ g.count = f.count
          BY <5>1, <5>2, <5>4, BegunType
        <5> QED
          BY <5>3, <5>5
      <4> QED
        BY <1>2, <2>1, <3>2, <4>2
    <3>3. CASE ~(f.pos + 1 < f.count /\ f.pos + 1 < Capacity)
      <4>1. g = [f EXCEPT !.at = "Done"]
        BY <3>1, <3>3 DEF Finished
      <4> QED
        BY <1>2, <4>1 DEF ScanType, Ended
    <3> QED
      BY <3>2, <3>3
  <2>2. CASE WordRead(f, r) /\ ~Completes(f, r)
    <3>1. g = [f EXCEPT !.at = "SiiCommand", !.word = f.word + 1]
      BY <1>8, <2>2 DEF ScanAfter, WordRead
    <3>2. g \in ScanType(ScanSteps \cup Ended)
          /\ g.at = "SiiCommand" /\ g.pos = f.pos /\ g.count = f.count
      BY <1>1, <3>1 DEF ScanType, ScanSteps
    <3> QED
      BY <1>8, <2>2, <3>2
  <2>3. CASE ~WordRead(f, r)
    <3>1. ~Completes(f, r)
      BY <2>3 DEF Completes
    <3>2. g = [f EXCEPT !.at = "Failed"] \/ g = Polled(f)
      BY <1>8, <2>3, <3>1 DEF ScanAfter
    <3>3. g = [f EXCEPT !.at = "Failed"] \/ g = [f EXCEPT !.polls = f.polls + 1]
      BY <3>2 DEF Polled
    <3>4. CASE g = [f EXCEPT !.at = "Failed"]
      BY <1>2, <3>4 DEF ScanType, Ended
    <3>5. CASE g = [f EXCEPT !.polls = f.polls + 1]
      <4>1. g \in ScanType(ScanSteps \cup Ended)
            /\ g.at = "SiiPoll" /\ g.pos = f.pos /\ g.count = f.count
        BY <1>1, <1>8, <3>5 DEF ScanType, ScanSteps
      <4> QED
        BY <1>8, <3>1, <4>1
    <3> QED
      BY <3>3, <3>4, <3>5
  <2> QED
    BY <2>1, <2>2, <2>3 DEF Completes
<1> QED
  BY <1>1, <1>3, <1>4, <1>5, <1>6, <1>7, <1>8 DEF ScanSteps

-----------------------------------------------------------------------------
(* Operations, stations and the list: Base *)

\* The pre-op state of an operation: under way, it has its own target.
PreOpInv(o) ==
  /\ o.pre.at # "Done" => o.pre.change.at \in ChangeSteps
  /\ o.pre.change.target = o.target

\* Operations are what their commands make of them: on a slave of the bus, never at an
\* ended step, which the step itself turns into the end of the operation.
OpTyped ==
  /\ op.kind = "Rescan" => op \in [kind : {"Rescan"}, scan : ScanType(ScanSteps)]
  /\ op.kind = "State" =>
       /\ op \in [kind : {"State"}, pos : Bus, target : AlStates, pre : PreOpType(PreOpSteps)]
       /\ PreOpInv(op)
  /\ op.kind = "Sdo" =>
       /\ op \in [kind : {"Sdo"}, pos : Bus, target : AlStates,
                  pre : PreOpType(PreOpSteps \cup {"Done"}),
                  coe : TransferType(TransferSteps)]
       /\ PreOpInv(op)
  /\ op.kind = "Start" =>
       /\ DOMAIN op = {"kind", "pos", "cfg"} /\ op.pos \in Bus
       /\ ConfigInv(op.cfg) /\ op.cfg.follower = Follower(op.pos)
  /\ op.kind = "Stop" =>
       /\ op \in [kind : {"Stop"}, idx : 1 .. N, change : ChangeType(ChangeSteps)]
       /\ op.change.target = "PREOP"

\* While there is an engine nothing but "stop" drives the bus.
EngineInv == cyclic # <<>> => op.kind \in {"none", "Launch", "Stop"}

\* A slave has the address the scan gives to its position, or none.
StationOwn == \A p \in Bus : station[p] \in {0, Station(p)}

\* The scan appends to the list in the order of the bus: the list is as long as the
\* position it is at, within the slaves counted; once past the address write, the slave
\* there has its address or has lost power since.
ScanFollowed ==
  op.kind = "Rescan" =>
    /\ op.scan.at \in {"Count", "Clear"} => slaves = <<>>
    /\ op.scan.at = "Clear" => op.scan.count > 0
    /\ op.scan.at \notin {"Count", "Clear"} =>
         Len(slaves) = op.scan.pos /\ op.scan.pos < op.scan.count
    /\ op.scan.at \notin {"Count", "Clear", "Apwr"} =>
         station[op.scan.pos] = Station(op.scan.pos) \/ op.scan.pos \in lapsed

\* What all operations and the list keep, and the ground of the other invariants.
Base ==
  /\ TypeOK /\ UserInv /\ OpTyped /\ EngineInv
  /\ StationOwn /\ ScanFollowed /\ ListedIsAddressed

\* One datagram of the operation, as any of Answered, LostOut and LostBack has it: S
\* has taken it, r is what the master is told.
Exchanged(r, S) ==
  /\ Waiting /\ OpAfter(r)
  /\ \/ S = Takers(OpRequest) /\ r \in Replies(OpRequest)
     \/ S \subseteq Takers(OpRequest) /\ r = NoReply
  /\ Executed(OpRequest, S) /\ Recorded(OpRequest, S)

\* A step of the worker is an exchange or ends an operation that asks nothing.
LEMMA WorkerSteps ==
  ASSUME Worker
  PROVE  \/ \E r, S : Exchanged(r, S) /\ (UNCHANGED mishaps \/ Mishap)
         \/ StartMissing \/ StopIdle \/ Launch
<1>1. CASE Answered
  <2>1. PICK r \in Replies(OpRequest) : OpAfter(r)
    BY <1>1 DEF Answered
  <2>2. Exchanged(r, Takers(OpRequest))
    BY <1>1, <2>1 DEF Answered, Exchanged
  <2> QED
    BY <1>1, <2>2 DEF Answered
<1>2. CASE LostOut
  <2>1. Exchanged(NoReply, {})
    BY <1>2 DEF LostOut, Exchanged
  <2>2. UNCHANGED mishaps \/ Mishap
    BY <1>2 DEF LostOut
  <2> QED
    BY <2>1, <2>2
<1>3. CASE LostBack
  <2>1. Exchanged(NoReply, Takers(OpRequest))
    BY <1>3 DEF LostBack, Exchanged
  <2> QED
    BY <1>3, <2>1 DEF LostBack
<1> QED
  BY <1>1, <1>2, <1>3 DEF Worker

\* Only slaves of the bus take a datagram; a working counter that is not zero is the
\* count of those that did, and the data is that of one of them.
LEMMA AnswerFacts ==
  ASSUME NEW r, NEW S, Exchanged(r, S)
  PROVE  /\ S \in SUBSET Bus /\ S \subseteq Takers(OpRequest)
         /\ r.wkc # 0 => /\ S = Takers(OpRequest) /\ r.wkc = Wkc(OpRequest)
                         /\ \E p \in S : r.data \in Data(p, OpRequest)
         /\ ~Lost(r) => r.wkc = Wkc(OpRequest) \/ r.wkc = 0
<1>1. Takers(OpRequest) \in SUBSET Bus /\ S \subseteq Takers(OpRequest)
  BY DEF Exchanged, Takers, Reached
<1>2. CASE r = NoReply
  BY <1>1, <1>2 DEF NoReply, Lost
<1>3. CASE S = Takers(OpRequest) /\ r \in Replies(OpRequest)
  <2>1. CASE S = {}
    <3>1. r = Reply(0, "-")
      BY <1>3, <2>1 DEF Replies
    <3> QED
      BY <1>1, <3>1 DEF Reply
  <2>2. CASE S # {}
    <3>1. PICK d \in UNION {Data(p, OpRequest) : p \in S} : r = Reply(Wkc(OpRequest), d)
      BY <1>3, <2>2 DEF Replies
    <3>2. r.data = d /\ r.wkc = Wkc(OpRequest)
      BY <3>1 DEF Reply
    <3>3. PICK p \in S : d \in Data(p, OpRequest)
      BY <3>1
    <3> QED
      BY <1>1, <1>3, <3>2, <3>3
  <2> QED
    BY <2>1, <2>2
<1> QED
  BY <1>1, <1>2, <1>3 DEF Exchanged

\* A datagram to one station is taken by the slave that has it, and by no other.
LEMMA Taken ==
  ASSUME StationOwn, NEW r, NEW S, Exchanged(r, S), NEW p \in Nat,
         OpRequest.to = {Station(p)}, OpRequest.cmd \in {"FPRD", "FPWR"}
  PROVE  /\ \A q \in S : q = p /\ station[q] = Station(p) /\ Takes(p, OpRequest)
         /\ r.wkc # 0 => S = {p} /\ r.data \in Data(p, OpRequest)
<1>1. S \in SUBSET Bus /\ S \subseteq Takers(OpRequest)
  BY AnswerFacts
<1>2. ASSUME NEW q \in S PROVE q = p /\ station[q] = Station(p) /\ Takes(p, OpRequest)
  <2>1. q \in Bus /\ Takes(q, OpRequest)
    BY <1>1, <1>2 DEF Takers
  <2>2. station[q] = Station(p)
    BY <2>1 DEF Takes
  <2>3. station[q] = 0 \/ station[q] = q + 1
    BY <2>1 DEF StationOwn, Station
  <2>4. q = p
    BY <2>1, <2>2, <2>3 DEF Station, Bus
  <2> QED
    BY <2>1, <2>2, <2>4
<1>3. r.wkc # 0 => \E q \in S : r.data \in Data(q, OpRequest)
  BY AnswerFacts
<1> QED
  BY <1>2, <1>3

\* The slaves counted are at most those of the bus.
LEMMA CountInBus == ASSUME NEW S \in SUBSET Bus PROVE Cardinality(S) \in 0 .. N
<1>1. IsFiniteSet(Bus) /\ Cardinality(Bus) = N
  <2>1. 0 \in Int /\ N - 1 \in Int /\ N \in Nat /\ N > 0
    BY MasterAssumption DEF MasterAssumption
  <2>2. IsFiniteSet(0 .. N-1) /\ Cardinality(0 .. N-1) = IF 0 > N-1 THEN 0 ELSE N-1-0+1
    BY <2>1, FS_Interval
  <2> QED
    BY <2>1, <2>2 DEF Bus
<1>2. Cardinality(S) <= Cardinality(Bus) /\ IsFiniteSet(S)
  BY <1>1, FS_Subset
<1>3. Cardinality(S) \in Nat
  BY <1>2, FS_CardinalityType
<1>4. N \in Nat
  BY MasterAssumption DEF MasterAssumption
<1> QED
  BY <1>1, <1>2, <1>3, <1>4

\* An entry of Master::slaves.
Listed == [al : AlStates, coe : BOOLEAN]

\* What an exchange leaves of the operation, the list and the engine.
OpOut ==
  /\ op'.kind \in Kinds /\ OpTyped' /\ EngineInv'
  /\ slaves' \in Seq(Listed) /\ Len(slaves') <= N
  /\ cyclic' \in {<<>>, [k \in 1 .. N |-> Station(k - 1)]}
  /\ pit' = pit

\* The end of an operation is well-formed.
LEMMA IdleTyped == op' = Idle => op'.kind \in Kinds /\ OpTyped' /\ EngineInv'
  BY DEF Idle, Kinds, OpTyped, EngineInv

\* Tracking a state changes the list at the slaves it is for, and nowhere else.
LEMMA TrackedType ==
  ASSUME slaves \in Seq(Listed), NEW S, NEW target \in AlStates
  PROVE  Tracked(S, target) \in Seq(Listed) /\ Len(Tracked(S, target)) = Len(slaves)
         /\ \A k \in DOMAIN slaves :
              Tracked(S, target)[k].al = IF k - 1 \in S THEN target ELSE slaves[k].al
<1>1. DOMAIN slaves = 1 .. Len(slaves) /\ Len(slaves) \in Nat
  OBVIOUS
<1>2. ASSUME NEW k \in DOMAIN slaves
      PROVE  /\ slaves[k] \in Listed /\ [slaves[k] EXCEPT !.al = target] \in Listed
             /\ [slaves[k] EXCEPT !.al = target].al = target
  <2>1. slaves[k] \in Listed
    BY <1>1
  <2>2. \A x \in Listed : /\ [x EXCEPT !.al = target] \in Listed
                          /\ [x EXCEPT !.al = target].al = target
    BY DEF Listed
  <2> QED
    BY <2>1, <2>2
<1>3. \A k \in 1 .. Len(slaves) :
        (IF k - 1 \in S THEN [slaves[k] EXCEPT !.al = target] ELSE slaves[k]) \in Listed
  BY <1>1, <1>2
<1>4. Tracked(S, target) \in Seq(Listed) /\ Len(Tracked(S, target)) = Len(slaves)
  BY <1>1, <1>3 DEF Tracked
<1>5. \A k \in DOMAIN slaves :
        Tracked(S, target)[k].al = IF k - 1 \in S THEN target ELSE slaves[k].al
  BY <1>1, <1>2 DEF Tracked
<1> QED
  BY <1>4, <1>5

\* What the state machine of the scan is told.
LEMMA RescanAnswer ==
  ASSUME Base, NEW r, NEW S, Exchanged(r, S), op.kind = "Rescan"
  PROVE  /\ op.scan \in ScanType(ScanSteps) /\ OpRequest = ScanRequest(op.scan)
         /\ op.scan.at = "Count" /\ ~Lost(r) => r.wkc \in 0 .. N
         /\ op.scan.at = "Al" /\ r.wkc = 1 => r.data.al \in AlStates
<1>1. op.scan \in ScanType(ScanSteps) /\ OpRequest = ScanRequest(op.scan)
  BY DEF Base, OpTyped, OpRequest
<1>2. ASSUME op.scan.at = "Count", ~Lost(r) PROVE r.wkc \in 0 .. N
  <2>1. OpRequest.to = {}
    BY <1>1, <1>2, ScanAsks DEF Datagram
  <2>2. Wkc(OpRequest) = Cardinality(Takers(OpRequest))
    <3>1. Cardinality(OpRequest.to) <= 1
      BY <2>1, FS_EmptySet
    <3> QED
      BY <3>1 DEF Wkc
  <2>3. Takers(OpRequest) \in SUBSET Bus
    BY DEF Takers, Reached
  <2>4. Wkc(OpRequest) \in 0 .. N
    BY <2>2, <2>3, CountInBus
  <2>5. r.wkc = Wkc(OpRequest) \/ r.wkc = 0
    BY <1>2, AnswerFacts
  <2>6. 0 \in 0 .. N
    BY MasterAssumption DEF MasterAssumption
  <2> QED
    BY <2>4, <2>5, <2>6
<1>3. ASSUME op.scan.at = "Al", r.wkc = 1 PROVE r.data.al \in AlStates
  <2>1. PICK p \in S : r.data \in Data(p, OpRequest)
    BY <1>3, AnswerFacts
  <2>2. p \in Bus
    BY AnswerFacts
  <2>3. OpRequest.reg = "AL_STATUS"
    BY <1>1, <1>3, ScanAsks DEF Read, Datagram
  <2>4. r.data = [al |-> al[p].state, err |-> al[p].err]
    BY <2>1, <2>3 DEF Data
  <2> QED
    BY <2>2, <2>4 DEF Base, TypeOK
<1> QED
  BY <1>1, <1>2, <1>3

\* An exchange of the scan: the list grows by at most one and never past the bus.
LEMMA RescanOut ==
  ASSUME Base, NEW r, NEW S, Exchanged(r, S), op.kind = "Rescan"
  PROVE  OpOut
<1> DEFINE f == op.scan
           g == ScanAfter(f, r)
<1>1. RescanAfter(r)
  BY DEF Exchanged, OpAfter
<1>2. g \in ScanType(ScanSteps \cup Ended) /\ (Completes(f, r) => f.at = "SiiPoll")
  BY RescanAnswer, ScanStep
<1>3. f \in ScanType(ScanSteps) /\ op \in [kind : {"Rescan"}, scan : ScanType(ScanSteps)]
  BY DEF Base, OpTyped
<1>4. slaves' \in Seq(Listed) /\ Len(slaves') <= N
  <2>1. slaves \in Seq(Listed) /\ Len(slaves) <= N /\ N \in Nat
    BY MasterAssumption DEF Base, TypeOK, Listed, MasterAssumption
  <2>2. CASE ~Completes(f, r)
    BY <1>1, <2>1, <2>2 DEF RescanAfter
  <2>3. CASE Completes(f, r)
    <3> DEFINE x == [al |-> f.al, coe |-> r.data = "coe"]
    <3>1. x \in Listed
      BY <1>3 DEF Listed, ScanType
    <3>2. slaves' = Append(slaves, x)
      BY <1>1, <2>3 DEF RescanAfter
    <3>3. Len(slaves) = f.pos /\ f.pos < f.count
      BY <1>2, <2>3 DEF Base, ScanFollowed
    <3>4. f.pos \in Nat /\ f.count \in 0 .. N
      BY <1>3 DEF ScanType
    <3> HIDE DEF x
    <3> QED
      BY <2>1, <3>1, <3>2, <3>3, <3>4
  <2> QED
    BY <2>2, <2>3
<1>5. /\ cyclic' = cyclic /\ pit' = pit /\ cyclic = <<>>
      /\ cyclic' \in {<<>>, [k \in 1 .. N |-> Station(k - 1)]}
  BY <1>1 DEF RescanAfter, Base, EngineInv
<1>6. CASE g.at \in Ended
  <2>1. op' = Idle
    BY <1>1, <1>6 DEF RescanAfter
  <2> QED
    BY <1>4, <1>5, <2>1, IdleTyped DEF OpOut
<1>7. CASE g.at \notin Ended
  <2>1. op' = [op EXCEPT !.scan = g]
    BY <1>1, <1>7 DEF RescanAfter
  <2>2. g \in ScanType(ScanSteps)
    BY <1>2, <1>7 DEF ScanType
  <2> HIDE DEF g
  <2>3. op' \in [kind : {"Rescan"}, scan : ScanType(ScanSteps)] /\ op'.kind = "Rescan"
    BY <1>3, <2>1, <2>2
  <2>4. OpTyped' /\ op'.kind \in Kinds /\ EngineInv'
    BY <1>5, <2>3 DEF OpTyped, EngineInv, Kinds
  <2> QED
    BY <1>4, <1>5, <2>4 DEF OpOut
<1> QED
  BY <1>6, <1>7

\* An exchange of a state change asked for with "states".
LEMMA StateOut ==
  ASSUME Base, NEW r, NEW S, Exchanged(r, S), op.kind = "State"
  PROVE  OpOut
<1> DEFINE g == PreOpAfter(op.pre, r)
<1>1. StateAfter(r)
  BY DEF Exchanged, OpAfter
<1>2. /\ op \in [kind : {"State"}, pos : Bus, target : AlStates, pre : PreOpType(PreOpSteps)]
      /\ PreOpInv(op)
  BY DEF Base, OpTyped
<1>3. op.pre \in PreOpType(PreOpSteps) /\ op.pre.change.at \in ChangeSteps
  <2>1. op.pre \in PreOpType(PreOpSteps) /\ op.pre.at \in PreOpSteps
    BY <1>2 DEF PreOpType
  <2> QED
    BY <1>2, <2>1 DEF PreOpInv, PreOpSteps
<1>4. /\ g \in PreOpType(PreOpSteps \cup Ended)
      /\ g.change.target = op.target
      /\ g.at \notin Ended => g.change.at \in ChangeSteps
  BY <1>2, <1>3, PreOpAfterType DEF PreOpInv
<1>5. slaves \in Seq(Listed) /\ Len(slaves) <= N /\ op.target \in AlStates
  BY <1>2 DEF Base, TypeOK, Listed
<1>6. slaves' \in Seq(Listed) /\ Len(slaves') <= N
  <2>1. slaves' = Tracked({op.pos}, op.target) \/ slaves' = slaves
    BY <1>1 DEF StateAfter
  <2> QED
    BY <1>5, <2>1, TrackedType
<1>7. /\ cyclic' = cyclic /\ pit' = pit /\ cyclic = <<>>
      /\ cyclic' \in {<<>>, [k \in 1 .. N |-> Station(k - 1)]}
  BY <1>1 DEF StateAfter, Base, EngineInv
<1>8. CASE g.at \in Ended
  <2>1. op' = Idle
    BY <1>1, <1>8 DEF StateAfter
  <2> QED
    BY <1>6, <1>7, <2>1, IdleTyped DEF OpOut
<1>9. CASE g.at \notin Ended
  <2>1. op' = [op EXCEPT !.pre = g]
    BY <1>1, <1>9 DEF StateAfter
  <2>2. g \in PreOpType(PreOpSteps)
    BY <1>4, <1>9 DEF PreOpType
  <2> HIDE DEF g
  <2>3. /\ op' \in [kind : {"State"}, pos : Bus, target : AlStates, pre : PreOpType(PreOpSteps)]
        /\ op'.kind = "State" /\ op'.pre = g /\ op'.target = op.target
    BY <1>2, <2>1, <2>2
  <2>4. PreOpInv(op')
    BY <1>4, <1>9, <2>3 DEF PreOpInv
  <2>5. OpTyped' /\ op'.kind \in Kinds /\ EngineInv'
    BY <1>7, <2>3, <2>4 DEF OpTyped, EngineInv, Kinds
  <2> QED
    BY <1>6, <1>7, <2>5 DEF OpOut
<1> QED
  BY <1>8, <1>9

\* An SDO typed by the operator, under way.
SdoType == [kind : {"Sdo"}, pos : Bus, target : AlStates,
            pre : PreOpType(PreOpSteps \cup {"Done"}), coe : TransferType(TransferSteps)]

\* An exchange of an SDO, in its state change or in its transfer.
LEMMA SdoOut ==
  ASSUME Base, NEW r, NEW S, Exchanged(r, S), op.kind = "Sdo"
  PROVE  OpOut
<1>1. op \in SdoType /\ PreOpInv(op)
  BY DEF Base, OpTyped, SdoType
<1>2. slaves \in Seq(Listed) /\ Len(slaves) <= N /\ op.target \in AlStates
  BY <1>1 DEF Base, TypeOK, Listed, SdoType
<1>3. cyclic = <<>>
  BY DEF Base, EngineInv
<1>4. CASE SdoPreAfter(r)
  <2> DEFINE g == PreOpAfter(op.pre, r)
  <2>1. op.pre \in PreOpType(PreOpSteps) /\ op.pre.change.at \in ChangeSteps
    <3>1. op.pre \in PreOpType(PreOpSteps \cup {"Done"}) /\ op.pre.at # "Done"
      BY <1>1, <1>4 DEF SdoPreAfter, SdoType
    <3> QED
      BY <1>1, <3>1 DEF PreOpType, PreOpInv
  <2>2. /\ g \in PreOpType(PreOpSteps \cup Ended)
        /\ g.change.target = op.target
        /\ g.at \notin Ended => g.change.at \in ChangeSteps
    BY <1>1, <2>1, PreOpAfterType DEF PreOpInv
  <2>3. slaves' \in Seq(Listed) /\ Len(slaves') <= N
    <3>1. slaves' = Tracked({op.pos}, op.target) \/ slaves' = slaves
      BY <1>4 DEF SdoPreAfter
    <3> QED
      BY <1>2, <3>1, TrackedType
  <2>4. /\ cyclic' = cyclic /\ pit' = pit
        /\ cyclic' \in {<<>>, [k \in 1 .. N |-> Station(k - 1)]}
    BY <1>3, <1>4 DEF SdoPreAfter
  <2>5. CASE g.at = "Failed"
    <3>1. op' = Idle
      BY <1>4, <2>5 DEF SdoPreAfter
    <3> QED
      BY <2>3, <2>4, <3>1, IdleTyped DEF OpOut
  <2>6. CASE g.at # "Failed"
    <3>1. op' = [op EXCEPT !.pre = g]
      BY <1>4, <2>6 DEF SdoPreAfter
    <3>2. g \in PreOpType(PreOpSteps \cup {"Done"})
      BY <2>2, <2>6 DEF PreOpType, Ended
    <3> HIDE DEF g
    <3>3. op' \in SdoType /\ op'.kind = "Sdo" /\ op'.pre = g /\ op'.target = op.target
      BY <1>1, <3>1, <3>2 DEF SdoType
    <3>4. PreOpInv(op')
      BY <2>2, <2>6, <3>3 DEF PreOpInv, Ended
    <3>5. OpTyped' /\ op'.kind \in Kinds /\ EngineInv'
      BY <1>3, <2>4, <3>3, <3>4 DEF OpTyped, EngineInv, Kinds, SdoType
    <3> QED
      BY <2>3, <2>4, <3>5 DEF OpOut
  <2> QED
    BY <2>5, <2>6
<1>5. CASE SdoCoeAfter(r)
  <2> DEFINE g == TransferAfter(op.coe, r)
  <2>1. g \in TransferType(TransferSteps \cup Ended)
    BY <1>1, TransferAfterType DEF SdoType
  <2>2. /\ slaves' \in Seq(Listed) /\ Len(slaves') <= N /\ cyclic' = cyclic /\ pit' = pit
        /\ cyclic' \in {<<>>, [k \in 1 .. N |-> Station(k - 1)]}
    BY <1>2, <1>3, <1>5 DEF SdoCoeAfter
  <2>3. CASE g.at \in Ended
    <3>1. op' = Idle
      BY <1>5, <2>3 DEF SdoCoeAfter
    <3> QED
      BY <2>2, <3>1, IdleTyped DEF OpOut
  <2>4. CASE g.at \notin Ended
    <3>1. op' = [op EXCEPT !.coe = g]
      BY <1>5, <2>4 DEF SdoCoeAfter
    <3>2. g \in TransferType(TransferSteps)
      BY <2>1, <2>4 DEF TransferType
    <3> HIDE DEF g
    <3>3. op' \in SdoType /\ op'.kind = "Sdo" /\ op'.pre = op.pre /\ op'.target = op.target
      BY <1>1, <3>1, <3>2 DEF SdoType
    <3>4. PreOpInv(op')
      BY <1>1, <3>3 DEF PreOpInv
    <3>5. OpTyped' /\ op'.kind \in Kinds /\ EngineInv'
      BY <1>3, <2>2, <3>3, <3>4 DEF OpTyped, EngineInv, Kinds, SdoType
    <3> QED
      BY <2>2, <3>5 DEF OpOut
  <2> QED
    BY <2>3, <2>4
<1> QED
  BY <1>4, <1>5 DEF Exchanged, OpAfter

\* The configuration of a slave begins at its first datagram.
LEMMA ConfigBegins ==
  ASSUME NEW b \in BOOLEAN, NEW f, f = Config(b)
  PROVE  ConfigInv(f) /\ f.follower = b /\ f.at = "ClearFmmus" /\ f.n = 1
<1>1. "ClearFmmus" \in Phases /\ Place("ClearFmmus") = 1
  <2>1. Order[1] = "ClearFmmus"
    BY DEF Order
  <2> QED
    BY <2>1, Places
<1>2. Work["ClearFmmus"] = 1
  BY <1>1, WorkAssumption DEF WorkAssumption, Optional, CoePhases
<1>3. Change("PREOP") \in ChangeType(ChangeSteps)
      /\ Change("PREOP").at = "WriteControl" /\ Change("PREOP").target = "PREOP"
  BY DEF Change, ChangeType, ChangeSteps, AlStates
<1>4. Transfer \in TransferType(TransferSteps) /\ Transfer.at = "WriteRequest"
  BY DEF Transfer, TransferType, TransferSteps
<1>5. /\ f.at = "ClearFmmus" /\ f.n = 1 /\ f.change = Change("PREOP") /\ f.coe = Transfer
      /\ f.follower = b
  BY DEF Config
<1>6. f \in [at : Phases, n : Nat, follower : BOOLEAN,
             change : ChangeType(ChangeSteps), coe : TransferType(TransferSteps)]
  BY <1>1, <1>3, <1>4, 1 \in Nat DEF Config
<1>7. Length(f) = 1
  BY <1>1, <1>2, <1>5, Lengths
<1> QED
  BY <1>1, <1>3, <1>4, <1>5, <1>6, <1>7 DEF ConfigInv

\* An engine drives the slave at every position.
LEMMA EngineLength ==
  ASSUME cyclic \in {<<>>, [k \in 1 .. N |-> Station(k - 1)]}, cyclic # <<>>
  PROVE  Len(cyclic) = N /\ DOMAIN cyclic = 1 .. N
         /\ \A k \in 1 .. N : cyclic[k] = k
<1>1. N \in Nat
  BY MasterAssumption DEF MasterAssumption
<1>2. cyclic = [k \in 1 .. N |-> Station(k - 1)]
  OBVIOUS
<1>3. \A k \in 1 .. N : Station(k - 1) = k
  BY <1>1 DEF Station
<1> QED
  BY <1>1, <1>2, <1>3

\* A command of the bring-up that goes on leaves the other slaves to be done.
LEMMA StartOut ==
  ASSUME Base, NEW r, NEW S, Exchanged(r, S), op.kind = "Start"
  PROVE  OpOut /\ Len(slaves') = Len(slaves)
<1> DEFINE g == ConfigAfter(op.cfg, r)
<1>1. StartAfter(r)
  BY DEF Exchanged, OpAfter
<1>2. /\ DOMAIN op = {"kind", "pos", "cfg"} /\ op.pos \in Bus
      /\ ConfigInv(op.cfg) /\ op.cfg.follower = Follower(op.pos)
  BY DEF Base, OpTyped
<1>3. slaves \in Seq(Listed) /\ Len(slaves) <= N /\ N \in Nat /\ cyclic = <<>>
  BY MasterAssumption DEF Base, TypeOK, Listed, EngineInv, MasterAssumption
<1>4. pit' = pit
  BY <1>1 DEF StartAfter
<1>5. CASE g.at = "Failed"
  <2>1. op' = Idle /\ slaves' = slaves /\ cyclic' = cyclic
    BY <1>1, <1>5 DEF StartAfter
  <2> QED
    BY <1>3, <1>4, <2>1, IdleTyped DEF OpOut
<1>6. CASE g.at \notin Ended
  <2>1. op' = [op EXCEPT !.cfg = g] /\ slaves' = slaves /\ cyclic' = cyclic
    BY <1>1, <1>6 DEF StartAfter, Ended
  <2>2. ConfigInv(g) /\ g.follower = op.cfg.follower
    <3>1. /\ g.follower = op.cfg.follower
          /\ \/ Stays(op.cfg, g, r)
             \/ On(op.cfg, g) \/ Over(op.cfg, g) \/ Skip(op.cfg, g)
      BY <1>2, <1>6, ConfigStep DEF Ended
    <3> QED
      BY <1>6, <3>1 DEF Stays, On, Over, Skip, Ended
  <2> HIDE DEF g
  <2>3. /\ DOMAIN op' = {"kind", "pos", "cfg"} /\ op'.kind = "Start"
        /\ op'.pos = op.pos /\ op'.cfg = g
    BY <1>2, <2>1
  <2>4. Follower(op.pos)' = Follower(op.pos)
    BY <2>1, <2>3 DEF Follower
  <2>5. OpTyped' /\ op'.kind \in Kinds /\ EngineInv'
    BY <1>2, <1>3, <2>1, <2>2, <2>3, <2>4 DEF OpTyped, Kinds, EngineInv
  <2> QED
    BY <1>3, <1>4, <2>1, <2>5 DEF OpOut
<1>7. CASE g.at = "Done" /\ op.pos + 1 < N
  <2> DEFINE h == Config(Follower(op.pos + 1))
  <2>1. op' = [op EXCEPT !.pos = op.pos + 1, !.cfg = h] /\ slaves' = slaves /\ cyclic' = cyclic
    BY <1>1, <1>7 DEF StartAfter, StartNext
  <2>2. Follower(op.pos + 1) \in BOOLEAN
    BY DEF Follower
  <2>3. ConfigInv(h) /\ h.follower = Follower(op.pos + 1)
    BY <2>2, ConfigBegins
  <2> HIDE DEF h, g
  <2>4. op.pos + 1 \in Bus
    BY <1>2, <1>3, <1>7 DEF Bus
  <2>5. /\ DOMAIN op' = {"kind", "pos", "cfg"} /\ op'.kind = "Start"
        /\ op'.pos = op.pos + 1 /\ op'.cfg = h
    BY <1>2, <2>1
  <2>6. Follower(op.pos)' = Follower(op.pos + 1)
    BY <2>1, <2>5 DEF Follower
  <2>7. OpTyped' /\ op'.kind \in Kinds /\ EngineInv'
    BY <1>3, <2>1, <2>3, <2>4, <2>5, <2>6 DEF OpTyped, Kinds, EngineInv
  <2> QED
    BY <1>3, <1>4, <2>1, <2>7 DEF OpOut
<1>8. CASE g.at = "Done" /\ ~(op.pos + 1 < N)
  <2>1. /\ op' = [kind |-> "Launch"] /\ slaves' = Tracked(Bus, "SAFEOP")
        /\ cyclic' = [k \in 1 .. N |-> Station(k - 1)]
    BY <1>1, <1>8 DEF StartAfter, StartNext
  <2>2. "SAFEOP" \in AlStates
    BY DEF AlStates
  <2>3. slaves' \in Seq(Listed) /\ Len(slaves') = Len(slaves)
    BY <1>3, <2>1, <2>2, TrackedType
  <2>4. OpTyped' /\ op'.kind \in Kinds /\ EngineInv'
    BY <2>1 DEF OpTyped, Kinds, EngineInv
  <2> QED
    BY <1>3, <1>4, <2>1, <2>3, <2>4 DEF OpOut
<1> QED
  BY <1>5, <1>6, <1>7, <1>8 DEF Ended

\* A state change begins with AL control.
LEMMA ChangeBegins ==
  ASSUME NEW target \in AlStates
  PROVE  /\ Change(target) \in ChangeType(ChangeSteps)
         /\ Change(target).target = target /\ Change(target).at = "WriteControl"
  BY 0 \in Nat DEF Change, ChangeType, ChangeSteps

\* A "stop" under way.
StopType == [kind : {"Stop"}, idx : 1 .. N, change : ChangeType(ChangeSteps)]

\* An exchange of "stop": the engine goes only with the last slave.
LEMMA StopOut ==
  ASSUME Base, NEW r, NEW S, Exchanged(r, S), op.kind = "Stop"
  PROVE  OpOut
<1> DEFINE g == ChangeAfter(op.change, r)
<1>1. StopAfter(r)
  BY DEF Exchanged, OpAfter
<1>2. op \in StopType /\ op.change.target = "PREOP"
  BY DEF Base, OpTyped, StopType
<1>3. /\ slaves \in Seq(Listed) /\ Len(slaves) <= N /\ N \in Nat
      /\ cyclic \in {<<>>, [k \in 1 .. N |-> Station(k - 1)]}
  BY MasterAssumption DEF Base, TypeOK, Listed, MasterAssumption
<1>4. cyclic # <<>>
  BY DEF Exchanged, Waiting
<1>5. Len(cyclic) = N /\ "PREOP" \in AlStates
  BY <1>3, <1>4, EngineLength DEF AlStates
<1>6. /\ slaves' \in Seq(Listed) /\ Len(slaves') <= N /\ pit' = pit
  <2>1. \/ slaves' = Tracked({cyclic[op.idx] - 1}, "PREOP")
        \/ slaves' = slaves
    BY <1>1 DEF StopAfter
  <2>2. pit' = pit
    BY <1>1 DEF StopAfter
  <2> QED
    BY <1>3, <1>5, <2>1, <2>2, TrackedType
<1>7. g \in ChangeType(ChangeSteps \cup Ended) /\ g.target = "PREOP"
  BY <1>2, ChangeAfterType DEF StopType
<1>8. CASE g.at \notin Ended
  <2>1. op' = [op EXCEPT !.change = g] /\ cyclic' = cyclic
    BY <1>1, <1>8 DEF StopAfter
  <2>2. g \in ChangeType(ChangeSteps)
    BY <1>7, <1>8 DEF ChangeType
  <2> HIDE DEF g
  <2>3. op' \in StopType /\ op'.kind = "Stop" /\ op'.change = g
    BY <1>2, <2>1, <2>2 DEF StopType
  <2>4. OpTyped' /\ op'.kind \in Kinds /\ EngineInv'
    BY <1>7, <2>3 DEF OpTyped, Kinds, EngineInv, StopType
  <2> QED
    BY <1>3, <1>6, <2>1, <2>4 DEF OpOut
<1>9. CASE g.at \in Ended /\ op.idx < Len(cyclic)
  <2> DEFINE h == Change("PREOP")
  <2>1. op' = [op EXCEPT !.idx = op.idx + 1, !.change = h] /\ cyclic' = cyclic
    BY <1>1, <1>9 DEF StopAfter
  <2>2. h \in ChangeType(ChangeSteps) /\ h.target = "PREOP"
    BY <1>5, ChangeBegins
  <2> HIDE DEF g, h
  <2>3. PICK n \in 1 .. N : n = op.idx + 1
    BY <1>2, <1>3, <1>5, <1>9 DEF StopType
  <2>4. op' \in StopType /\ op'.kind = "Stop" /\ op'.change = h
    <3>1. op' = [[op EXCEPT !.idx = n] EXCEPT !.change = h]
      BY <2>1, <2>3
    <3> QED
      BY <1>2, <2>2, <2>3, <3>1 DEF StopType
  <2>5. OpTyped' /\ op'.kind \in Kinds /\ EngineInv'
    BY <2>2, <2>4 DEF OpTyped, Kinds, EngineInv, StopType
  <2> QED
    BY <1>3, <1>6, <2>1, <2>5 DEF OpOut
<1>10. CASE g.at \in Ended /\ ~(op.idx < Len(cyclic))
  <2>1. op' = Idle /\ cyclic' = <<>>
    BY <1>1, <1>10 DEF StopAfter
  <2> QED
    BY <1>6, <2>1, IdleTyped DEF OpOut
<1> QED
  BY <1>8, <1>9, <1>10

\* The slave an operation on one slave is about.
Subject == IF op.kind = "Stop" THEN op.idx - 1 ELSE op.pos

\* What an operation on one slave may ask: that slave alone, by its station address,
\* except where the clock bring-up latches or reads the reference clock.
AskedOfOne(dg) ==
  /\ dg.reg \in {"AL_CONTROL", "AL_STATUS", "AL_STATUS_CODE", "RX_MBOX", "SM1_STATUS",
                 "TX_MBOX", "CONFIG", "DC_RECV_TIME", "DC_TIMES"}
  /\ dg.reg \notin {"DC_RECV_TIME", "DC_TIMES"} =>
       dg.to = {Station(Subject)} /\ dg.cmd \in {"FPRD", "FPWR"}
  /\ dg.reg = "AL_CONTROL" => dg.val.state \in AlStates

\* All datagrams of an operation other than the scan are for its slave.
LEMMA SubjectAsked ==
  ASSUME Base, Waiting, op.kind # "Rescan"
  PROVE  Subject \in Bus /\ AskedOfOne(OpRequest)
<1> DEFINE s == Station(Subject)
<1>1. ASSUME NEW c \in ChangeType(ChangeSteps) PROVE AskedOfOne(ChangeRequest(c, s))
  <2>1. c.target \in AlStates /\ c.at \in ChangeSteps
    BY DEF ChangeType
  <2> DEFINE dg == ChangeRequest(c, s)
  <2>2. /\ dg.to = {s} /\ dg.cmd \in {"FPRD", "FPWR"}
        /\ dg.reg \in {"AL_CONTROL", "AL_STATUS", "AL_STATUS_CODE"}
    BY ChangeAsks
  <2>3. dg.reg = "AL_CONTROL" => dg.val.state = c.target
    BY <2>1 DEF ChangeSteps, ChangeRequest, Write, Read, Datagram
  <2> HIDE DEF dg
  <2> QED
    BY <2>1, <2>2, <2>3 DEF AskedOfOne, dg
<1>2. ASSUME NEW t \in TransferType(TransferSteps), NEW what
      PROVE  AskedOfOne(TransferRequest(t, s, what))
  <2>1. t.at \in TransferSteps
    BY DEF TransferType
  <2> QED
    BY <2>1, TransferAsks DEF AskedOfOne, TransferSteps, Write, Read, Datagram
<1>3. ASSUME NEW v PROVE AskedOfOne(Write(s, "CONFIG", v))
  BY DEF AskedOfOne, Write, Datagram
<1>4. ASSUME NEW p \in PreOpType(PreOpSteps), p.change.at \in ChangeSteps
      PROVE  AskedOfOne(PreOpRequest(p, s))
  <2>1. p.at \in PreOpSteps
    BY DEF PreOpType
  <2>2. p.change \in ChangeType(ChangeSteps)
    BY <1>4 DEF PreOpType, ChangeType
  <2> HIDE DEF s
  <2> QED
    BY <1>1, <1>3, <2>1, <2>2, PreOpAsks DEF PreOpSteps
<1>5. CASE op.kind = "State"
  <2>1. op.pos \in Bus /\ op.pre \in PreOpType(PreOpSteps) /\ PreOpInv(op)
    BY <1>5 DEF Base, OpTyped
  <2>2. op.pre.at \in PreOpSteps
    BY <2>1 DEF PreOpType
  <2>3. op.pre.change.at \in ChangeSteps
    BY <2>1, <2>2 DEF PreOpInv, PreOpSteps
  <2>4. OpRequest = PreOpRequest(op.pre, s) /\ Subject = op.pos
    BY <1>5 DEF OpRequest, Subject
  <2> QED
    BY <1>4, <2>1, <2>3, <2>4
<1>6. CASE op.kind = "Sdo"
  <2>1. op.pos \in Bus /\ op.pre \in PreOpType(PreOpSteps \cup {"Done"}) /\ PreOpInv(op)
        /\ op.coe \in TransferType(TransferSteps)
    BY <1>6 DEF Base, OpTyped
  <2>2. Subject = op.pos
    BY <1>6 DEF Subject
  <2>3. CASE op.pre.at = "Done"
    <3>1. OpRequest = TransferRequest(op.coe, s, UserSdo)
      BY <1>6, <2>2, <2>3 DEF OpRequest
    <3> QED
      BY <1>2, <2>1, <2>2, <3>1
  <2>4. CASE op.pre.at # "Done"
    <3>1. op.pre \in PreOpType(PreOpSteps)
      BY <2>1, <2>4 DEF PreOpType
    <3>2. op.pre.change.at \in ChangeSteps
      BY <2>1, <2>4 DEF PreOpInv
    <3>3. OpRequest = PreOpRequest(op.pre, s)
      BY <1>6, <2>2, <2>4 DEF OpRequest
    <3> QED
      BY <1>4, <2>1, <2>2, <3>1, <3>2, <3>3
  <2> QED
    BY <2>3, <2>4
<1>7. CASE op.kind = "Start"
  <2>1. op.pos \in Bus /\ ConfigInv(op.cfg)
    BY <1>7 DEF Base, OpTyped
  <2>2. Subject = op.pos /\ OpRequest = ConfigRequest(op.cfg, s, Station(RefSlave))
    BY <1>7 DEF Subject, OpRequest
  <2> DEFINE f == op.cfg
             ref == Station(RefSlave)
  <2>3. /\ f.at \in Phases /\ f.change \in ChangeType(ChangeSteps)
        /\ f.coe \in TransferType(TransferSteps)
    BY <2>1 DEF ConfigInv
  <2> HIDE DEF f, s, ref
  <2>4. ConfigInv(f) /\ OpRequest = ConfigRequest(f, s, ref)
    BY <2>1, <2>2 DEF f, ref
  <2>5. ASSUME f.at \in Changes PROVE AskedOfOne(OpRequest)
    BY <1>1, <2>3, <2>4, <2>5, ConfigAsks
  <2>6. ASSUME f.at \in CoePhases PROVE AskedOfOne(OpRequest)
    BY <1>2, <2>3, <2>4, <2>6, ConfigAsks
  <2>7. ASSUME f.at \in Configured PROVE AskedOfOne(OpRequest)
    BY <1>3, <2>3, <2>4, <2>7, ConfigAsks
  <2>8. ASSUME f.at = "DcCycle" PROVE AskedOfOne(OpRequest)
    <3> DEFINE step == DcPath(f.follower)[f.n]
    <3>1. OpRequest = DcRequest(step, s, ref)
      BY <2>4, <2>8, ConfigAsks
    <3> HIDE DEF step
    <3>2. \/ OpRequest.cmd = "BWR" /\ OpRequest.reg = "DC_RECV_TIME"
          \/ OpRequest.cmd = "FPRD" /\ OpRequest.reg = "DC_TIMES"
          \/ OpRequest = Write(s, "CONFIG", <<step, 1>>)
      BY <3>1, DcAsks
    <3>3. OpRequest.reg \in {"DC_RECV_TIME", "DC_TIMES"} => AskedOfOne(OpRequest)
      BY DEF AskedOfOne
    <3> QED
      BY <1>3, <3>2, <3>3
  <2>9. AskedOfOne(OpRequest)
    BY <2>3, <2>5, <2>6, <2>7, <2>8 DEF Configured
  <2> QED
    BY <2>1, <2>2, <2>9
<1>8. CASE op.kind = "Stop"
  <2>1. op.idx \in 1 .. N /\ op.change \in ChangeType(ChangeSteps)
    BY <1>8 DEF Base, OpTyped
  <2>2. cyclic # <<>> /\ cyclic \in {<<>>, [k \in 1 .. N |-> Station(k - 1)]}
    BY <1>8 DEF Waiting, Base, TypeOK
  <2>3. cyclic[op.idx] = op.idx
    BY <2>1, <2>2, EngineLength
  <2>4. N \in Nat
    BY MasterAssumption DEF MasterAssumption
  <2>5. Subject \in Bus /\ Station(Subject) = op.idx
    BY <1>8, <2>1, <2>4 DEF Subject, Bus, Station
  <2>6. OpRequest = ChangeRequest(op.change, s)
    BY <1>8, <2>3, <2>5 DEF OpRequest
  <2> QED
    BY <1>1, <2>1, <2>5, <2>6
<1> QED
  BY <1>5, <1>6, <1>7, <1>8 DEF Waiting

\* What the bus is after an exchange.
LEMMA BusAfter ==
  ASSUME Base, NEW r, NEW S, Exchanged(r, S)
  PROVE  /\ al' \in [Bus -> [state : AlStates, err : BOOLEAN]]
         /\ \A p \in Bus : al'[p].state = al[p].state
         /\ request' \in [Bus -> AlStates]
         /\ inbox' \in [Bus -> Letters] /\ outbox' \in [Bus -> Letters]
         /\ lapsed' \in SUBSET lapsed /\ lapsed' \subseteq Bus
         /\ reach' = reach
<1> DEFINE dg == OpRequest
<1>1. /\ al \in [Bus -> [state : AlStates, err : BOOLEAN]] /\ request \in [Bus -> AlStates]
      /\ inbox \in [Bus -> Letters] /\ outbox \in [Bus -> Letters] /\ lapsed \subseteq Bus
  BY DEF Base, TypeOK
<1>2. dg.reg = "AL_CONTROL" => dg.val.state \in AlStates
  <2>1. CASE op.kind = "Rescan"
    <3>1. op.scan \in ScanType(ScanSteps) /\ OpRequest = ScanRequest(op.scan)
      BY <2>1, RescanAnswer
    <3>2. op.scan.at \in ScanSteps
      BY <3>1 DEF ScanType
    <3> QED
      BY <3>1, <3>2, ScanAsks DEF ScanSteps, Write, Read, Datagram
  <2>2. CASE op.kind # "Rescan"
    BY <2>2, SubjectAsked DEF Exchanged, AskedOfOne
  <2> QED
    BY <2>1, <2>2
<1>3. Executed(dg, S) /\ Recorded(dg, S)
  BY DEF Exchanged
<1>4. reach' = reach
  BY <1>3 DEF Executed
<1>5. request' \in [Bus -> AlStates]
  <2>1. PICK H : request' = IF dg.reg = "AL_CONTROL" /\ dg.cmd \in {"BWR", "APWR", "FPWR"}
                            THEN Written(request, H, dg.val.state) ELSE request
    BY <1>3 DEF Executed
  <2> HIDE DEF dg
  <2> QED
    BY <1>1, <1>2, <2>1 DEF Written
<1>6. /\ al' \in [Bus -> [state : AlStates, err : BOOLEAN]]
      /\ \A p \in Bus : al'[p].state = al[p].state
  <2>1. PICK H : al' = [p \in Bus |-> [al[p] EXCEPT !.err = @ /\ p \notin H]]
    BY <1>3 DEF Executed
  <2> HIDE DEF dg
  <2>2. ASSUME NEW p \in Bus
        PROVE  /\ al'[p] \in [state : AlStates, err : BOOLEAN] /\ al'[p].state = al[p].state
    <3>1. al'[p] = [al[p] EXCEPT !.err = al[p].err /\ p \notin H]
      BY <2>1
    <3>2. al[p] \in [state : AlStates, err : BOOLEAN]
      BY <1>1
    <3> QED
      BY <3>1, <3>2
  <2> QED
    BY <2>1, <2>2
<1>7. ASSUME NEW box \in [Bus -> Letters] PROVE Aged(box) \in [Bus -> Letters]
  BY DEF Aged, Letters
<1>8. inbox' \in [Bus -> Letters]
  <2>1. PICK A, B : \/ inbox' = Aged(Written(inbox, A, "own"))
                    \/ inbox' = Aged(Written(inbox, B, "late"))
                    \/ inbox' = Aged(inbox)
    BY <1>3 DEF Executed
  <2>2. /\ Written(inbox, A, "own") \in [Bus -> Letters]
        /\ Written(inbox, B, "late") \in [Bus -> Letters]
    BY <1>1 DEF Written, Letters
  <2> QED
    BY <1>1, <1>7, <2>1, <2>2
<1>9. outbox' \in [Bus -> Letters]
  <2>1. \/ outbox' = Aged(Written(outbox, S, "none"))
        \/ outbox' = Aged(outbox)
    BY <1>3 DEF Executed
  <2>2. Written(outbox, S, "none") \in [Bus -> Letters]
    BY <1>1 DEF Written, Letters
  <2> QED
    BY <1>1, <1>7, <2>1, <2>2
<1>10. lapsed' \in SUBSET lapsed /\ lapsed' \subseteq Bus
  <2>1. lapsed' = lapsed \ S \/ lapsed' = lapsed
    BY <1>3 DEF Recorded
  <2> QED
    BY <1>1, <2>1
<1> QED
  BY <1>4, <1>5, <1>6, <1>8, <1>9, <1>10

\* A slave with the address of its position, unless it lost power since it was given.
Addressed(p) == station[p] = Station(p) \/ p \in lapsed

\* Addresses are changed by the scan alone, which clears them all first and then gives
\* every slave its own: a slave that is addressed stays so but for the clear.
LEMMA StationAfter ==
  ASSUME Base, NEW r, NEW S, Exchanged(r, S)
  PROVE  /\ station' \in [Bus -> 0 .. N] /\ StationOwn'
         /\ ~(op.kind = "Rescan" /\ op.scan.at = "Clear") =>
              \A p \in Bus : Addressed(p) => Addressed(p)'
         /\ op.kind # "Rescan" => station' = station
         /\ op.kind = "Rescan" /\ op.scan.at = "Apwr" /\ r.wkc = 1 =>
              op.scan.pos \in Bus /\ \A p \in Bus : p = op.scan.pos => Addressed(p)'
<1> DEFINE dg == OpRequest
<1>1. Executed(dg, S) /\ Recorded(dg, S)
  BY DEF Exchanged
<1>2. station \in [Bus -> 0 .. N] /\ StationOwn /\ N \in Nat
  BY MasterAssumption DEF Base, TypeOK, MasterAssumption
<1>3. S \in SUBSET Bus /\ S \subseteq Takers(dg)
  BY AnswerFacts
<1>4. CASE op.kind # "Rescan"
  <2>1. Subject \in Bus /\ AskedOfOne(dg)
    BY <1>4, SubjectAsked DEF Exchanged
  <2>2. dg.reg # "STATION_ADDR"
    BY <2>1 DEF AskedOfOne
  <2>3. station' = station
    BY <1>1, <2>2 DEF Executed
  <2>4. lapsed' = lapsed \/ (dg.reg = "CONFIG" /\ lapsed' = lapsed \ S)
    BY <1>1, <2>2 DEF Recorded
  <2>5. ASSUME NEW p \in Bus, Addressed(p) PROVE Addressed(p)'
    <3>1. CASE lapsed' = lapsed
      BY <2>3, <2>5, <3>1 DEF Addressed
    <3>2. CASE dg.reg = "CONFIG" /\ lapsed' = lapsed \ S
      <4>1. dg.to = {Station(Subject)} /\ dg.cmd \in {"FPRD", "FPWR"} /\ Subject \in Nat
        BY <2>1, <3>2 DEF AskedOfOne, Bus
      <4>2. \A q \in S : q = Subject /\ station[q] = Station(Subject)
        BY <1>2, <4>1, Taken
      <4> QED
        BY <2>3, <2>5, <3>2, <4>2 DEF Addressed
    <3> QED
      BY <2>4, <3>1, <3>2
  <2>6. StationOwn'
    BY <1>2, <2>3 DEF StationOwn
  <2> QED
    BY <1>2, <1>4, <2>3, <2>5, <2>6
<1>5. CASE op.kind = "Rescan"
  <2> DEFINE f == op.scan
  <2>1. f \in ScanType(ScanSteps) /\ dg = ScanRequest(f)
    BY <1>5, RescanAnswer
  <2>2. f.at \in ScanSteps /\ f.count \in 0 .. N /\ f.pos \in Nat
    BY <2>1 DEF ScanType
  <2>3. CASE f.at \notin {"Clear", "Apwr"}
    <3>1. dg.reg \notin {"STATION_ADDR", "CONFIG"}
      BY <2>1, <2>2, <2>3, ScanAsks DEF ScanSteps, Read, Write, Datagram
    <3>2. station' = station /\ lapsed' = lapsed
      BY <1>1, <3>1 DEF Executed, Recorded
    <3>3. StationOwn' /\ \A p \in Bus : Addressed(p) => Addressed(p)'
      BY <1>2, <3>2 DEF StationOwn, Addressed
    <3> QED
      BY <1>2, <1>5, <2>3, <3>2, <3>3
  <2>4. CASE f.at = "Clear"
    <3>1. dg = Datagram("BWR", {}, "STATION_ADDR", 0)
      BY <2>1, <2>4, ScanAsks
    <3>2. dg.cmd = "BWR" /\ dg.reg = "STATION_ADDR" /\ dg.val = 0
      BY <3>1 DEF Datagram
    <3>3. station' = Written(station, S, 0)
      BY <1>1, <3>2 DEF Executed
    <3>4. station' \in [Bus -> 0 .. N] /\ StationOwn'
      BY <1>2, <3>3 DEF StationOwn, Written
    <3> QED
      BY <1>5, <2>4, <3>4
  <2>5. CASE f.at = "Apwr"
    <3>1. dg = Datagram("APWR", {f.pos}, "STATION_ADDR", Station(f.pos))
      BY <2>1, <2>5, ScanAsks
    <3>2. /\ dg.cmd = "APWR" /\ dg.reg = "STATION_ADDR" /\ dg.val = Station(f.pos)
          /\ dg.to = {f.pos}
      BY <3>1 DEF Datagram
    <3>3. station' = Written(station, S, Station(f.pos)) /\ lapsed' = lapsed \ S
      <4>1. station' = Written(station, S, dg.val)
        BY <1>1, <3>2 DEF Executed
      <4>2. lapsed' = lapsed \ S
        BY <1>1, <3>2 DEF Recorded
      <4> QED
        BY <3>2, <4>1, <4>2
    <3>4. \A q \in S : q = f.pos
      <4> SUFFICES ASSUME NEW q \in S PROVE q = f.pos
        OBVIOUS
      <4>1. Takes(q, dg)
        BY <1>3 DEF Takers
      <4> QED
        BY <3>2, <4>1 DEF Takes
    <3>5. f.pos < f.count
      BY <1>5, <2>5 DEF Base, ScanFollowed
    <3>6. f.pos \in Bus
      BY <1>2, <2>2, <3>5 DEF Bus
    <3>7. Station(f.pos) \in 0 .. N
      BY <1>2, <3>6 DEF Station, Bus
    <3>8. station' \in [Bus -> 0 .. N] /\ StationOwn'
      BY <1>2, <3>3, <3>4, <3>7 DEF StationOwn, Written
    <3>9. \A p \in Bus : Addressed(p) => Addressed(p)'
      BY <3>3, <3>4 DEF Addressed, Written
    <3>10. r.wkc = 1 => \A p \in Bus : p = f.pos => Addressed(p)'
      <4>1. r.wkc # 0 => \E q \in S : r.data \in Data(q, dg)
        BY AnswerFacts
      <4>2. r.wkc = 1 => f.pos \in S
        BY <3>4, <4>1
      <4>3. f.pos \in S => station'[f.pos] = Station(f.pos)
        BY <3>3, <3>6 DEF Written
      <4> QED
        BY <4>2, <4>3 DEF Addressed
    <3> QED
      BY <1>5, <2>5, <3>6, <3>8, <3>9, <3>10
  <2> QED
    BY <2>3, <2>4, <2>5
<1> QED
  BY <1>4, <1>5

\* No operation but the scan changes which slaves are listed.
LEMMA ListKept ==
  ASSUME Base, NEW r, NEW S, Exchanged(r, S), op.kind # "Rescan"
  PROVE  DOMAIN slaves' = DOMAIN slaves
<1>1. slaves \in Seq(Listed) /\ "SAFEOP" \in AlStates /\ "PREOP" \in AlStates
  BY DEF Base, TypeOK, Listed, AlStates
<1>2. \/ slaves' = slaves
      \/ \E A, target : slaves' = Tracked(A, target)
  <2>1. CASE StateAfter(r)
    BY <2>1 DEF StateAfter
  <2>2. CASE SdoPreAfter(r)
    BY <2>2 DEF SdoPreAfter
  <2>3. CASE SdoCoeAfter(r)
    BY <2>3 DEF SdoCoeAfter
  <2>4. CASE StartAfter(r)
    BY <2>4 DEF StartAfter, StartNext
  <2>5. CASE StopAfter(r)
    BY <2>5 DEF StopAfter
  <2> QED
    BY <2>1, <2>2, <2>3, <2>4, <2>5 DEF Exchanged, OpAfter
<1> QED
  BY <1>1, <1>2 DEF Tracked

\* An operation goes on as it is, or ends, or is a launch.
LEMMA KindKept ==
  ASSUME Base, NEW r, OpAfter(r)
  PROVE  op'.kind \in {op.kind, "none", "Launch"}
<1>1. "kind" \in DOMAIN op
  BY DEF Base, UserInv
<1>2. \/ op' \in {Idle, [kind |-> "Launch"]}
      \/ \E x : \/ op' = [op EXCEPT !.scan = x]
                \/ op' = [op EXCEPT !.pre = x]
                \/ op' = [op EXCEPT !.coe = x]
                \/ op' = [op EXCEPT !.cfg = x]
                \/ op' = [op EXCEPT !.change = x]
      \/ \E x, y : \/ op' = [op EXCEPT !.pos = x, !.cfg = y]
                   \/ op' = [op EXCEPT !.idx = x, !.change = y]
  <2>1. CASE RescanAfter(r) \/ StateAfter(r) \/ SdoPreAfter(r) \/ SdoCoeAfter(r)
    BY <2>1 DEF RescanAfter, StateAfter, SdoPreAfter, SdoCoeAfter
  <2>2. CASE StartAfter(r)
    BY <2>2 DEF StartAfter, StartNext
  <2>3. CASE StopAfter(r)
    BY <2>3 DEF StopAfter
  <2> QED
    BY <2>1, <2>2, <2>3 DEF OpAfter
<1>3. CASE op' \in {Idle, [kind |-> "Launch"]}
  BY <1>3 DEF Idle
<1>4. CASE \E x : \/ op' = [op EXCEPT !.scan = x]
                 \/ op' = [op EXCEPT !.pre = x]
                 \/ op' = [op EXCEPT !.coe = x]
                 \/ op' = [op EXCEPT !.cfg = x]
                 \/ op' = [op EXCEPT !.change = x]
  BY <1>1, <1>4
<1>5. CASE \E x, y : \/ op' = [op EXCEPT !.pos = x, !.cfg = y]
                    \/ op' = [op EXCEPT !.idx = x, !.change = y]
  <2>1. ASSUME NEW x, NEW y, op' = [op EXCEPT !.pos = x, !.cfg = y]
        PROVE  op'.kind = op.kind
    <3>1. PICK a : a = [op EXCEPT !.pos = x]
      OBVIOUS
    <3>2. op' = [a EXCEPT !.cfg = y] /\ "kind" \in DOMAIN a /\ a.kind = op.kind
      BY <1>1, <2>1, <3>1
    <3> QED
      BY <3>2
  <2>2. ASSUME NEW x, NEW y, op' = [op EXCEPT !.idx = x, !.change = y]
        PROVE  op'.kind = op.kind
    <3>1. PICK a : a = [op EXCEPT !.idx = x]
      OBVIOUS
    <3>2. op' = [a EXCEPT !.change = y] /\ "kind" \in DOMAIN a /\ a.kind = op.kind
      BY <1>1, <2>2, <3>1
    <3> QED
      BY <3>2
  <2> QED
    BY <1>5, <2>1, <2>2
<1> QED
  BY <1>2, <1>3, <1>4, <1>5

\* An exchange of any operation keeps operation, list and engine well-formed.
LEMMA ReplyOut ==
  ASSUME Base, NEW r, NEW S, Exchanged(r, S)
  PROVE  OpOut
  BY RescanOut, StateOut, SdoOut, StartOut, StopOut DEF Exchanged, Waiting

\* The scan lists a slave only past its address write, which that slave has confirmed;
\* when it clears the addresses, the list is empty.
LEMMA RescanList ==
  ASSUME Base, NEW r, NEW S, Exchanged(r, S), op.kind = "Rescan"
  PROVE  ScanFollowed' /\ ListedIsAddressed'
<1> DEFINE f == op.scan
           g == ScanAfter(f, r)
<1>1. RescanAfter(r)
  BY DEF Exchanged, OpAfter
<1>2. /\ f \in ScanType(ScanSteps) /\ op \in [kind : {"Rescan"}, scan : ScanType(ScanSteps)]
      /\ slaves \in Seq(Listed) /\ N \in Nat
  BY MasterAssumption DEF Base, OpTyped, TypeOK, Listed, MasterAssumption
<1>3. f.at \in ScanSteps /\ f.pos \in Nat /\ f.count \in 0 .. N
  BY <1>2 DEF ScanType
<1>4. /\ \/ g.at \in Ended
         \/ /\ f.at = "Count" /\ g.at = "Clear" /\ g.count > 0
            /\ ~Completes(f, r)
         \/ /\ f.at = "Clear" /\ g.at = "Apwr" /\ g.pos = 0 /\ g.count = f.count
            /\ ~Completes(f, r)
         \/ /\ f.at = "Apwr" /\ g.at = "Al" /\ g.pos = f.pos /\ g.count = f.count
            /\ r.wkc = 1 /\ ~Completes(f, r)
         \/ /\ f.at \in {"Al", "Dl", "SiiCommand", "SiiPoll"}
            /\ g.at \in {"Dl", "SiiCommand", "SiiPoll"}
            /\ g.pos = f.pos /\ g.count = f.count /\ ~Completes(f, r)
         \/ /\ Completes(f, r) /\ g.at = "Apwr" /\ g.pos = f.pos + 1
            /\ g.pos < f.count /\ g.count = f.count
      /\ Completes(f, r) => f.at = "SiiPoll"
  BY RescanAnswer, ScanStep
<1>5. /\ f.at \in {"Count", "Clear"} => slaves = <<>>
      /\ f.at = "Clear" => f.count > 0
      /\ f.at \notin {"Count", "Clear"} => Len(slaves) = f.pos /\ f.pos < f.count
      /\ f.at \notin {"Count", "Clear", "Apwr"} => Addressed(f.pos)
  BY DEF Base, ScanFollowed, Addressed
<1>6. /\ f.at # "Clear" => \A p \in Bus : Addressed(p) => Addressed(p)'
      /\ f.at = "Apwr" /\ r.wkc = 1 => \A p \in Bus : p = f.pos => Addressed(p)'
  BY StationAfter
<1>7. \A k \in DOMAIN slaves : k - 1 \in Bus /\ Addressed(k - 1)
  BY DEF Base, ListedIsAddressed, Addressed
<1>8. f.at \notin {"Count", "Clear"} => f.pos \in Bus
  BY <1>2, <1>3, <1>5 DEF Bus
<1>9. ~Completes(f, r) => slaves' = slaves
  BY <1>1 DEF RescanAfter
<1>10. Completes(f, r) => \E x : slaves' = Append(slaves, x)
  BY <1>1 DEF RescanAfter
<1>11. \A k \in DOMAIN slaves : Addressed(k - 1)'
  <2>1. CASE f.at = "Clear"
    BY <1>5, <2>1
  <2>2. CASE f.at # "Clear"
    BY <1>6, <1>7, <2>2
  <2> QED
    BY <2>1, <2>2
<1>12. f.at \notin {"Count", "Clear", "Apwr"} => \A p \in Bus : p = f.pos => Addressed(p)'
  BY <1>5, <1>6, <1>8
<1> HIDE DEF g
<1>13. ListedIsAddressed'
  <2>1. CASE ~Completes(f, r)
    <3>1. \A k \in DOMAIN slaves' : k - 1 \in Bus /\ Addressed(k - 1)'
      BY <1>7, <1>9, <1>11, <2>1
    <3> QED
      BY <3>1 DEF ListedIsAddressed, Addressed
  <2>2. CASE Completes(f, r)
    <3>1. f.at = "SiiPoll" /\ Len(slaves) = f.pos
      BY <1>4, <1>5, <2>2
    <3>2. f.pos \in Bus /\ \A p \in Bus : p = f.pos => Addressed(p)'
      BY <1>8, <1>12, <3>1
    <3>3. ASSUME NEW k \in DOMAIN slaves' PROVE k \in DOMAIN slaves \/ k - 1 = f.pos
      <4>1. PICK x : slaves' = Append(slaves, x)
        BY <1>10, <2>2
      <4>2. DOMAIN slaves = 1 .. Len(slaves) /\ DOMAIN slaves' = 1 .. Len(slaves) + 1
        BY <1>2, <4>1
      <4> QED
        BY <1>3, <3>1, <4>2
    <3>4. \A k \in DOMAIN slaves' : k - 1 \in Bus /\ Addressed(k - 1)'
      BY <1>7, <1>11, <3>2, <3>3
    <3> QED
      BY <3>4 DEF ListedIsAddressed, Addressed
  <2> QED
    BY <2>1, <2>2
<1>14. ScanFollowed'
  <2>1. CASE g.at \in Ended
    <3>1. op' = Idle
      BY <1>1, <2>1 DEF RescanAfter, g
    <3> QED
      BY <3>1 DEF Idle, ScanFollowed
  <2>2. ASSUME g.at \notin Ended PROVE ScanFollowed'
    <3>1. op' = [op EXCEPT !.scan = g]
      BY <1>1, <2>2 DEF RescanAfter, g
    <3>2. op'.scan = g
      BY <1>2, <3>1
    <3>3. /\ g.at \in {"Count", "Clear"} => slaves' = <<>>
          /\ g.at = "Clear" => g.count > 0
          /\ g.at \notin {"Count", "Clear"} => Len(slaves') = g.pos /\ g.pos < g.count
          /\ g.at \notin {"Count", "Clear", "Apwr"} =>
               g.pos \in Bus /\ \A p \in Bus : p = g.pos => Addressed(p)'
      <4>1. CASE f.at = "Count" /\ g.at = "Clear" /\ g.count > 0 /\ ~Completes(f, r)
        BY <1>5, <1>9, <4>1
      <4>2. CASE /\ f.at = "Clear" /\ g.at = "Apwr" /\ g.pos = 0 /\ g.count = f.count
                 /\ ~Completes(f, r)
        BY <1>5, <1>9, <4>2
      <4>3. CASE /\ f.at = "Apwr" /\ g.at = "Al" /\ g.pos = f.pos /\ g.count = f.count
                 /\ r.wkc = 1 /\ ~Completes(f, r)
        BY <1>5, <1>6, <1>8, <1>9, <4>3
      <4>4. CASE /\ f.at \in {"Al", "Dl", "SiiCommand", "SiiPoll"}
                 /\ g.at \in {"Dl", "SiiCommand", "SiiPoll"}
                 /\ g.pos = f.pos /\ g.count = f.count /\ ~Completes(f, r)
        BY <1>5, <1>8, <1>9, <1>12, <4>4
      <4>5. CASE /\ Completes(f, r) /\ g.at = "Apwr" /\ g.pos = f.pos + 1
                 /\ g.pos < f.count /\ g.count = f.count
        <5>1. Len(slaves) = f.pos
          BY <1>4, <1>5, <4>5
        <5>2. Len(slaves') = f.pos + 1
          BY <1>2, <1>10, <4>5, <5>1
        <5> QED
          BY <4>5, <5>2
      <4> QED
        BY <1>4, <2>2, <4>1, <4>2, <4>3, <4>4, <4>5 DEF g
    <3> QED
      BY <3>2, <3>3 DEF ScanFollowed, Addressed
  <2> QED
    BY <2>1, <2>2
<1> QED
  BY <1>13, <1>14

\* The other operations neither give nor clear an address.
LEMMA OtherList ==
  ASSUME Base, NEW r, NEW S, Exchanged(r, S), op.kind # "Rescan"
  PROVE  ScanFollowed' /\ ListedIsAddressed'
<1>1. \A p \in Bus : Addressed(p) => Addressed(p)'
  BY StationAfter
<1>2. \A k \in DOMAIN slaves : k - 1 \in Bus /\ Addressed(k - 1)
  BY DEF Base, ListedIsAddressed, Addressed
<1>3. ListedIsAddressed'
  BY <1>1, <1>2, ListKept DEF ListedIsAddressed, Addressed
<1>4. op'.kind # "Rescan"
  BY KindKept DEF Exchanged
<1> QED
  BY <1>3, <1>4 DEF ScanFollowed

\* Base is kept by every exchange.
LEMMA BaseExchange ==
  ASSUME Base, NEW r, NEW S, Exchanged(r, S), UNCHANGED mishaps \/ Mishap
  PROVE  Base'
<1>1. OpOut
  BY ReplyOut
<1>2. UserInv'
  BY ReplyUser DEF Base, Exchanged
<1>3. ScanFollowed' /\ ListedIsAddressed'
  BY RescanList, OtherList
<1>4. station' \in [Bus -> 0 .. N] /\ StationOwn'
  BY StationAfter
<1>5. /\ al' \in [Bus -> [state : AlStates, err : BOOLEAN]]
      /\ request' \in [Bus -> AlStates]
      /\ inbox' \in [Bus -> Letters] /\ outbox' \in [Bus -> Letters]
      /\ lapsed' \subseteq Bus /\ reach' = reach
  BY BusAfter
<1>6. mishaps' \in 0 .. MaxMishaps
  <2>1. mishaps \in 0 .. MaxMishaps /\ MaxMishaps \in Nat
    BY MasterAssumption DEF Base, TypeOK, MasterAssumption
  <2> QED
    BY <2>1 DEF Mishap
<1>7. pit' \in BOOLEAN /\ reach' \in 0 .. N
  <2>1. pit \in BOOLEAN /\ reach \in 0 .. N
    BY DEF Base, TypeOK
  <2> QED
    BY <1>1, <1>5, <2>1 DEF OpOut
<1>8. TypeOK'
  BY <1>1, <1>4, <1>5, <1>6, <1>7 DEF TypeOK, OpOut, Listed
<1> QED
  BY <1>1, <1>2, <1>3, <1>4, <1>8 DEF Base, OpOut

\* The slaves and the history as TypeOK has them.
BusType ==
  /\ station \in [Bus -> 0 .. N]
  /\ al \in [Bus -> [state : AlStates, err : BOOLEAN]]
  /\ request \in [Bus -> AlStates]
  /\ inbox \in [Bus -> Letters] /\ outbox \in [Bus -> Letters]
  /\ reach \in 0 .. N /\ mishaps \in 0 .. MaxMishaps
  /\ lapsed \subseteq Bus

\* PreOp begins at the first step it has, the mailbox or the state change.
LEMMA PreOpBegins ==
  ASSUME NEW target \in AlStates, NEW b \in BOOLEAN
  PROVE  /\ PreOp(target, b) \in PreOpType(PreOpSteps)
         /\ PreOp(target, b).change.at \in ChangeSteps
         /\ PreOp(target, b).change.target = target
<1>1. /\ Change(target) \in ChangeType(ChangeSteps)
      /\ Change(target).target = target /\ Change(target).at = "WriteControl"
  BY ChangeBegins
<1>2. Change(target) \in ChangeType(ChangeSteps \cup Ended)
  BY <1>1 DEF ChangeType
<1> QED
  BY <1>1, <1>2 DEF PreOp, PreOpType, PreOpSteps, ChangeSteps

\* A command begins a well-formed operation, and "rescan" with an empty list.
LEMMA CommandBase ==
  ASSUME Base, Rescan \/ SetState \/ Sdo \/ Start \/ Stop
  PROVE  Base'
<1>1. UserInv'
  BY CommandUser DEF Base
<1>2. UNCHANGED <<cyclic, bus, history>>
  BY DEF Rescan, SetState, Sdo, Start, Stop, Begin
<1>3. BusType /\ BusType' /\ StationOwn'
  BY <1>2 DEF Base, TypeOK, BusType, StationOwn, bus, history
<1>4. /\ slaves \in Seq(Listed) /\ Len(slaves) <= N /\ N \in Nat /\ N > 0
      /\ cyclic \in {<<>>, [k \in 1 .. N |-> Station(k - 1)]} /\ pit \in BOOLEAN
  BY MasterAssumption DEF Base, TypeOK, Listed, MasterAssumption
<1>5. \A k \in DOMAIN slaves : k - 1 \in Bus
  BY <1>4 DEF Bus
<1>6. cyclic' = cyclic /\ station' = station /\ lapsed' = lapsed
  BY <1>2 DEF bus, history
<1>7. CASE Rescan
  <2>1. op' = [kind |-> "Rescan", scan |-> Scan] /\ slaves' = <<>> /\ pit' = pit
        /\ cyclic = <<>>
    BY <1>7 DEF Rescan, Begin
  <2>2. "INIT" \in AlStates /\ "Count" \in ScanSteps
    BY DEF AlStates, ScanSteps
  <2>3. Scan \in ScanType(ScanSteps)
    BY <1>4, <2>2, 0 \in Nat, 1 \in Nat DEF Scan, ScanType
  <2>4. OpTyped' /\ op'.kind \in Kinds /\ EngineInv'
    BY <1>6, <2>1, <2>3 DEF OpTyped, Kinds, EngineInv
  <2>5. op'.scan.at = "Count"
    BY <2>1 DEF Scan
  <2>6. ScanFollowed' /\ ListedIsAddressed'
    BY <2>1, <2>5 DEF ScanFollowed, ListedIsAddressed
  <2>7. slaves' \in Seq(Listed) /\ Len(slaves') = 0
    BY <2>1
  <2>8. TypeOK'
    BY <1>3, <1>4, <1>6, <2>1, <2>4, <2>7 DEF TypeOK, BusType, Listed
  <2> QED
    BY <1>1, <1>3, <2>4, <2>6, <2>8 DEF Base
<1>8. ASSUME slaves' = slaves, pit' \in BOOLEAN, op'.kind \in Kinds, op'.kind # "Rescan",
             OpTyped', EngineInv'
      PROVE  Base'
  <2>1. ListedIsAddressed'
    BY <1>6, <1>8 DEF Base, ListedIsAddressed
  <2>2. TypeOK'
    BY <1>3, <1>4, <1>6, <1>8 DEF TypeOK, BusType, Listed
  <2> QED
    BY <1>1, <1>3, <1>8, <2>1, <2>2 DEF Base, ScanFollowed
<1>9. CASE SetState
  <2>1. PICK k \in DOMAIN slaves, target \in Targets :
          op' = [kind |-> "State", pos |-> k - 1, target |-> target,
                 pre |-> PreOp(target, NeedsMailbox(target))]
    BY <1>9 DEF SetState, Begin
  <2>2. slaves' = slaves /\ pit' = pit /\ cyclic = <<>>
    BY <1>9 DEF SetState
  <2>3. target \in AlStates /\ NeedsMailbox(target) \in BOOLEAN
    BY MasterAssumption DEF MasterAssumption, NeedsMailbox
  <2> DEFINE h == PreOp(target, NeedsMailbox(target))
  <2>4. h \in PreOpType(PreOpSteps) /\ h.change.at \in ChangeSteps /\ h.change.target = target
    BY <2>3, PreOpBegins
  <2> HIDE DEF h
  <2>5. PICK q \in Bus : q = k - 1
    BY <1>5
  <2>6. op' = [kind |-> "State", pos |-> q, target |-> target, pre |-> h]
    BY <2>1, <2>5 DEF h
  <2>7. OpTyped' /\ op'.kind = "State" /\ EngineInv'
    BY <1>6, <2>2, <2>3, <2>4, <2>6 DEF OpTyped, PreOpInv, EngineInv
  <2> QED
    BY <1>4, <1>8, <2>2, <2>7 DEF Kinds
<1>10. CASE Sdo
  <2>1. PICK k \in {j \in DOMAIN slaves : slaves[j].coe} :
          op' = [kind |-> "Sdo", pos |-> k - 1, target |-> SdoState(slaves[k]),
                 pre |-> PreOp(SdoState(slaves[k]), TRUE), coe |-> Transfer]
    BY <1>10 DEF Sdo, Begin
  <2>2. slaves' = slaves /\ pit' = pit /\ cyclic = <<>>
    BY <1>10 DEF Sdo
  <2> DEFINE target == SdoState(slaves[k])
             h == PreOp(target, TRUE)
  <2>3. slaves[k] \in Listed
    BY <1>4
  <2>4. target \in AlStates
    BY <2>3 DEF SdoState, AlStates, Listed
  <2> HIDE DEF target
  <2>5. h \in PreOpType(PreOpSteps) /\ h.change.at \in ChangeSteps /\ h.change.target = target
    BY <2>4, PreOpBegins
  <2>6. h \in PreOpType(PreOpSteps \cup {"Done"})
    BY <2>5 DEF PreOpType
  <2>7. Transfer \in TransferType(TransferSteps)
    BY 0 \in Nat DEF Transfer, TransferType, TransferSteps
  <2> HIDE DEF h
  <2>8. PICK q \in Bus : q = k - 1
    BY <1>5
  <2>9. op' = [kind |-> "Sdo", pos |-> q, target |-> target, pre |-> h, coe |-> Transfer]
    BY <2>1, <2>8 DEF h, target
  <2>10. OpTyped' /\ op'.kind = "Sdo" /\ EngineInv'
    BY <1>6, <2>2, <2>4, <2>5, <2>6, <2>7, <2>9 DEF OpTyped, PreOpInv, EngineInv
  <2> QED
    BY <1>4, <1>8, <2>2, <2>10 DEF Kinds
<1>11. CASE Start
  <2> DEFINE f == Config(Follower(0))
  <2>1. op' = [kind |-> "Start", pos |-> 0, cfg |-> f]
    BY <1>11 DEF Start, Begin
  <2>2. slaves' = slaves /\ pit' = pit /\ cyclic = <<>>
    BY <1>11 DEF Start
  <2>3. ConfigInv(f) /\ f.follower = Follower(0)
    BY ConfigBegins DEF Follower
  <2>4. Follower(0)' = Follower(0) /\ 0 \in Bus
    BY <1>4, <2>2 DEF Follower, Bus
  <2> HIDE DEF f
  <2>5. OpTyped' /\ op'.kind = "Start" /\ EngineInv'
    BY <1>6, <2>1, <2>2, <2>3, <2>4 DEF OpTyped, EngineInv
  <2> QED
    BY <1>4, <1>8, <2>2, <2>5 DEF Kinds
<1>12. CASE Stop
  <2> DEFINE h == Change("PREOP")
  <2>1. op' = [kind |-> "Stop", idx |-> 1, change |-> h] /\ slaves' = slaves /\ pit' = FALSE
    BY <1>12 DEF Stop, Begin
  <2>2. h \in ChangeType(ChangeSteps) /\ h.target = "PREOP"
    BY ChangeBegins DEF AlStates
  <2>3. 1 \in 1 .. N
    BY <1>4
  <2> HIDE DEF h
  <2>4. OpTyped' /\ op'.kind = "Stop" /\ EngineInv'
    BY <1>6, <2>1, <2>2, <2>3 DEF OpTyped, EngineInv
  <2> QED
    BY <1>8, <2>1, <2>4 DEF Kinds
<1> QED
  BY <1>7, <1>9, <1>10, <1>11, <1>12

\* Only "start" begins a bring-up.
LEMMA OtherBegins ==
  ASSUME Rescan \/ SetState \/ Sdo \/ Stop
  PROVE  op'.kind # "Start"
<1>1. CASE Rescan
  BY <1>1 DEF Rescan, Begin
<1>2. CASE SetState
  <2>1. PICK x, y, z : op' = [kind |-> "State", pos |-> x, target |-> y, pre |-> z]
    BY <1>2 DEF SetState, Begin
  <2> QED
    BY <2>1
<1>3. CASE Sdo
  <2>1. PICK x, y, z : op' = [kind |-> "Sdo", pos |-> x, target |-> y, pre |-> z,
                              coe |-> Transfer]
    BY <1>3 DEF Sdo, Begin
  <2> QED
    BY <2>1
<1>4. CASE Stop
  BY <1>4 DEF Stop, Begin
<1> QED
  BY <1>1, <1>2, <1>3, <1>4

\* The worker's other steps end the operation, and the launch keeps the engine.
LEMMA EndBase ==
  ASSUME Base, StartMissing \/ StopIdle \/ Launch
  PROVE  Base'
<1>1. UserInv'
  BY WorkerUser DEF Base, Worker
<1>2. /\ UNCHANGED <<slaves, cyclic, bus, mishaps, lapsed>> /\ op' = Idle
      /\ pit' \in {pit, TRUE}
  BY DEF StartMissing, StopIdle, Launch, history
<1>3. OpTyped' /\ op'.kind \in Kinds /\ EngineInv'
  BY <1>2, IdleTyped
<1>4. TypeOK'
  BY <1>2, <1>3 DEF Base, TypeOK, bus
<1>5. StationOwn' /\ ScanFollowed' /\ ListedIsAddressed'
  BY <1>2 DEF Base, StationOwn, ScanFollowed, ListedIsAddressed, Idle, bus
<1> QED
  BY <1>1, <1>3, <1>4, <1>5 DEF Base

\* What a slave that enters a state makes of the slaves.
LEMMA EnteredType ==
  ASSUME BusType, NEW p \in Bus, NEW state \in AlStates, NEW err \in BOOLEAN,
         Entered(p, state, err)
  PROVE  /\ al' \in [Bus -> [state : AlStates, err : BOOLEAN]]
         /\ request' \in [Bus -> AlStates]
         /\ inbox' \in [Bus -> Letters] /\ outbox' \in [Bus -> Letters]
  BY DEF BusType, Entered, Letters

\* What slaves and cables do on their own changes no address, except that a slave that
\* loses power has none, and is among those that have lapsed.
LEMMA EnvironmentType ==
  ASSUME BusType, StationOwn, CyclicTick \/ Environment \/ UNCHANGED vars
  PROVE  /\ BusType' /\ StationOwn'
         /\ \A p \in Bus : \/ station'[p] = station[p] /\ (p \in lapsed => p \in lapsed')
                           \/ p \in lapsed'
         /\ UNCHANGED master
<1>1. N \in Nat /\ MaxMishaps \in Nat
  BY MasterAssumption DEF MasterAssumption
<1>2. CASE CyclicTick
  <2>1. /\ UNCHANGED <<master, station, al, inbox, outbox, reach, history>>
        /\ \E p \in Bus : request' = [request EXCEPT ![p] = "OP"]
    BY <1>2 DEF CyclicTick, Reached
  <2>2. request' \in [Bus -> AlStates]
    BY <2>1 DEF BusType, AlStates
  <2> QED
    BY <2>1, <2>2 DEF BusType, StationOwn, history
<1>3. ASSUME NEW p \in Bus, Settle(p) \/ Refuse(p) \/ Slip(p) \/ Serve(p)
      PROVE  /\ BusType' /\ station' = station /\ lapsed' = lapsed /\ UNCHANGED master
  <2>1. /\ UNCHANGED <<master, station, reach, lapsed>>
    BY <1>3 DEF Settle, Refuse, Slip, Serve, history
  <2>2. mishaps' \in 0 .. MaxMishaps
    <3>1. UNCHANGED mishaps \/ Mishap
      BY <1>3 DEF Settle, Refuse, Slip, Serve, history
    <3> QED
      BY <1>1, <3>1 DEF Mishap, BusType
  <2>3. /\ al' \in [Bus -> [state : AlStates, err : BOOLEAN]]
        /\ request' \in [Bus -> AlStates]
        /\ inbox' \in [Bus -> Letters] /\ outbox' \in [Bus -> Letters]
    <3>1. request[p] \in AlStates /\ al[p].state \in AlStates /\ "SAFEOP" \in AlStates
      BY DEF BusType, AlStates
    <3>2. CASE Settle(p)
      BY <3>1, <3>2, EnteredType DEF Settle
    <3>3. CASE Refuse(p)
      BY <3>1, <3>3, EnteredType DEF Refuse
    <3>4. CASE Slip(p)
      BY <3>1, <3>4, EnteredType DEF Slip
    <3>5. CASE Serve(p)
      BY <3>5 DEF Serve, BusType, Letters
    <3> QED
      BY <1>3, <3>2, <3>3, <3>4, <3>5
  <2> QED
    BY <2>1, <2>2, <2>3 DEF BusType
<1>4. ASSUME NEW p \in Bus, PowerCycle(p)
      PROVE  /\ BusType' /\ StationOwn' /\ UNCHANGED master
             /\ station' = [station EXCEPT ![p] = 0] /\ lapsed' = lapsed \cup {p}
  <2>1. /\ UNCHANGED <<master, reach>> /\ Mishap /\ Entered(p, "INIT", FALSE)
        /\ station' = [station EXCEPT ![p] = 0] /\ lapsed' = lapsed \cup {p}
    BY <1>4 DEF PowerCycle
  <2>2. mishaps' \in 0 .. MaxMishaps
    BY <1>1, <2>1 DEF Mishap, BusType
  <2>3. /\ al' \in [Bus -> [state : AlStates, err : BOOLEAN]]
        /\ request' \in [Bus -> AlStates]
        /\ inbox' \in [Bus -> Letters] /\ outbox' \in [Bus -> Letters]
    BY <2>1, EnteredType DEF AlStates
  <2>4. station' \in [Bus -> 0 .. N] /\ StationOwn'
    <3>1. 0 \in 0 .. N
      BY <1>1
    <3> QED
      BY <2>1, <3>1 DEF BusType, StationOwn
  <2> QED
    BY <2>1, <2>2, <2>3, <2>4 DEF BusType
<1>5. CASE Environment
  <2>1. CASE \E p \in Bus : Settle(p) \/ Refuse(p) \/ Slip(p) \/ Serve(p)
    BY <1>3, <2>1 DEF StationOwn
  <2>2. CASE \E p \in Bus : PowerCycle(p)
    <3>1. PICK p \in Bus : PowerCycle(p)
      BY <2>2
    <3>2. /\ BusType' /\ StationOwn' /\ UNCHANGED master
          /\ station' = [station EXCEPT ![p] = 0] /\ lapsed' = lapsed \cup {p}
      BY <1>4, <3>1
    <3>3. station \in [Bus -> 0 .. N]
      BY DEF BusType
    <3> QED
      BY <3>2, <3>3
  <2>3. CASE Cut
    <3>1. /\ UNCHANGED <<master, station, al, request, inbox, outbox, lapsed>> /\ Mishap
          /\ reach' \in 0 .. reach - 1
      BY <2>3 DEF Cut
    <3>2. reach' \in 0 .. N /\ mishaps' \in 0 .. MaxMishaps
      BY <1>1, <3>1 DEF Mishap, BusType
    <3> QED
      BY <3>1, <3>2 DEF BusType, StationOwn
  <2>4. CASE Mend
    <3>1. UNCHANGED <<master, station, al, request, inbox, outbox, history>> /\ reach' = N
      BY <2>4 DEF Mend
    <3>2. reach' \in 0 .. N
      BY <1>1, <3>1
    <3> QED
      BY <3>1, <3>2 DEF BusType, StationOwn, history
  <2> QED
    BY <1>5, <2>1, <2>2, <2>3, <2>4 DEF Environment
<1>6. CASE UNCHANGED vars
  BY <1>6 DEF vars, bus, history, BusType, StationOwn
<1> QED
  BY <1>2, <1>5, <1>6

\* Interrupt, slaves and cables keep Base.
LEMMA OthersBase ==
  ASSUME Base, CyclicTick \/ Environment \/ UNCHANGED vars
  PROVE  Base'
<1>1. UserInv'
  BY OthersUser DEF Base
<1>2. BusType /\ StationOwn
  BY DEF Base, TypeOK, BusType
<1>3. /\ BusType' /\ StationOwn' /\ UNCHANGED <<slaves, op, cyclic, pit>>
      /\ \A p \in Bus : Addressed(p) => Addressed(p)'
  BY <1>2, EnvironmentType DEF Addressed, master
<1>4. TypeOK'
  BY <1>3 DEF Base, TypeOK, BusType
<1>5. OpTyped'
  BY <1>3 DEF Base, OpTyped, Follower
<1>6. EngineInv'
  BY <1>3 DEF Base, EngineInv
<1>7. ListedIsAddressed'
  BY <1>3 DEF Base, ListedIsAddressed, Addressed
<1>8. ScanFollowed'
  <2>1. SUFFICES ASSUME op.kind = "Rescan" PROVE ScanFollowed'
    BY <1>3 DEF ScanFollowed
  <2>2. /\ op.scan.at \in {"Count", "Clear"} => slaves = <<>>
        /\ op.scan.at = "Clear" => op.scan.count > 0
        /\ op.scan.at \notin {"Count", "Clear"} =>
             Len(slaves) = op.scan.pos /\ op.scan.pos < op.scan.count
        /\ op.scan.at \notin {"Count", "Clear", "Apwr"} => Addressed(op.scan.pos)
    BY <2>1 DEF Base, ScanFollowed, Addressed
  <2>3. op.scan.pos \in Nat /\ op.scan.count \in 0 .. N
    BY <2>1 DEF Base, OpTyped, ScanType
  <2>4. N \in Nat
    BY MasterAssumption DEF MasterAssumption
  <2>5. op.scan.at \notin {"Count", "Clear"} => op.scan.pos \in Bus
    BY <2>2, <2>3, <2>4 DEF Bus
  <2>6. op.scan.at \notin {"Count", "Clear", "Apwr"} =>
          \A p \in Bus : p = op.scan.pos => Addressed(p)'
    BY <1>3, <2>2
  <2> QED
    BY <1>3, <2>2, <2>5, <2>6 DEF ScanFollowed, Addressed
<1> QED
  BY <1>1, <1>3, <1>4, <1>5, <1>6, <1>7, <1>8 DEF Base

\* At power-up there is no operation, no list and no address.
LEMMA InitBase == Init => Base
<1> SUFFICES ASSUME Init PROVE Base
  OBVIOUS
<1>1. UserInv
  BY InitUser
<1>2. N \in Nat /\ MaxMishaps \in Nat
  BY MasterAssumption DEF MasterAssumption
<1>3. op.kind = "none"
  BY DEF Init, Idle
<1>4. TypeOK
  <2>1. slaves \in Seq([al : AlStates, coe : BOOLEAN]) /\ Len(slaves) <= N
    BY <1>2 DEF Init
  <2>2. BusType
    BY <1>2 DEF Init, BusType, AlStates, Letters
  <2>3. op.kind \in Kinds /\ cyclic = <<>> /\ pit \in BOOLEAN
    BY <1>3 DEF Init, Kinds
  <2> QED
    BY <2>1, <2>2, <2>3 DEF TypeOK, BusType
<1>5. OpTyped /\ EngineInv /\ ScanFollowed
  BY <1>3 DEF OpTyped, EngineInv, ScanFollowed
<1>6. StationOwn /\ ListedIsAddressed
  BY DEF Init, StationOwn, ListedIsAddressed
<1> QED
  BY <1>1, <1>4, <1>5, <1>6 DEF Base

\* Every step keeps Base.
LEMMA BaseKept == Base /\ [Next]_vars => Base'
<1> SUFFICES ASSUME Base, [Next]_vars PROVE Base'
  OBVIOUS
<1>1. CASE Rescan \/ SetState \/ Sdo \/ Start \/ Stop
  BY <1>1, CommandBase
<1>2. CASE Worker
  <2>1. CASE StartMissing \/ StopIdle \/ Launch
    BY <2>1, EndBase
  <2>2. CASE \E r, S : Exchanged(r, S) /\ (UNCHANGED mishaps \/ Mishap)
    BY <2>2, BaseExchange
  <2> QED
    BY <1>2, <2>1, <2>2, WorkerSteps
<1>3. CASE CyclicTick \/ Environment \/ UNCHANGED vars
  BY <1>3, OthersBase
<1> QED
  BY <1>1, <1>2, <1>3 DEF Next

\* The list never outgrows the bus, an engine drives all of its slaves, the tracked
\* states are AL states (Master::begin, Master::drive, worker_task).
THEOREM MasterTypeCorrect == Spec => []TypeOK
<1>1. Base => TypeOK
  BY DEF Base
<1> QED
  BY InitBase, BaseKept, <1>1, PTL DEF Spec

\* A listed slave answers to the station address the master uses for its index, unless
\* it has lost power since: whatever scans failed or were cut short (begin, ScanFsm).
THEOREM ListedAlwaysAddressed == Spec => []ListedIsAddressed
<1>1. Base => ListedIsAddressed
  BY DEF Base
<1> QED
  BY InitBase, BaseKept, <1>1, PTL DEF Spec

-----------------------------------------------------------------------------
(* What a bring-up has written: ConfInv *)

\* The clock steps that write to the slave itself.
DcMarks == {"CompWriteDelay", "CompWriteOffset", "WriteCycle", "WriteStart", "Activate"}

\* What the step m of phase ph must have left in C, what was written.
Due(ph, m, b, C) ==
  /\ ph \in Configured \cup CoePhases => <<ph, m>> \in C
  /\ ph = "DcCycle" /\ DcPath(b)[m] \in DcMarks => <<DcPath(b)[m], 1>> \in C

\* The steps of a phase.
Size(ph, b) == IF ph = "DcCycle" THEN Len(DcPath(b)) ELSE Work[ph]

\* A phase is done when all of its steps are, and all phases are.
PhaseDone(ph, b, C) ==
  Work[ph] # 0 => \A m \in Nat : 1 <= m /\ m <= Size(ph, b) => Due(ph, m, b, C)

AllDone(b, C) == \A k \in 1 .. 14 : PhaseDone(Order[k], b, C)

\* A configuration under way: all earlier phases are done, all earlier steps of this
\* one, and a transfer that waits for its answer has sent its request.
Progress(f, C) ==
  /\ \A k \in 1 .. 14 : k < Place(f.at) => PhaseDone(Order[k], f.follower, C)
  /\ \A m \in Nat : 1 <= m /\ m < f.n => Due(f.at, m, f.follower, C)
  /\ f.at \in CoePhases /\ f.coe.at # "WriteRequest" => Due(f.at, f.n, f.follower, C)

\* More written is no less done.
LEMMA DueGrows ==
  ASSUME NEW C, NEW D, C \subseteq D
  PROVE  /\ \A ph, m, b : Due(ph, m, b, C) => Due(ph, m, b, D)
         /\ \A ph, b : PhaseDone(ph, b, C) => PhaseDone(ph, b, D)
         /\ \A b : AllDone(b, C) => AllDone(b, D)
         /\ \A f : Progress(f, C) => Progress(f, D)
<1>1. \A ph, m, b : Due(ph, m, b, C) => Due(ph, m, b, D)
  BY DEF Due
<1>2. \A ph, b : PhaseDone(ph, b, C) => PhaseDone(ph, b, D)
  BY <1>1 DEF PhaseDone
<1> QED
  BY <1>1, <1>2 DEF AllDone, Progress

\* The moves of FsmSlaveConfig keep Progress once the step it leaves is done, and at the
\* end everything is done; the phases skipped have no work.
LEMMA ProgressMoves ==
  ASSUME NEW f, ConfigInv(f), NEW g, NEW r, g.follower = f.follower,
         NEW C, Progress(f, C),
         (Stays(f, g, r) /\ f.at \notin CoePhases) \/ Due(f.at, f.n, f.follower, C)
  PROVE  /\ Stays(f, g, r) \/ On(f, g) \/ Skip(f, g) => Progress(g, C)
         /\ Over(f, g) => AllDone(f.follower, C)
<1> DEFINE b == f.follower
<1>1. /\ f.at \in Phases /\ f.n \in Nat /\ 1 <= f.n /\ f.n <= Length(f)
      /\ Place(f.at) \in 1 .. 14 /\ Order[Place(f.at)] = f.at
  BY Places DEF ConfigInv
<1>2. /\ \A k \in 1 .. 14 : k < Place(f.at) => PhaseDone(Order[k], b, C)
      /\ \A m \in Nat : 1 <= m /\ m < f.n => Due(f.at, m, b, C)
  BY DEF Progress
<1>3. Size(f.at, b) = Length(f) /\ Length(f) \in Nat
  BY <1>1, Lengths DEF Size, Length
<1>4. Stays(f, g, r) \/ On(f, g) \/ Skip(f, g) => ConfigInv(g)
  BY DEF Stays, On, Skip
<1>5. ConfigInv(g) => g.at \in Phases /\ g.n \in Nat
  BY DEF ConfigInv
<1> HIDE DEF b
<1>6. ASSUME Stays(f, g, r) PROVE Progress(g, C)
  <2>1. g.at = f.at /\ g.n = f.n
    BY <1>6 DEF Stays
  <2>2. f.at \in CoePhases => Due(f.at, f.n, b, C)
    BY DEF b
  <2> QED
    BY <1>2, <2>1, <2>2 DEF Progress, b
<1>7. f.n = Length(f) /\ Due(f.at, f.n, b, C) => PhaseDone(f.at, b, C)
  <2> SUFFICES ASSUME f.n = Length(f), Due(f.at, f.n, b, C),
                      NEW m \in Nat, 1 <= m, m <= Size(f.at, b)
               PROVE  Due(f.at, m, b, C)
    BY DEF PhaseDone
  <2>1. m < f.n \/ m = f.n
    BY <1>1, <1>3
  <2> QED
    BY <1>2, <2>1
<1>8. ASSUME On(f, g) PROVE Progress(g, C)
  <2>1. g.at = f.at /\ g.n = f.n + 1 /\ g.coe.at = "WriteRequest" /\ ~Stays(f, g, r)
    BY <1>1, <1>8 DEF On, Fresh, Stays
  <2>2. Due(f.at, f.n, b, C)
    BY <2>1 DEF b
  <2>3. ASSUME NEW m \in Nat, 1 <= m, m < g.n PROVE Due(f.at, m, b, C)
    <3>1. m < f.n \/ m = f.n
      BY <1>1, <2>1, <2>3
    <3> QED
      BY <1>2, <2>2, <2>3, <3>1
  <2> QED
    BY <1>2, <2>1, <2>3 DEF Progress, b
<1>9. ASSUME Skip(f, g) PROVE Progress(g, C)
  <2>1. /\ g.n = 1 /\ g.coe.at = "WriteRequest" /\ f.n = Length(f)
        /\ Place(f.at) < Place(g.at) /\ g.at \in Phases /\ Place(g.at) \in 1 .. 14
        /\ \A j \in Place(f.at) + 1 .. Place(g.at) - 1 : Work[Order[j]] = 0
    BY <1>4, <1>5, <1>9, Places DEF Skip, Fresh
  <2>2. ~Stays(f, g, r)
    <3>1. Place(g.at) # Place(f.at)
      BY <1>1, <2>1
    <3> QED
      BY <3>1 DEF Stays
  <2>3. PhaseDone(f.at, b, C)
    BY <1>7, <2>1, <2>2 DEF b
  <2>4. ASSUME NEW k \in 1 .. 14, k < Place(g.at) PROVE PhaseDone(Order[k], b, C)
    <3>1. CASE k < Place(f.at)
      BY <1>2, <3>1
    <3>2. CASE k = Place(f.at)
      BY <1>1, <2>3, <3>2
    <3>3. CASE k > Place(f.at)
      <4>1. k \in Place(f.at) + 1 .. Place(g.at) - 1
        BY <1>1, <2>1, <2>4, <3>3
      <4>2. Work[Order[k]] = 0
        BY <2>1, <4>1
      <4> QED
        BY <4>2 DEF PhaseDone
    <3> QED
      BY <1>1, <3>1, <3>2, <3>3
  <2>5. \A m \in Nat : ~(1 <= m /\ m < g.n)
    BY <2>1
  <2> QED
    BY <2>1, <2>4, <2>5 DEF Progress, b
<1>10. ASSUME Over(f, g) PROVE AllDone(b, C)
  <2>1. f.n = Length(f) /\ f.at = "ToSafeop" /\ Place(f.at) = 14 /\ g.at = "Done"
    BY <1>10, FixedWork DEF Over
  <2>2. g.at # f.at
    BY <2>1
  <2>3. ~Stays(f, g, r)
    BY <2>2 DEF Stays
  <2>4. PhaseDone(f.at, b, C)
    BY <1>7, <2>1, <2>3 DEF b
  <2>5. ASSUME NEW k \in 1 .. 14 PROVE PhaseDone(Order[k], b, C)
    <3>1. k < Place(f.at) \/ k = Place(f.at)
      BY <2>1
    <3> QED
      BY <1>1, <1>2, <2>4, <3>1
  <2> QED
    BY <2>5 DEF AllDone
<1> QED
  BY <1>6, <1>8, <1>9, <1>10 DEF b

\* At the first datagram nothing is due.
LEMMA ProgressBegins ==
  ASSUME NEW f, f.at = "ClearFmmus", f.n = 1, NEW C
  PROVE  Progress(f, C)
<1>1. Place("ClearFmmus") = 1
  <2>1. Order[1] = "ClearFmmus"
    BY DEF Order
  <2> QED
    BY <2>1, Places
<1>2. \A k \in 1 .. 14 : ~(k < 1)
  OBVIOUS
<1>3. \A m \in Nat : ~(1 <= m /\ m < 1)
  OBVIOUS
<1> QED
  BY <1>1, <1>2, <1>3 DEF Progress, CoePhases

\* A slave that is done has been written its configuration.
LEMMA DoneConfigures ==
  ASSUME NEW p \in Bus, NEW b \in BOOLEAN, NEW C, AllDone(b, C),
         RefSlave \in Bus \ {p} => b
  PROVE  Configuration(p) \subseteq C
<1>1. Work["DcCycle"] \in {0, 1} /\ "DcCycle" \in Phases
  <2>1. Order[13] = "DcCycle"
    BY DEF Order
  <2> QED
    BY <2>1, WorkAssumption, Places DEF WorkAssumption
<1>2. \A ph \in Phases : PhaseDone(ph, b, C)
  BY Places DEF AllDone
<1>3. ASSUME NEW ph \in Phases \ (Changes \cup {"DcCycle"}), NEW n \in 1 .. Work[ph]
      PROVE  <<ph, n>> \in C
  <2>1. Work[ph] \in Nat
    BY WorkAssumption DEF WorkAssumption
  <2>2. Size(ph, b) = Work[ph]
    BY DEF Size
  <2>3. Due(ph, n, b, C)
    BY <1>2, <2>1, <2>2 DEF PhaseDone
  <2> QED
    BY <2>3 DEF Due, Configured
<1>4. ASSUME Work["DcCycle"] = 1, NEW m \in Nat, 1 <= m, m <= Len(DcPath(b)),
             DcPath(b)[m] \in DcMarks
      PROVE  <<DcPath(b)[m], 1>> \in C
  <2>1. Size("DcCycle", b) = Len(DcPath(b))
    BY DEF Size
  <2>2. Due("DcCycle", m, b, C)
    BY <1>1, <1>2, <1>4, <2>1 DEF PhaseDone
  <2> QED
    BY <1>4, <2>2 DEF Due
<1>5. \A k \in 1 .. 3 : Sync0[k] \in DcMarks
  BY DEF Sync0, DcMarks
<1>6. ASSUME Work["DcCycle"] = 1, NEW k \in 1 .. 3 PROVE <<Sync0[k], 1>> \in C
  <2>1. CASE b
    <3>1. Len(DcPath(b)) = 8 /\ DcPath(b)[5 + k] = Sync0[k]
      BY <2>1, DcSteps, Zenon
    <3>2. 5 + k \in Nat /\ 1 <= 5 + k /\ 5 + k <= 8
      OBVIOUS
    <3> QED
      BY <1>4, <1>5, <1>6, <3>1, <3>2
  <2>2. CASE ~b
    <3>1. Len(DcPath(b)) = 5 /\ DcPath(b)[2 + k] = Sync0[k]
      BY <2>2, DcSteps, Zenon
    <3>2. 2 + k \in Nat /\ 1 <= 2 + k /\ 2 + k <= 5
      OBVIOUS
    <3> QED
      BY <1>4, <1>5, <1>6, <3>1, <3>2
  <2> QED
    BY <2>1, <2>2
<1>7. FullyConfigured \subseteq C
  <2>1. DOMAIN Sync0 = 1 .. 3
    BY DEF Sync0
  <2> DEFINE A == UNION {{<<ph, n>> : n \in 1 .. Work[ph]} :
                           ph \in Phases \ (Changes \cup {"DcCycle"})}
             B == {<<Sync0[k], 1>> : k \in {j \in DOMAIN Sync0 : Work["DcCycle"] = 1}}
  <2>2. A \subseteq C
    BY <1>3
  <2>3. B \subseteq C
    BY <1>6, <2>1
  <2>4. FullyConfigured = A \cup B
    BY DEF FullyConfigured
  <2> QED
    BY <2>2, <2>3, <2>4
<1>8. ASSUME Work["DcCycle"] = 1, RefSlave \in Bus \ {p}
      PROVE  <<"CompWriteDelay", 1>> \in C /\ <<"CompWriteOffset", 1>> \in C
  <2>1. b
    BY <1>8
  <2>2. /\ Len(DcPath(b)) = 8
        /\ DcPath(b)[3] = "CompWriteDelay" /\ DcPath(b)[5] = "CompWriteOffset"
    BY <2>1, DcSteps, Zenon
  <2>3. <<DcPath(b)[3], 1>> \in C /\ <<DcPath(b)[5], 1>> \in C
    <3>1. DcPath(b)[3] \in DcMarks /\ DcPath(b)[5] \in DcMarks
      BY <2>2 DEF DcMarks
    <3>2. 3 \in Nat /\ 1 <= 3 /\ 3 <= 8 /\ 5 \in Nat /\ 1 <= 5 /\ 5 <= 8
      OBVIOUS
    <3>3. 3 <= Len(DcPath(b)) /\ 5 <= Len(DcPath(b))
      BY <2>2, <3>2
    <3> QED
      BY <1>4, <1>8, <3>1, <3>2, <3>3
  <2> QED
    BY <2>2, <2>3
<1> QED
  BY <1>7, <1>8 DEF Configuration

\* The bring-up failed, or its engine is gone.
Forgotten == op'.kind = "none" /\ cyclic' = <<>>

\* Along the bring-up: the slaves before the current one are done, the current one as
\* far as its configuration has got, but for those that lost power since they began.
StartInv ==
  op.kind = "Start" =>
    \A p \in Bus \ lapsed : /\ p < op.pos => AllDone(Follower(p), conf[p])
                            /\ p = op.pos => Progress(op.cfg, conf[p])

\* The engine's slaves are configured, and what the bring-up has done so far.
ConfInv == DOMAIN conf = Bus /\ StartedIsConfigured /\ StartInv

\* What an exchange records.
LEMMA ConfAfter ==
  ASSUME Base, NEW r, NEW S, Exchanged(r, S), op.kind # "Rescan"
  PROVE  /\ DOMAIN conf' = Bus
         /\ ~Forgotten => \A p \in Bus : conf[p] \subseteq conf'[p]
         /\ OpRequest.reg # "CONFIG" => lapsed' = lapsed
         /\ \A p \in Bus \ lapsed' : \/ p \notin lapsed
                                     \/ /\ p = Subject /\ OpRequest.reg = "CONFIG"
                                        /\ OpRequest.val = <<"ClearFmmus", 1>>
<1> DEFINE dg == OpRequest
<1>1. Recorded(dg, S)
  BY DEF Exchanged
<1>2. Subject \in Bus /\ AskedOfOne(dg)
  BY SubjectAsked DEF Exchanged
<1>3. dg.reg # "STATION_ADDR"
  BY <1>2 DEF AskedOfOne
<1>4. lapsed' = lapsed \/ (dg.reg = "CONFIG" /\ dg.val = <<"ClearFmmus", 1>>
                             /\ lapsed' = lapsed \ S)
  BY <1>1, <1>3 DEF Recorded
<1>5. dg.reg = "CONFIG" => \A q \in S : q = Subject
  <2> SUFFICES ASSUME dg.reg = "CONFIG", NEW q \in S PROVE q = Subject
    OBVIOUS
  <2>1. dg.to = {Station(Subject)} /\ dg.cmd \in {"FPRD", "FPWR"} /\ Subject \in Nat
    BY <1>2 DEF AskedOfOne, Bus
  <2>2. StationOwn
    BY DEF Base
  <2> QED
    BY <2>1, <2>2, Taken
<1>6. conf' = [p \in Bus |-> CASE Forgotten -> {}
                               [] ~Forgotten /\ p \in S /\ dg.reg \in {"CONFIG", "RX_MBOX"}
                                    -> conf[p] \cup {dg.val}
                               [] OTHER -> conf[p]]
  BY <1>1 DEF Recorded, Forgotten
<1>7. DOMAIN conf' = Bus
  BY <1>6
<1> HIDE DEF dg
<1>8. ASSUME ~Forgotten, NEW p \in Bus PROVE conf[p] \subseteq conf'[p]
  BY <1>6, <1>8
<1>9. \A p \in Bus \ lapsed' : \/ p \notin lapsed
                               \/ /\ p = Subject /\ dg.reg = "CONFIG"
                                  /\ dg.val = <<"ClearFmmus", 1>>
  BY <1>4, <1>5
<1> QED
  BY <1>4, <1>7, <1>8, <1>9 DEF dg

\* A write that is confirmed is recorded.
LEMMA Wrote ==
  ASSUME Base, NEW r, NEW S, Exchanged(r, S), op.kind = "Start", ~Forgotten, r.wkc = 1,
         NEW reg \in {"CONFIG", "RX_MBOX"}, NEW val,
         OpRequest = Write(Station(op.pos), reg, val)
  PROVE  \A p \in Bus : p = op.pos => val \in conf'[p]
<1> DEFINE dg == OpRequest
<1>1. dg.to = {Station(op.pos)} /\ dg.cmd = "FPWR" /\ dg.reg = reg /\ dg.val = val
  BY DEF Write, Datagram
<1>2. op.pos \in Bus /\ op.pos \in Nat /\ StationOwn
  BY DEF Base, OpTyped, Bus
<1>3. S = {op.pos}
  BY <1>1, <1>2, Taken
<1>4. Recorded(dg, S)
  BY DEF Exchanged
<1> HIDE DEF dg
<1>5. \A p \in S \cap Bus : conf'[p] = conf[p] \cup {val}
  BY <1>1, <1>4 DEF Recorded, Forgotten
<1> QED
  BY <1>3, <1>5

\* A step of the bring-up that its reply confirms has left what is due of it.
LEMMA DueWritten ==
  ASSUME Base, NEW r, NEW S, Exchanged(r, S), op.kind = "Start", ~Forgotten,
         NEW p \in Bus, p = op.pos, Progress(op.cfg, conf'[p]),
         NEW g, Stays(op.cfg, g, r) \/ Leaves(op.cfg, r)
  PROVE  \/ Stays(op.cfg, g, r) /\ op.cfg.at \notin CoePhases
         \/ Due(op.cfg.at, op.cfg.n, op.cfg.follower, conf'[p])
<1> DEFINE f == op.cfg
           s == Station(op.pos)
           ref == Station(RefSlave)
           C == conf'[p]
           step == DcPath(f.follower)[f.n]
<1>1. ConfigInv(f) /\ OpRequest = ConfigRequest(f, s, ref)
  BY DEF Base, OpTyped, OpRequest
<1>2. f.at \in Phases /\ f.coe \in TransferType(TransferSteps)
  BY <1>1 DEF ConfigInv
<1>3. ASSUME NEW reg \in {"CONFIG", "RX_MBOX"}, NEW val, OpRequest = Write(s, reg, val),
             r.wkc = 1
      PROVE  val \in C
  BY <1>3, Wrote
<1>4. f.at \in CoePhases /\ f.coe.at # "WriteRequest" => Due(f.at, f.n, f.follower, C)
  BY DEF Progress
<1> HIDE DEF f, s, ref, C
<1>5. CASE f.at \in CoePhases
  <2>1. SUFFICES ASSUME f.coe.at = "WriteRequest", r.wkc = 1
                 PROVE  <<f.at, f.n>> \in C
    BY <1>4, <1>5 DEF f, C, Stays, Leaves, Due, CoePhases
  <2>2. OpRequest = TransferRequest(f.coe, s, <<f.at, f.n>>)
    BY <1>1, <1>5, ConfigAsks
  <2>3. OpRequest = Write(s, "RX_MBOX", <<f.at, f.n>>)
    BY <1>2, <2>1, <2>2, TransferAsks
  <2> QED
    BY <1>3, <2>1, <2>3
<1>6. CASE f.at \in Changes
  BY <1>6 DEF f, Due, Changes, CoePhases, Configured
<1>7. CASE f.at \in Configured
  <2>1. OpRequest = Write(s, "CONFIG", <<f.at, f.n>>)
    BY <1>1, <1>7, ConfigAsks
  <2>2. f.at \notin Changes \cup CoePhases /\ f.at # "DcCycle"
    BY <1>7 DEF Configured
  <2>3. r.wkc = 1
    BY <1>7, <2>2 DEF Stays, Leaves, f
  <2>4. <<f.at, f.n>> \in C
    BY <1>3, <2>1, <2>3
  <2> QED
    BY <2>2, <2>4 DEF Due, f, C
<1>8. CASE f.at = "DcCycle"
  <2>1. OpRequest = DcRequest(step, s, ref)
    BY <1>1, <1>8, ConfigAsks
  <2>2. DcAccepts(step, r)
    BY <1>8 DEF Stays, Leaves, f, Changes, CoePhases
  <2> HIDE DEF step
  <2>3. step \in DcMarks => OpRequest = Write(s, "CONFIG", <<step, 1>>) /\ r.wkc = 1
    BY <2>1, <2>2 DEF DcMarks, DcRequest, DcAccepts
  <2>4. step \in DcMarks => <<step, 1>> \in C
    BY <1>3, <2>3
  <2>5. f.at \notin Configured \cup CoePhases
    BY <1>8 DEF Configured, CoePhases
  <2> QED
    BY <2>4, <2>5 DEF Due, f, C, step
<1> QED
  BY <1>2, <1>5, <1>6, <1>7, <1>8 DEF Configured

\* The bring-up keeps it, slave after slave, up to the launch.
LEMMA StartConf ==
  ASSUME Base, ConfInv, NEW r, NEW S, Exchanged(r, S), op.kind = "Start"
  PROVE  ConfInv'
<1> DEFINE f == op.cfg
           g == ConfigAfter(f, r)
<1>1. StartAfter(r) /\ OpOut /\ Len(slaves') = Len(slaves)
  BY StartOut DEF Exchanged, OpAfter
<1>2. /\ DOMAIN op = {"kind", "pos", "cfg"} /\ op.pos \in Bus
      /\ ConfigInv(f) /\ f.follower = Follower(op.pos)
  BY DEF Base, OpTyped
<1>3. /\ Len(slaves) <= N /\ N \in Nat /\ cyclic = <<>> /\ op.pos < Len(slaves)
      /\ Len(slaves) \in Nat /\ op.pos \in Nat
  BY <1>2, MasterAssumption
  DEF Base, TypeOK, EngineInv, MasterAssumption, Exchanged, Waiting, Missing, Bus
<1>4. /\ DOMAIN conf' = Bus
      /\ ~Forgotten => \A p \in Bus : conf[p] \subseteq conf'[p]
      /\ \A p \in Bus \ lapsed' : \/ p \notin lapsed
                                  \/ /\ p = op.pos /\ OpRequest.reg = "CONFIG"
                                     /\ OpRequest.val = <<"ClearFmmus", 1>>
  BY ConfAfter DEF Subject
<1>5. \A p \in Bus : Follower(p)' = Follower(p)
  BY <1>1 DEF Follower
<1>6. \A p \in Bus \ lapsed : /\ p < op.pos => AllDone(Follower(p), conf[p])
                              /\ p = op.pos => Progress(f, conf[p])
  BY DEF ConfInv, StartInv
<1>7. ASSUME ~Forgotten, NEW p \in Bus \ lapsed', p < op.pos
      PROVE  AllDone(Follower(p), conf'[p])
  <2>1. p \notin lapsed /\ conf[p] \subseteq conf'[p]
    BY <1>2, <1>3, <1>4, <1>7 DEF Bus
  <2> QED
    BY <1>6, <1>7, <2>1, DueGrows
<1>8. ASSUME OpRequest.reg = "CONFIG", OpRequest.val = <<"ClearFmmus", 1>>
      PROVE  f.at = "ClearFmmus" /\ f.n = 1
  <2> DEFINE s == Station(op.pos)
             ref == Station(RefSlave)
  <2>1. OpRequest = ConfigRequest(f, s, ref)
    BY DEF OpRequest
  <2> HIDE DEF s, ref, f
  <2>2. /\ f.at \in Phases /\ f.change \in ChangeType(ChangeSteps)
        /\ f.coe \in TransferType(TransferSteps)
    BY <1>2 DEF ConfigInv
  <2>3. f.at \notin Changes
    <3> SUFFICES ASSUME f.at \in Changes PROVE FALSE
      OBVIOUS
    <3>1. OpRequest = ChangeRequest(f.change, s)
      BY <1>2, <2>1, ConfigAsks
    <3>2. OpRequest.reg \in {"AL_CONTROL", "AL_STATUS", "AL_STATUS_CODE"}
      BY <2>2, <3>1, ChangeAsks
    <3> QED
      BY <1>8, <3>2
  <2>4. f.at \notin CoePhases
    <3> SUFFICES ASSUME f.at \in CoePhases PROVE FALSE
      OBVIOUS
    <3>1. OpRequest = TransferRequest(f.coe, s, <<f.at, f.n>>)
      BY <1>2, <2>1, ConfigAsks
    <3>2. f.coe.at \in TransferSteps
      BY <2>2 DEF TransferType
    <3>3. OpRequest.reg \in {"RX_MBOX", "SM1_STATUS", "TX_MBOX"}
      BY <2>2, <3>1, <3>2, TransferAsks DEF TransferSteps, Write, Read, Datagram
    <3> QED
      BY <1>8, <3>3
  <2>5. f.at # "DcCycle"
    <3> SUFFICES ASSUME f.at = "DcCycle" PROVE FALSE
      OBVIOUS
    <3> DEFINE step == DcPath(f.follower)[f.n]
    <3>1. OpRequest = DcRequest(step, s, ref)
      BY <1>2, <2>1, ConfigAsks
    <3>2. step # "ClearFmmus"
      <4>1. f.n \in Nat /\ 1 <= f.n /\ f.n <= Length(f) /\ Length(f) = Len(DcPath(f.follower))
        BY <1>2 DEF ConfigInv, Length
      <4>2. f.n \in DOMAIN DcPath(f.follower)
        BY <4>1 DEF DcPath
      <4> QED
        BY <4>2 DEF DcPath
    <3> HIDE DEF step
    <3>3. OpRequest.reg = "CONFIG" => OpRequest.val = <<step, 1>>
      BY <3>1, DcAsks DEF Write, Datagram
    <3> QED
      BY <1>8, <3>2, <3>3
  <2>6. OpRequest = Write(s, "CONFIG", <<f.at, f.n>>)
    BY <1>2, <2>1, <2>2, <2>3, <2>4, <2>5, ConfigAsks DEF Configured
  <2> QED
    BY <1>8, <2>6 DEF Write, Datagram
<1>9. ASSUME ~Forgotten, NEW p \in Bus \ lapsed', p = op.pos PROVE Progress(f, conf'[p])
  <2>1. CASE p \in lapsed
    BY <1>4, <1>8, <1>9, <2>1, ProgressBegins
  <2>2. CASE p \notin lapsed
    BY <1>4, <1>6, <1>9, <2>2, DueGrows
  <2> QED
    BY <2>1, <2>2
<1>10. ASSUME ~Forgotten, g.at # "Failed", NEW p \in Bus \ lapsed', p = op.pos
       PROVE  /\ g.at = "Done" => AllDone(Follower(p), conf'[p])
              /\ g.at # "Done" => Progress(g, conf'[p])
  <2>1. /\ g.follower = f.follower
        /\ \/ Stays(f, g, r)
           \/ Leaves(f, r) /\ (On(f, g) \/ Over(f, g) \/ Skip(f, g))
    BY <1>2, <1>10, ConfigStep
  <2> HIDE DEF g
  <2>2. Progress(f, conf'[p])
    BY <1>9, <1>10
  <2>3. (Stays(f, g, r) /\ f.at \notin CoePhases) \/ Due(f.at, f.n, f.follower, conf'[p])
    BY <1>10, <2>1, <2>2, DueWritten
  <2> HIDE DEF f
  <2>4. /\ Stays(f, g, r) \/ On(f, g) \/ Skip(f, g) => Progress(g, conf'[p])
        /\ Over(f, g) => AllDone(f.follower, conf'[p])
    BY <1>2, <2>1, <2>2, <2>3, ProgressMoves
  <2>5. Stays(f, g, r) \/ On(f, g) \/ Skip(f, g) => g.at # "Done"
    <3>1. Stays(f, g, r) \/ On(f, g) \/ Skip(f, g) => g.at \in Phases
      BY DEF Stays, On, Skip, ConfigInv
    <3> QED
      BY <3>1 DEF Phases, Order
  <2>6. Over(f, g) => g.at = "Done"
    BY DEF Over
  <2>7. f.follower = Follower(p)
    BY <1>2, <1>10
  <2> QED
    BY <2>1, <2>4, <2>5, <2>6, <2>7
<1>11. CASE g.at = "Failed"
  <2>1. op' = Idle /\ cyclic' = cyclic
    BY <1>1, <1>11 DEF StartAfter
  <2> QED
    BY <1>3, <1>4, <2>1 DEF ConfInv, StartedIsConfigured, StartInv, Idle
<1>12. CASE g.at \notin Ended
  <2>1. op' = [op EXCEPT !.cfg = g] /\ cyclic' = cyclic
    BY <1>1, <1>12 DEF StartAfter, Ended
  <2> HIDE DEF g
  <2>2. op'.kind = "Start" /\ op'.pos = op.pos /\ op'.cfg = g
    BY <1>2, <2>1
  <2>3. ~Forgotten
    BY <2>2 DEF Forgotten
  <2>4. StartInv'
    <3> SUFFICES ASSUME NEW p \in Bus \ lapsed'
                 PROVE  /\ p < op.pos => AllDone(Follower(p), conf'[p])
                        /\ p = op.pos => Progress(g, conf'[p])
      BY <1>5, <2>2 DEF StartInv
    <3> QED
      BY <1>7, <1>10, <1>12, <2>3 DEF Ended
  <2> QED
    BY <1>3, <1>4, <2>1, <2>4 DEF ConfInv, StartedIsConfigured
<1>13. ASSUME g.at = "Done" PROVE ConfInv'
  <2>1. CASE op.pos + 1 < N
    <3> DEFINE h == Config(Follower(op.pos + 1))
    <3>1. op' = [op EXCEPT !.pos = op.pos + 1, !.cfg = h] /\ cyclic' = cyclic
      BY <1>1, <1>13, <2>1 DEF StartAfter, StartNext
    <3>2. Follower(op.pos + 1) \in BOOLEAN
      BY DEF Follower
    <3>3. h.at = "ClearFmmus" /\ h.n = 1
      BY <3>2, ConfigBegins
    <3> HIDE DEF h, g
    <3>4. op'.kind = "Start" /\ op'.pos = op.pos + 1 /\ op'.cfg = h
      BY <1>2, <3>1
    <3>5. ~Forgotten
      BY <3>4 DEF Forgotten
    <3>6. ASSUME NEW p \in Bus \ lapsed', p < op.pos + 1
          PROVE  AllDone(Follower(p), conf'[p])
      <4>1. p < op.pos \/ p = op.pos
        BY <1>3, <3>6 DEF Bus
      <4> QED
        BY <1>7, <1>10, <1>13, <3>5, <3>6, <4>1
    <3>7. StartInv'
      BY <1>5, <3>3, <3>4, <3>6, ProgressBegins DEF StartInv
    <3> QED
      BY <1>3, <1>4, <3>1, <3>7 DEF ConfInv, StartedIsConfigured
  <2>2. CASE ~(op.pos + 1 < N)
    <3>1. op' = [kind |-> "Launch"]
      BY <1>1, <1>13, <2>2 DEF StartAfter, StartNext
    <3>2. ~Forgotten /\ op'.kind # "Start"
      BY <3>1 DEF Forgotten
    <3>3. ASSUME NEW p \in Bus \ lapsed' PROVE Configuration(p) \subseteq conf'[p]
      <4>1. p < op.pos \/ p = op.pos
        BY <1>3, <2>2 DEF Bus
      <4>2. AllDone(Follower(p), conf'[p])
        BY <1>7, <1>10, <1>13, <3>2, <4>1
      <4>3. Len(slaves) = N
        BY <1>3, <2>2
      <4>4. RefSlave \in Bus \ {p} => Follower(p)
        BY <1>3, <4>3 DEF Follower, Bus
      <4>5. Follower(p) \in BOOLEAN
        BY DEF Follower
      <4> QED
        BY <4>2, <4>4, <4>5, DoneConfigures
    <3>4. \A p \in Bus : Configuration(p)' = Configuration(p)
      BY DEF Configuration
    <3> QED
      BY <1>4, <3>2, <3>3, <3>4 DEF ConfInv, StartedIsConfigured, StartInv
  <2> QED
    BY <2>1, <2>2
<1> QED
  BY <1>11, <1>12, <1>13 DEF Ended

\* "stop" forgets what was written only together with the engine.
LEMMA StopConf ==
  ASSUME Base, ConfInv, NEW r, NEW S, Exchanged(r, S), op.kind = "Stop"
  PROVE  ConfInv'
<1>1. StopAfter(r) /\ op \in StopType /\ cyclic # <<>>
  BY DEF Exchanged, OpAfter, Base, OpTyped, StopType, Waiting
<1>2. op.change \in ChangeType(ChangeSteps) /\ op.kind = "Stop"
  BY <1>1 DEF StopType
<1>3. OpRequest.reg \in {"AL_CONTROL", "AL_STATUS", "AL_STATUS_CODE"}
  <2> DEFINE s == cyclic[op.idx]
  <2>1. OpRequest = ChangeRequest(op.change, s)
    BY <1>2 DEF OpRequest
  <2> HIDE DEF s
  <2> QED
    BY <1>2, <2>1, ChangeAsks
<1>4. DOMAIN conf' = Bus /\ lapsed' = lapsed /\ (~Forgotten => \A p \in Bus : conf[p] \subseteq conf'[p])
  BY <1>2, <1>3, ConfAfter
<1>5. op'.kind # "Start"
  BY KindKept DEF Exchanged
<1>6. cyclic' # <<>> => ~Forgotten
  BY DEF Forgotten
<1>7. \A p \in Bus : Configuration(p)' = Configuration(p)
  BY DEF Configuration
<1> QED
  BY <1>1, <1>4, <1>5, <1>6, <1>7 DEF ConfInv, StartedIsConfigured, StartInv

\* An operation without an engine that leaves none has nothing to keep.
LEMMA OtherConf ==
  ASSUME Base, ConfInv, NEW r, NEW S, Exchanged(r, S), op.kind \in {"Rescan", "State", "Sdo"}
  PROVE  ConfInv'
<1>1. cyclic = <<>> /\ cyclic' = cyclic /\ op'.kind # "Start"
  <2>1. cyclic = <<>>
    BY DEF Base, EngineInv
  <2>2. cyclic' = cyclic
    BY DEF Exchanged, OpAfter, RescanAfter, StateAfter, SdoPreAfter, SdoCoeAfter
  <2> QED
    BY <2>1, <2>2, KindKept DEF Exchanged
<1>2. DOMAIN conf' = Bus
  BY DEF Exchanged, Recorded
<1> QED
  BY <1>1, <1>2 DEF ConfInv, StartedIsConfigured, StartInv

\* A bring-up begins with nothing due.
LEMMA CommandConf ==
  ASSUME Base, ConfInv, Rescan \/ SetState \/ Sdo \/ Start \/ Stop
  PROVE  ConfInv'
<1>1. UNCHANGED <<cyclic, conf, lapsed>>
  BY DEF Rescan, SetState, Sdo, Start, Stop, Begin, history
<1>2. StartedIsConfigured' /\ DOMAIN conf' = Bus
  BY <1>1 DEF ConfInv, StartedIsConfigured, Configuration
<1>3. CASE Start
  <2> DEFINE f == Config(Follower(0))
  <2>1. op' = [kind |-> "Start", pos |-> 0, cfg |-> f]
    BY <1>3 DEF Start, Begin
  <2>2. f.at = "ClearFmmus" /\ f.n = 1
    BY ConfigBegins DEF Follower
  <2> HIDE DEF f
  <2>3. \A p \in Bus : ~(p < 0)
    BY DEF Bus
  <2>4. op'.pos = 0 /\ op'.cfg = f
    BY <2>1
  <2>5. StartInv'
    BY <2>2, <2>3, <2>4, ProgressBegins DEF StartInv
  <2> QED
    BY <1>2, <2>5 DEF ConfInv
<1>4. CASE Rescan \/ SetState \/ Sdo \/ Stop
  <2>1. op'.kind # "Start"
    BY <1>4, OtherBegins
  <2> QED
    BY <1>2, <2>1 DEF ConfInv, StartInv
<1> QED
  BY <1>3, <1>4

\* The launch finds the engine's slaves configured.
LEMMA EndConf ==
  ASSUME Base, ConfInv, StartMissing \/ StopIdle \/ Launch
  PROVE  ConfInv'
<1>1. cyclic' = cyclic /\ op' = Idle /\ lapsed' = lapsed
  BY DEF StartMissing, StopIdle, Launch, history
<1>2. op'.kind # "Start"
  BY <1>1 DEF Idle
<1>3. CASE StartMissing
  <2>1. cyclic = <<>> /\ DOMAIN conf' = Bus
    BY <1>3 DEF StartMissing, Missing, Base, EngineInv
  <2> QED
    BY <1>1, <1>2, <2>1 DEF ConfInv, StartedIsConfigured, StartInv
<1>4. CASE StopIdle \/ Launch
  <2>1. conf' = conf
    BY <1>4 DEF StopIdle, Launch, history
  <2> QED
    BY <1>1, <1>2, <2>1 DEF ConfInv, StartedIsConfigured, StartInv, Configuration
<1> QED
  BY <1>3, <1>4

\* A slave that loses power has lapsed; nothing else touches what was written.
LEMMA OthersConf ==
  ASSUME Base, ConfInv, CyclicTick \/ Environment \/ UNCHANGED vars
  PROVE  ConfInv'
<1>1. UNCHANGED <<slaves, op, cyclic>>
  <2>1. CASE CyclicTick
    BY <2>1 DEF CyclicTick, master
  <2>2. CASE Environment
    BY <2>2 DEF Environment, Settle, Refuse, Slip, PowerCycle, Serve, Cut, Mend, master
  <2>3. CASE UNCHANGED vars
    BY <2>3 DEF vars, master
  <2> QED
    BY <2>1, <2>2, <2>3
<1>2. /\ DOMAIN conf' = Bus
      /\ \A p \in Bus \ lapsed' : p \notin lapsed /\ conf'[p] = conf[p]
  <2>1. CASE UNCHANGED <<conf, lapsed>>
    BY <2>1 DEF ConfInv
  <2>2. CASE \E p \in Bus : PowerCycle(p)
    <3>1. PICK p \in Bus : conf' = [conf EXCEPT ![p] = {}] /\ lapsed' = lapsed \cup {p}
      BY <2>2 DEF PowerCycle
    <3> QED
      BY <3>1 DEF ConfInv
  <2>3. \/ UNCHANGED <<conf, lapsed>>
        \/ \E p \in Bus : PowerCycle(p)
    <3>1. CASE CyclicTick
      BY <3>1 DEF CyclicTick, history
    <3>2. CASE Environment
      BY <3>2 DEF Environment, Settle, Refuse, Slip, Serve, Cut, Mend, history
    <3>3. CASE UNCHANGED vars
      BY <3>3 DEF vars, history
    <3> QED
      BY <3>1, <3>2, <3>3
  <2> QED
    BY <2>1, <2>2, <2>3
<1>3. StartedIsConfigured'
  BY <1>1, <1>2 DEF ConfInv, StartedIsConfigured, Configuration
<1>4. \A p : Follower(p)' = Follower(p)
  BY <1>1 DEF Follower
<1>5. StartInv'
  BY <1>1, <1>2, <1>4 DEF ConfInv, StartInv
<1> QED
  BY <1>2, <1>3, <1>5 DEF ConfInv

\* At power-up there is no engine and no bring-up.
LEMMA InitConf == Init => ConfInv
  BY DEF Init, ConfInv, StartedIsConfigured, StartInv, Idle

\* Every step keeps ConfInv.
LEMMA ConfKept == Base /\ ConfInv /\ [Next]_vars => ConfInv'
<1> SUFFICES ASSUME Base, ConfInv, [Next]_vars PROVE ConfInv'
  OBVIOUS
<1>1. CASE Rescan \/ SetState \/ Sdo \/ Start \/ Stop
  BY <1>1, CommandConf
<1>2. CASE Worker
  <2>1. CASE StartMissing \/ StopIdle \/ Launch
    BY <2>1, EndConf
  <2>2. CASE \E r, S : Exchanged(r, S) /\ (UNCHANGED mishaps \/ Mishap)
    <3>1. PICK r, S : Exchanged(r, S)
      BY <2>2
    <3>2. op.kind \in {"Rescan", "State", "Sdo", "Start", "Stop"}
      BY <3>1 DEF Exchanged, Waiting
    <3> QED
      BY <3>1, <3>2, StartConf, StopConf, OtherConf
  <2> QED
    BY <1>2, <2>1, <2>2, WorkerSteps
<1>3. CASE CyclicTick \/ Environment \/ UNCHANGED vars
  BY <1>3, OthersConf
<1> QED
  BY <1>1, <1>2, <1>3 DEF Next

\* An engine drives only slaves configured from end to end since they last lost power:
\* no lost datagram, refused state or slave missing from the list leads to one that is
\* half configured (ConfigSeq, FsmSlaveConfig).
THEOREM StartedAlwaysConfigured == Spec => []StartedIsConfigured
<1>1. Init => Base /\ ConfInv
  BY InitBase, InitConf
<1>2. Base /\ ConfInv /\ [Next]_vars => (Base /\ ConfInv)'
  BY BaseKept, ConfKept
<1>3. ConfInv => StartedIsConfigured
  BY DEF ConfInv
<1> QED
  BY <1>1, <1>2, <1>3, PTL DEF Spec

-----------------------------------------------------------------------------
(* What a tracked state rests on: ReachInv *)

\* A latched error has dropped the request.  While nothing has gone wrong on the bus, the
\* slaves a bring-up has passed are in SAFEOP and asked for nothing else, and the one
\* whose change to SAFEOP is being read back has been asked for it or has an error.
ReachInv ==
  /\ \A p \in Bus : al[p].err => request[p] = al[p].state
  /\ mishaps = 0 /\ op.kind = "Start" =>
       \A p \in Bus :
         /\ p < op.pos => al[p].state = "SAFEOP" /\ request[p] = "SAFEOP"
         /\ p = op.pos /\ op.cfg.at = "ToSafeop" /\ op.cfg.change.at = "ReadStatus" =>
              request[p] = "SAFEOP" \/ al[p].err

\* What an exchange does to requests and errors.
LEMMA AlAfter ==
  ASSUME Base, NEW r, NEW S, Exchanged(r, S)
  PROVE  /\ OpRequest.reg # "AL_CONTROL" \/ OpRequest.cmd = "FPRD" =>
              request' = request /\ al' = al
         /\ op.kind = "Rescan" => request' = request /\ al' = al
         /\ OpRequest.reg = "AL_CONTROL" => op.kind # "Rescan" /\
              \A p \in Bus :
                \/ /\ p = Subject /\ p \in S /\ Hears(p, OpRequest.val)
                   /\ request'[p] = OpRequest.val.state /\ ~al'[p].err
                   /\ al'[p].state = al[p].state
                \/ /\ ~(p \in S /\ OpRequest.cmd = "FPWR" /\ Hears(p, OpRequest.val))
                   /\ request'[p] = request[p] /\ al'[p] = al[p]
<1> DEFINE dg == OpRequest
           wr == dg.reg = "AL_CONTROL" /\ dg.cmd \in {"BWR", "APWR", "FPWR"}
           H == IF wr THEN {p \in S : Hears(p, dg.val)} ELSE {}
<1>1. /\ request' = IF wr THEN Written(request, H, dg.val.state) ELSE request
      /\ al' = [p \in Bus |-> [al[p] EXCEPT !.err = @ /\ p \notin H]]
  BY DEF Exchanged, Executed
<1>2. /\ al \in [Bus -> [state : AlStates, err : BOOLEAN]] /\ request \in [Bus -> AlStates]
  BY DEF Base, TypeOK
<1>3. ASSUME NEW p \in Bus
      PROVE  /\ al'[p].state = al[p].state
             /\ p \in H => ~al'[p].err
             /\ p \notin H => al'[p] = al[p]
  <2>1. al'[p] = [al[p] EXCEPT !.err = al[p].err /\ p \notin H]
    BY <1>1
  <2> HIDE DEF H
  <2>2. al[p] \in [state : AlStates, err : BOOLEAN]
    BY <1>2
  <2>3. CASE p \in H
    BY <2>1, <2>2, <2>3
  <2>4. CASE p \notin H
    <3>1. al'[p] = [al[p] EXCEPT !.err = al[p].err]
      <4>1. (al[p].err /\ p \notin H) = al[p].err
        BY <2>2, <2>4
      <4> QED
        BY <2>1, <4>1
    <3> QED
      BY <2>2, <2>4, <3>1
  <2> QED
    BY <2>3, <2>4
<1>4. ~wr => request' = request /\ al' = al
  <2> SUFFICES ASSUME ~wr PROVE request' = request /\ al' = al
    OBVIOUS
  <2>1. H = {}
    OBVIOUS
  <2>2. \A p \in Bus : al'[p] = al[p]
    BY <1>3, <2>1
  <2>3. al' = [p \in Bus |-> al'[p]] /\ al = [p \in Bus |-> al[p]]
    BY <1>1, <1>2
  <2> QED
    BY <1>1, <2>2, <2>3
<1>5. op.kind = "Rescan" => dg.reg # "AL_CONTROL"
  <2> SUFFICES ASSUME op.kind = "Rescan" PROVE dg.reg # "AL_CONTROL"
    OBVIOUS
  <2>1. op.scan \in ScanType(ScanSteps) /\ OpRequest = ScanRequest(op.scan)
    BY RescanAnswer
  <2>2. op.scan.at \in ScanSteps
    BY <2>1 DEF ScanType
  <2> QED
    BY <2>1, <2>2, ScanAsks DEF ScanSteps, Write, Read, Datagram
<1>6. ASSUME dg.reg = "AL_CONTROL", NEW p \in Bus
      PROVE \/ /\ p = Subject /\ p \in S /\ Hears(p, dg.val)
               /\ request'[p] = dg.val.state /\ ~al'[p].err
               /\ al'[p].state = al[p].state
            \/ /\ ~(p \in S /\ dg.cmd = "FPWR" /\ Hears(p, dg.val))
               /\ request'[p] = request[p] /\ al'[p] = al[p]
  <2>1. CASE p \in H
    <3>1. wr /\ p \in S /\ Hears(p, dg.val)
      BY <2>1
    <3>2. request'[p] = dg.val.state
      BY <1>1, <2>1, <3>1 DEF Written
    <3>3. dg.to = {Station(Subject)} /\ dg.cmd \in {"FPRD", "FPWR"} /\ Subject \in Nat
      BY <1>5, <1>6, SubjectAsked DEF AskedOfOne, Bus, Exchanged
    <3>4. p = Subject
      BY <3>1, <3>3, Taken DEF Base
    <3> QED
      BY <1>3, <2>1, <3>1, <3>2, <3>4
  <2>2. CASE p \notin H
    <3>1. request'[p] = request[p]
      BY <1>1, <1>2, <2>2 DEF Written
    <3>2. ~(p \in S /\ dg.cmd = "FPWR" /\ Hears(p, dg.val))
      BY <1>6, <2>2
    <3> QED
      BY <1>3, <2>2, <3>1, <3>2
  <2> QED
    BY <2>1, <2>2
<1> QED
  BY <1>4, <1>5, <1>6

\* A status that is read is that of the slave it is read from.
LEMMA StatusTaken ==
  ASSUME Base, NEW r, NEW S, Exchanged(r, S), NEW p \in Bus, r.wkc = 1,
         OpRequest = Read(Station(p), "AL_STATUS")
  PROVE  r.data.al = al[p].state /\ (r.data.err <=> al[p].err)
<1>1. OpRequest.to = {Station(p)} /\ OpRequest.cmd = "FPRD" /\ OpRequest.reg = "AL_STATUS"
  BY DEF Read, Datagram
<1>2. p \in Nat /\ StationOwn
  BY DEF Base, Bus
<1>3. r.data \in Data(p, OpRequest)
  BY <1>1, <1>2, Taken
<1>4. r.data = [al |-> al[p].state, err |-> al[p].err]
  BY <1>1, <1>3 DEF Data
<1> QED
  BY <1>4

\* A state change of one slave that is done has found the slave in that state.
LEMMA ChangeReached ==
  ASSUME Base, NEW r, NEW S, Exchanged(r, S), NEW p \in Bus,
         NEW c \in ChangeType(ChangeSteps), OpRequest = ChangeRequest(c, Station(p)),
         ChangeAfter(c, r).at = "Done"
  PROVE  al[p].state = c.target /\ ~al[p].err
<1>1. c.at = "ReadStatus" /\ r.wkc = 1 /\ ~r.data.err /\ r.data.al = c.target
  BY ChangeDone
<1>2. OpRequest = Read(Station(p), "AL_STATUS")
  BY <1>1 DEF ChangeRequest
<1> QED
  BY <1>1, <1>2, StatusTaken

\* PreOp that is done has found its slave in the state it asked for.
LEMMA PreOpReached ==
  ASSUME Base, NEW r, NEW S, Exchanged(r, S), NEW p \in Bus,
         NEW o \in PreOpType(PreOpSteps), o.change.at \in ChangeSteps,
         OpRequest = PreOpRequest(o, Station(p)), PreOpAfter(o, r).at = "Done"
  PROVE  al[p].state = o.change.target
<1>1. /\ o.at = "Change" /\ o.change.at = "ReadStatus" /\ r.wkc = 1
      /\ ~r.data.err /\ r.data.al = o.change.target
  BY PreOpAfterType
<1>2. OpRequest = ChangeRequest(o.change, Station(p))
  BY <1>1, PreOpAsks
<1>3. OpRequest = Read(Station(p), "AL_STATUS")
  BY <1>1, <1>2 DEF ChangeRequest
<1> QED
  BY <1>1, <1>3, StatusTaken

\* A slave tracked in a new state is in it, unless something has gone wrong on the bus.
Reported ==
  \A k \in DOMAIN slaves \cap DOMAIN slaves' :
    slaves'[k].al # slaves[k].al => al'[k - 1].state = slaves'[k].al \/ mishaps > 0

\* Tracking slaves that are in the state is sound.
LEMMA TrackedReported ==
  ASSUME Base, NEW S, NEW target \in AlStates, slaves' = Tracked(S, target),
         \A p \in Bus : al'[p].state = al[p].state,
         \A p \in S \cap Bus : al[p].state = target \/ mishaps > 0
  PROVE  Reported
<1>1. slaves \in Seq(Listed) /\ Len(slaves) <= N /\ N \in Nat
  BY MasterAssumption DEF Base, TypeOK, Listed, MasterAssumption
<1>2. ASSUME NEW k \in DOMAIN slaves, slaves'[k].al # slaves[k].al
      PROVE  al'[k - 1].state = slaves'[k].al \/ mishaps > 0
  <2>1. slaves'[k].al = IF k - 1 \in S THEN target ELSE slaves[k].al
    BY <1>1, TrackedType
  <2>2. k - 1 \in S /\ slaves'[k].al = target
    BY <1>2, <2>1
  <2>3. k - 1 \in Bus
    BY <1>1 DEF Bus
  <2> QED
    BY <2>2, <2>3
<1> QED
  BY <1>2 DEF Reported

\* An exchange asks a slave with a latched error for nothing, unless it acknowledges it.
LEMMA ErrorKept ==
  ASSUME Base, ReachInv, NEW r, NEW S, Exchanged(r, S)
  PROVE  \A p \in Bus : al'[p].err => request'[p] = al'[p].state
<1>1. CASE OpRequest.reg = "AL_CONTROL"
  <2> SUFFICES ASSUME NEW p \in Bus, al'[p].err PROVE request'[p] = al'[p].state
    OBVIOUS
  <2>1. request'[p] = request[p] /\ al'[p] = al[p]
    BY <1>1, AlAfter
  <2> QED
    BY <2>1 DEF ReachInv
<1>2. CASE OpRequest.reg # "AL_CONTROL"
  <2>1. request' = request /\ al' = al
    BY <1>2, AlAfter
  <2> QED
    BY <2>1 DEF ReachInv
<1> QED
  BY <1>1, <1>2

\* The bring-up keeps it, and tracks all slaves in SAFEOP when all have reached it.
LEMMA StartReach ==
  ASSUME Base, ReachInv, NEW r, NEW S, Exchanged(r, S), op.kind = "Start",
         UNCHANGED mishaps \/ Mishap
  PROVE  ReachInv' /\ Reported
<1> DEFINE f == op.cfg
           g == ConfigAfter(f, r)
           s == Station(op.pos)
           ref == Station(RefSlave)
<1>1. StartAfter(r)
  BY DEF Exchanged, OpAfter
<1>2. /\ DOMAIN op = {"kind", "pos", "cfg"} /\ op.pos \in Bus /\ ConfigInv(f)
      /\ OpRequest = ConfigRequest(f, s, ref) /\ Subject = op.pos
  BY DEF Base, OpTyped, OpRequest, Subject
<1>3. N \in Nat /\ op.pos \in Nat /\ mishaps \in Nat /\ slaves \in Seq(Listed)
  BY <1>2, MasterAssumption DEF MasterAssumption, Bus, Base, TypeOK, Listed
<1>4. mishaps' = 0 => mishaps = 0
  BY <1>3 DEF Mishap
<1>5. \A p \in Bus : al'[p].err => request'[p] = al'[p].state
  BY ErrorKept
<1>6. \A p \in Bus : al'[p].state = al[p].state
  BY BusAfter
<1>7. ASSUME NEW p \in Bus, p # op.pos PROVE request'[p] = request[p] /\ al'[p] = al[p]
  BY <1>2, <1>7, AlAfter
<1>8. ASSUME mishaps = 0, NEW p \in Bus, p < op.pos
      PROVE  al'[p].state = "SAFEOP" /\ request'[p] = "SAFEOP"
  <2>1. p # op.pos
    BY <1>3, <1>8 DEF Bus
  <2> QED
    BY <1>6, <1>7, <1>8, <2>1 DEF ReachInv
<1>9. g.at # "Failed" =>
        \/ Stays(f, g, r)
        \/ Leaves(f, r) /\ (On(f, g) \/ Over(f, g) \/ Skip(f, g))
  BY <1>2, ConfigStep
<1>10. f.at \in Changes => OpRequest = ChangeRequest(f.change, s)
  BY <1>2, ConfigAsks
<1>11. f.change \in ChangeType(ChangeSteps) /\ f.change.at \in ChangeSteps
  BY <1>2 DEF ConfigInv, ChangeType
<1>12. f.at = "ToSafeop" => f.change.target = "SAFEOP"
  BY <1>2, FixedWork DEF ConfigInv
<1> HIDE DEF f, g, s, ref
<1>13. ASSUME g.at = "Done"
       PROVE  /\ \A p \in Bus : p = op.pos => al[p].state = "SAFEOP"
              /\ mishaps = 0 => \A p \in Bus : p = op.pos => request'[p] = "SAFEOP"
  <2>1. f.at = "ToSafeop" /\ ChangeAfter(f.change, r).at = "Done"
    <3>1. ~(g.at \in Phases)
      BY <1>13 DEF Phases, Order
    <3>2. Over(f, g) /\ Leaves(f, r)
      BY <1>9, <1>13, <3>1 DEF Stays, On, Skip, ConfigInv
    <3> QED
      BY <3>2 DEF Over, Leaves, Changes
  <2>2. OpRequest = ChangeRequest(f.change, s)
    BY <1>10, <2>1 DEF Changes
  <2>3. \A p \in Bus : p = op.pos => al[p].state = f.change.target /\ ~al[p].err
    BY <1>11, <2>1, <2>2, ChangeReached DEF s
  <2>4. f.change.at = "ReadStatus"
    BY <1>11, <2>1, ChangeDone
  <2>5. OpRequest.reg = "AL_STATUS"
    BY <1>11, <2>2, <2>4, ChangeAsks
  <2>6. request' = request
    BY <2>5, AlAfter
  <2> QED
    BY <1>12, <2>1, <2>3, <2>4, <2>6 DEF ReachInv, f
<1>14. CASE g.at = "Failed"
  <2>1. op' = Idle /\ slaves' = slaves
    BY <1>1, <1>14 DEF StartAfter, f, g
  <2> QED
    BY <1>5, <2>1 DEF ReachInv, Reported, Idle
<1>15. CASE g.at \notin Ended
  <2>1. op' = [op EXCEPT !.cfg = g] /\ slaves' = slaves
    BY <1>1, <1>15 DEF StartAfter, Ended, f, g
  <2>2. op'.kind = "Start" /\ op'.pos = op.pos /\ op'.cfg = g
    BY <1>2, <2>1
  <2>3. ASSUME mishaps = 0, NEW p \in Bus, p = op.pos, g.at = "ToSafeop",
               g.change.at = "ReadStatus"
        PROVE  request'[p] = "SAFEOP" \/ al'[p].err
    <3>1. Stays(f, g, r) /\ f.at = "ToSafeop" /\ g.change = ChangeAfter(f.change, r)
      BY <1>9, <1>15, <2>3 DEF Ended, Stays, On, Over, Skip, Fresh, Changes
    <3>2. OpRequest = ChangeRequest(f.change, s)
      BY <1>10, <3>1 DEF Changes
    <3>3. /\ f.change.at \in {"WriteControl", "AckError"} =>
               /\ OpRequest.reg = "AL_CONTROL" /\ OpRequest.cmd = "FPWR"
               /\ OpRequest.val.state = "SAFEOP"
          /\ f.change.at = "ReadStatus" => OpRequest.reg = "AL_STATUS"
          /\ OpRequest.to = {s} /\ OpRequest.cmd \in {"FPRD", "FPWR"}
      BY <1>11, <1>12, <3>1, <3>2, ChangeAsks
    <3>4. r.wkc = 1 /\ f.change.at # "ReadStatusCode"
      <4>1. ChangeAfter(f.change, r).at = "ReadStatus"
        BY <2>3, <3>1
      <4>2. r.wkc # 1 \/ f.change.at = "ReadStatusCode"
              => ChangeAfter(f.change, r).at = "Failed"
        BY <1>11 DEF ChangeAfter, ChangeType
      <4> QED
        BY <4>1, <4>2
    <3>5. S = {p}
      BY <1>3, <2>3, <3>3, <3>4, Taken DEF Base, s
    <3>6. CASE f.change.at = "ReadStatus"
      <4>1. request' = request /\ al' = al
        BY <3>3, <3>6, AlAfter
      <4> QED
        BY <2>3, <3>1, <3>6, <4>1 DEF ReachInv, f
    <3>7. CASE f.change.at \in {"WriteControl", "AckError"}
      <4>1. \/ request'[p] = OpRequest.val.state
            \/ ~Hears(p, OpRequest.val) /\ al'[p] = al[p]
        BY <3>3, <3>5, <3>7, AlAfter
      <4>2. ~Hears(p, OpRequest.val) => al[p].err
        BY DEF Hears
      <4> QED
        BY <3>3, <3>7, <4>1, <4>2
    <3> QED
      BY <1>11, <3>4, <3>6, <3>7 DEF ChangeSteps
  <2>4. ReachInv'
    BY <1>4, <1>5, <1>8, <2>2, <2>3 DEF ReachInv
  <2> QED
    BY <2>1, <2>4 DEF Reported
<1>16. ASSUME g.at = "Done" PROVE ReachInv' /\ Reported
  <2>1. CASE op.pos + 1 < N
    <3> DEFINE h == Config(Follower(op.pos + 1))
    <3>1. op' = [op EXCEPT !.pos = op.pos + 1, !.cfg = h] /\ slaves' = slaves
      BY <1>1, <1>16, <2>1 DEF StartAfter, StartNext, f, g
    <3>2. Follower(op.pos + 1) \in BOOLEAN
      BY DEF Follower
    <3>3. h.at # "ToSafeop"
      BY <3>2, ConfigBegins
    <3> HIDE DEF h
    <3>4. op'.kind = "Start" /\ op'.pos = op.pos + 1 /\ op'.cfg = h
      BY <1>2, <3>1
    <3>5. ASSUME mishaps = 0, NEW p \in Bus, p < op.pos + 1
          PROVE  al'[p].state = "SAFEOP" /\ request'[p] = "SAFEOP"
      <4>1. p < op.pos \/ p = op.pos
        BY <1>3, <3>5 DEF Bus
      <4> QED
        BY <1>6, <1>8, <1>13, <1>16, <3>5, <4>1
    <3>6. ReachInv'
      BY <1>4, <1>5, <3>3, <3>4, <3>5 DEF ReachInv
    <3> QED
      BY <3>1, <3>6 DEF Reported
  <2>2. CASE ~(op.pos + 1 < N)
    <3>1. op' = [kind |-> "Launch"] /\ slaves' = Tracked(Bus, "SAFEOP")
      BY <1>1, <1>16, <2>2 DEF StartAfter, StartNext, f, g
    <3>2. ReachInv'
      BY <1>5, <3>1 DEF ReachInv
    <3>3. ASSUME NEW p \in Bus PROVE al[p].state = "SAFEOP" \/ mishaps > 0
      <4>1. p < op.pos \/ p = op.pos
        BY <1>3, <2>2 DEF Bus
      <4>2. CASE mishaps = 0
        BY <1>6, <1>8, <1>13, <1>16, <4>1, <4>2
      <4> QED
        BY <1>3, <4>2
    <3>4. Reported
      BY <1>6, <3>1, <3>3, TrackedReported DEF AlStates
    <3> QED
      BY <3>2, <3>4
  <2> QED
    BY <2>1, <2>2
<1> QED
  BY <1>14, <1>15, <1>16 DEF Ended

\* The other operations track a slave only by the state they have read back.
LEMMA OtherReach ==
  ASSUME Base, ReachInv, NEW r, NEW S, Exchanged(r, S), op.kind # "Start"
  PROVE  ReachInv' /\ Reported
<1>1. ReachInv'
  <2>1. op'.kind # "Start"
    BY KindKept DEF Exchanged
  <2> QED
    BY <2>1, ErrorKept DEF ReachInv
<1>2. \A p \in Bus : al'[p].state = al[p].state
  BY BusAfter
<1>3. slaves \in Seq(Listed)
  BY DEF Base, TypeOK, Listed
<1>4. slaves' = slaves => Reported
  BY DEF Reported
<1>5. CASE op.kind = "Rescan" /\ RescanAfter(r)
  <2>1. slaves' = slaves \/ \E x : slaves' = Append(slaves, x)
    BY <1>5 DEF RescanAfter
  <2>2. ASSUME NEW x, slaves' = Append(slaves, x) PROVE Reported
    <3>1. \A k \in DOMAIN slaves : slaves'[k] = slaves[k]
      BY <1>3, <2>2
    <3> QED
      BY <3>1 DEF Reported
  <2> QED
    BY <1>1, <1>4, <2>1, <2>2
<1>6. CASE op.kind = "State" /\ StateAfter(r)
  <2> DEFINE f == PreOpAfter(op.pre, r)
             s == Station(op.pos)
  <2>1. op.pos \in Bus /\ op.target \in AlStates /\ op.pre \in PreOpType(PreOpSteps) /\ PreOpInv(op)
    BY <1>6 DEF Base, OpTyped
  <2>2. op.pre.change.at \in ChangeSteps
    BY <2>1 DEF PreOpInv, PreOpType, PreOpSteps
  <2>3. OpRequest = PreOpRequest(op.pre, s)
    BY <1>6 DEF OpRequest
  <2>4. slaves' = IF f.at = "Done" THEN Tracked({op.pos}, op.target) ELSE slaves
    BY <1>6 DEF StateAfter
  <2>5. f.at = "Done" => al[op.pos].state = op.target
    BY <2>1, <2>2, <2>3, PreOpReached DEF PreOpInv
  <2> HIDE DEF f
  <2>10. ASSUME f.at = "Done" PROVE Reported
    BY <1>2, <2>1, <2>4, <2>5, <2>10, TrackedReported
  <2> QED
    BY <1>1, <1>4, <2>4, <2>10
<1>7. CASE op.kind = "Sdo" /\ SdoPreAfter(r)
  <2> DEFINE f == PreOpAfter(op.pre, r)
             s == Station(op.pos)
  <2>1. /\ op.pos \in Bus /\ op.target \in AlStates /\ PreOpInv(op)
        /\ op.pre \in PreOpType(PreOpSteps \cup {"Done"})
    BY <1>7 DEF Base, OpTyped
  <2>2. op.pre.at # "Done"
    BY <1>7 DEF SdoPreAfter
  <2>3. op.pre \in PreOpType(PreOpSteps) /\ op.pre.change.at \in ChangeSteps
    BY <2>1, <2>2 DEF PreOpInv, PreOpType
  <2>4. OpRequest = PreOpRequest(op.pre, s)
    BY <1>7, <2>2 DEF OpRequest
  <2>5. slaves' = IF f.at = "Done" THEN Tracked({op.pos}, op.target) ELSE slaves
    BY <1>7 DEF SdoPreAfter
  <2>6. f.at = "Done" => al[op.pos].state = op.target
    BY <2>1, <2>3, <2>4, PreOpReached DEF PreOpInv
  <2> HIDE DEF f
  <2>10. ASSUME f.at = "Done" PROVE Reported
    BY <1>2, <2>1, <2>5, <2>6, <2>10, TrackedReported
  <2> QED
    BY <1>1, <1>4, <2>5, <2>10
<1>8. CASE op.kind = "Sdo" /\ SdoCoeAfter(r)
  BY <1>1, <1>4, <1>8 DEF SdoCoeAfter
<1>9. CASE op.kind = "Stop" /\ StopAfter(r)
  <2> DEFINE f == ChangeAfter(op.change, r)
  <2>1. /\ op.idx \in 1 .. N /\ op.change \in ChangeType(ChangeSteps)
        /\ op.change.target = "PREOP"
    BY <1>9 DEF Base, OpTyped
  <2>2. cyclic # <<>> /\ cyclic \in {<<>>, [k \in 1 .. N |-> Station(k - 1)]}
    BY <1>9 DEF Exchanged, Waiting, Base, TypeOK
  <2>3. cyclic[op.idx] = op.idx
    BY <2>1, <2>2, EngineLength
  <2>4. N \in Nat
    BY MasterAssumption DEF MasterAssumption
  <2>5. PICK p \in Bus : p = op.idx - 1 /\ Station(p) = op.idx
    BY <2>1, <2>4 DEF Bus, Station
  <2>6. OpRequest = ChangeRequest(op.change, Station(p))
    BY <1>9, <2>3, <2>5 DEF OpRequest
  <2>7. slaves' = IF f.at = "Done" THEN Tracked({p}, "PREOP") ELSE slaves
    BY <1>9, <2>3, <2>5 DEF StopAfter
  <2>8. f.at = "Done" => al[p].state = "PREOP"
    BY <2>1, <2>6, ChangeReached
  <2> HIDE DEF f
  <2>9. ASSUME f.at = "Done" PROVE Reported
    BY <1>2, <2>7, <2>8, <2>9, TrackedReported DEF AlStates
  <2> QED
    BY <1>1, <1>4, <2>7, <2>9
<1> QED
  BY <1>1, <1>5, <1>6, <1>7, <1>8, <1>9 DEF Exchanged, OpAfter

\* A command tracks nothing, and a bring-up begins with no slave passed.
LEMMA CommandReach ==
  ASSUME Base, ReachInv, Rescan \/ SetState \/ Sdo \/ Start \/ Stop
  PROVE  ReachInv' /\ Reported
<1>1. UNCHANGED <<al, request, mishaps>>
  BY DEF Rescan, SetState, Sdo, Start, Stop, Begin, bus, history
<1>2. slaves' \in {<<>>, slaves}
  BY DEF Rescan, SetState, Sdo, Start, Stop
<1>3. Reported
  BY <1>2 DEF Reported
<1>4. \A p \in Bus : al'[p].err => request'[p] = al'[p].state
  BY <1>1 DEF ReachInv
<1>5. CASE Start
  <2> DEFINE f == Config(Follower(0))
  <2>1. op' = [kind |-> "Start", pos |-> 0, cfg |-> f]
    BY <1>5 DEF Start, Begin
  <2>2. f.at # "ToSafeop"
    BY ConfigBegins DEF Follower
  <2> HIDE DEF f
  <2>3. op'.pos = 0 /\ op'.cfg = f /\ \A p \in Bus : ~(p < 0)
    BY <2>1 DEF Bus
  <2> QED
    BY <1>3, <1>4, <2>2, <2>3 DEF ReachInv
<1>6. CASE Rescan \/ SetState \/ Sdo \/ Stop
  <2>1. op'.kind # "Start"
    BY <1>6, OtherBegins
  <2> QED
    BY <1>3, <1>4, <2>1 DEF ReachInv
<1> QED
  BY <1>5, <1>6

\* What the slaves do on their own, in a step that is no mishap.
LEMMA OthersReach ==
  ASSUME Base, ReachInv, CyclicTick \/ Environment \/ UNCHANGED vars
  PROVE  ReachInv' /\ Reported
<1>1. UNCHANGED <<slaves, op, cyclic, pit>>
  BY EnvironmentType DEF Base, TypeOK, BusType, master
<1>2. Reported
  BY <1>1 DEF Reported
<1>3. /\ al \in [Bus -> [state : AlStates, err : BOOLEAN]] /\ request \in [Bus -> AlStates]
      /\ mishaps \in Nat
  BY DEF Base, TypeOK
<1>4. ASSUME NEW p \in Bus, NEW state \in AlStates, NEW err \in BOOLEAN,
             Entered(p, state, err)
      PROVE  /\ al'[p] = [state |-> state, err |-> err] /\ request'[p] = state
             /\ \A q \in Bus : q # p => al'[q] = al[q] /\ request'[q] = request[q]
  BY <1>3, <1>4 DEF Entered
<1>5. ASSUME NEW p \in Bus, NEW state \in AlStates, NEW err \in BOOLEAN,
             Entered(p, state, err),
             mishaps' = 0 => /\ mishaps = 0
                             /\ err \/ (state = request[p] /\ ~al[p].err)
                             /\ ~(al[p].state = "SAFEOP" /\ request[p] = "SAFEOP")
      PROVE  ReachInv'
  <2>1. ASSUME NEW q \in Bus, al'[q].err PROVE request'[q] = al'[q].state
    <3>1. CASE q = p
      <4>1. al'[p] = [state |-> state, err |-> err] /\ request'[p] = state
        BY <1>4, <1>5
      <4> QED
        BY <3>1, <4>1
    <3>2. CASE q # p
      <4>1. al'[q] = al[q] /\ request'[q] = request[q]
        BY <1>4, <1>5, <3>2
      <4> QED
        BY <2>1, <4>1 DEF ReachInv
    <3> QED
      BY <3>1, <3>2
  <2>2. SUFFICES ASSUME mishaps' = 0, op.kind = "Start", NEW q \in Bus
                 PROVE  /\ q < op.pos => al'[q].state = "SAFEOP" /\ request'[q] = "SAFEOP"
                        /\ q = op.pos /\ op.cfg.at = "ToSafeop"
                             /\ op.cfg.change.at = "ReadStatus" =>
                             request'[q] = "SAFEOP" \/ al'[q].err
    BY <1>1, <2>1 DEF ReachInv
  <2>3. CASE q # p
    <3>1. al'[q] = al[q] /\ request'[q] = request[q]
      BY <1>4, <1>5, <2>3
    <3> QED
      BY <1>5, <2>2, <3>1 DEF ReachInv
  <2>4. CASE q = p
    <3>1. al'[q] = [state |-> state, err |-> err] /\ request'[q] = state
      BY <1>4, <1>5, <2>4
    <3> QED
      BY <1>5, <2>2, <2>4, <3>1 DEF ReachInv
  <2> QED
    BY <2>3, <2>4
<1>6. ASSUME UNCHANGED <<al, request>>, mishaps' = 0 => mishaps = 0 PROVE ReachInv'
  BY <1>1, <1>6 DEF ReachInv
<1>7. Mishap => mishaps' # 0
  BY <1>3 DEF Mishap
<1>8. CASE CyclicTick
  <2>1. pit /\ UNCHANGED <<al, mishaps>>
    BY <1>8 DEF CyclicTick, history
  <2>2. op.kind = "none"
    BY <2>1 DEF Base, UserInv, OneUser
  <2>3. PICK p \in Bus : ~al[p].err /\ request' = [request EXCEPT ![p] = "OP"]
    BY <1>8 DEF CyclicTick, Hears, Reached
  <2> QED
    BY <1>1, <1>2, <1>3, <2>1, <2>2, <2>3 DEF ReachInv
<1>9. CASE Environment
  <2>1. ASSUME NEW p \in Bus, Settle(p) PROVE ReachInv'
    <3>1. /\ request[p] # al[p].state /\ Entered(p, request[p], FALSE) /\ mishaps' = mishaps
      BY <2>1 DEF Settle, history
    <3>2. request[p] \in AlStates /\ ~al[p].err
      BY <1>3, <3>1 DEF ReachInv
    <3> QED
      BY <1>5, <3>1, <3>2
  <2>2. ASSUME NEW p \in Bus, Refuse(p) PROVE ReachInv'
    <3>1. /\ Rank(request[p]) > Rank(al[p].state) /\ Entered(p, al[p].state, TRUE)
          /\ mishaps' = mishaps
      BY <2>2 DEF Refuse, history
    <3>2. al[p].state \in AlStates
      BY <1>3
    <3>3. ~(al[p].state = "SAFEOP" /\ request[p] = "SAFEOP")
      BY <3>1 DEF Rank
    <3> QED
      BY <1>5, <3>1, <3>2, <3>3
  <2>3. ASSUME NEW p \in Bus, Slip(p) \/ PowerCycle(p) PROVE ReachInv'
    <3>1. Mishap /\ (Entered(p, "SAFEOP", TRUE) \/ Entered(p, "INIT", FALSE))
      BY <2>3 DEF Slip, PowerCycle
    <3> QED
      BY <1>5, <1>7, <3>1 DEF AlStates
  <2>4. ASSUME NEW p \in Bus, Serve(p) PROVE ReachInv'
    BY <1>6, <2>4 DEF Serve, history
  <2>5. CASE Cut \/ Mend
    BY <1>2, <1>6, <1>7, <2>5 DEF Cut, Mend, history
  <2> QED
    BY <1>2, <1>9, <2>1, <2>2, <2>3, <2>4, <2>5 DEF Environment
<1>10. CASE UNCHANGED vars
  BY <1>2, <1>6, <1>10 DEF vars, bus, history
<1> QED
  BY <1>2, <1>8, <1>9, <1>10

\* The worker's other steps track nothing.
LEMMA EndReach ==
  ASSUME Base, ReachInv, StartMissing \/ StopIdle \/ Launch
  PROVE  ReachInv' /\ Reported
<1>1. UNCHANGED <<slaves, al, request>> /\ op' = Idle
  BY DEF StartMissing, StopIdle, Launch, bus
<1> QED
  BY <1>1 DEF ReachInv, Reported, Idle

\* At power-up no slave has an error.
LEMMA InitReach == Init => ReachInv
  BY DEF Init, ReachInv, Idle

\* Every step keeps ReachInv and reports only what was reached.
LEMMA ReachKept == Base /\ ReachInv /\ [Next]_vars => ReachInv' /\ Reported
<1> SUFFICES ASSUME Base, ReachInv, [Next]_vars PROVE ReachInv' /\ Reported
  OBVIOUS
<1>1. CASE Rescan \/ SetState \/ Sdo \/ Start \/ Stop
  BY <1>1, CommandReach
<1>2. CASE Worker
  <2>1. CASE StartMissing \/ StopIdle \/ Launch
    BY <2>1, EndReach
  <2>2. CASE \E r, S : Exchanged(r, S) /\ (UNCHANGED mishaps \/ Mishap)
    BY <2>2, StartReach, OtherReach
  <2> QED
    BY <1>2, <2>1, <2>2, WorkerSteps
<1>3. CASE CyclicTick \/ Environment \/ UNCHANGED vars
  BY <1>3, OthersReach
<1> QED
  BY <1>1, <1>2, <1>3 DEF Next

\* While nothing goes wrong on the bus, a slave is tracked in a new state only when it is
\* in that state (update_state follows AL status, not AL control).
THEOREM ReportedAlwaysReached == Spec => ReportedIsReached
<1>1. Init => Base /\ ReachInv
  BY InitBase, InitReach
<1>2. Base /\ ReachInv /\ [Next]_vars => (Base /\ ReachInv)'
  BY BaseKept, ReachKept
<1>3. Base /\ ReachInv /\ [Next]_vars =>
        [\A k \in DOMAIN slaves \cap DOMAIN slaves' :
           slaves'[k].al # slaves[k].al =>
             al'[k - 1].state = slaves'[k].al \/ mishaps > 0]_vars
  BY ReachKept DEF Reported
<1> QED
  BY <1>1, <1>2, <1>3, PTL DEF Spec, ReportedIsReached

-----------------------------------------------------------------------------
(* Whose answer is in the mailbox: BoxInv *)

\* SM1 has been set up for the transfers of this operation.
Prepared(o) ==
  \/ o.kind = "Sdo" /\ o.pre.at \in {"Change", "Done"}
  \/ o.kind = "Start" /\ Place(o.cfg.at) > 4

\* The transfer of an SDO waits for its state change.
CoeWaits == op.kind = "Sdo" /\ op.pre.at # "Done" => op.coe.at = "WriteRequest"

\* What an exchange can do to a transfer: it begins only where SM1 is set up, with a
\* request the slave has confirmed; SM1 counts as set up only when the slave has confirmed
\* it; a transfer that has sent asks only for its answer, and is over by reading one or
\* together with all of the operation.
SendStep(r) ==
  /\ Transferring(op') \/ Prepared(op') => op'.kind = op.kind /\ op'.pos = op.pos
  /\ ~Transferring(op) /\ Transferring(op') =>
       /\ Prepared(op) /\ r.wkc = 1
       /\ \E val : OpRequest = Write(Station(op.pos), "RX_MBOX", val)
  /\ ~Transferring(op) /\ ~Transferring(op') /\ Prepared(op') =>
       /\ OpRequest.reg # "RX_MBOX"
       /\ ~Prepared(op) =>
            r.wkc = 1 /\ OpRequest = Write(Station(op.pos), "CONFIG", <<"MboxSm1", 1>>)
  /\ Transferring(op) =>
       /\ OpRequest \in {Read(Station(op.pos), "SM1_STATUS"), Read(Station(op.pos), "TX_MBOX")}
       /\ ~Transferring(op') /\ Prepared(op') =>
            r.wkc = 1 /\ OpRequest = Read(Station(op.pos), "TX_MBOX")

\* Only an SDO and a bring-up transfer anything, and only where SM1 is set up: in
\* FsmSlaveConfig the mailbox comes before the CoE phases.
LEMMA SendsOnlyThere ==
  /\ \A o : Transferring(o) \/ Prepared(o) => o.kind \in {"Sdo", "Start"}
  /\ \A o : Transferring(o) => Prepared(o)
  /\ \A ph \in CoePhases : Place(ph) > 4
<1>1. \A o : Transferring(o) \/ Prepared(o) => o.kind \in {"Sdo", "Start"}
  BY DEF Transferring, Prepared
<1>2. \A ph \in CoePhases : Place(ph) > 4
  <2>1. Order[6] = "SdoInit" /\ Order[7] = "PdoMapping" /\ Order[8] = "PdoAssign"
    BY DEF Order
  <2>2. Place("SdoInit") = 6 /\ Place("PdoMapping") = 7 /\ Place("PdoAssign") = 8
    BY <2>1, Places
  <2> QED
    BY <2>2 DEF CoePhases
<1>3. \A o : Transferring(o) => Prepared(o)
  BY <1>2 DEF Transferring, Prepared
<1> QED
  BY <1>1, <1>2, <1>3

\* An SDO steps so.
LEMMA SdoSends ==
  ASSUME Base, CoeWaits, NEW r, NEW S, Exchanged(r, S), op.kind = "Sdo"
  PROVE  SendStep(r) /\ CoeWaits'
<1> DEFINE s == Station(op.pos)
<1>1. /\ op \in [kind : {"Sdo"}, pos : Bus, target : AlStates,
                 pre : PreOpType(PreOpSteps \cup {"Done"}), coe : TransferType(TransferSteps)]
      /\ PreOpInv(op)
  BY DEF Base, OpTyped
<1>2. op' = Idle => (SendStep(r) /\ CoeWaits') \/ Transferring(op)
  BY DEF Idle, SendStep, CoeWaits, Transferring, Prepared
<1>3. CASE SdoPreAfter(r)
  <2> DEFINE o == op.pre
             f == PreOpAfter(o, r)
  <2>1. o.at # "Done" /\ op' = IF f.at = "Failed" THEN Idle ELSE [op EXCEPT !.pre = f]
    BY <1>3 DEF SdoPreAfter
  <2>2. op.coe.at = "WriteRequest" /\ ~Transferring(op)
    BY <2>1 DEF CoeWaits, Transferring
  <2>3. o \in PreOpType(PreOpSteps) /\ o.change.at \in ChangeSteps
    BY <1>1, <2>1 DEF PreOpInv, PreOpType
  <2>4. OpRequest = PreOpRequest(o, s)
    BY <2>1 DEF OpRequest
  <2>5. f.at \in {"Change", "Done"} => o.at = "Change" \/ (o.at = "ConfigSm1" /\ r.wkc = 1)
    <3>1. ASSUME f = [o EXCEPT !.at = "ConfigSm1"] PROVE f.at = "ConfigSm1"
      BY <2>3, <3>1 DEF PreOpType
    <3> HIDE DEF f
    <3>2. /\ f.at \notin Ended =>
               \/ o.at = "ConfigSm0" /\ f = [o EXCEPT !.at = "ConfigSm1"]
               \/ o.at = "ConfigSm1" /\ r.wkc = 1
               \/ o.at = "Change"
          /\ f.at = "Done" => o.at = "Change"
      BY <2>3, PreOpAfterType DEF f
    <3> QED
      BY <3>1, <3>2 DEF Ended
  <2> HIDE DEF f, s, o
  <2>6. CASE f.at = "Failed"
    BY <1>2, <2>1, <2>2, <2>6
  <2>7. CASE f.at # "Failed"
    <3>1. op' = [op EXCEPT !.pre = f]
      BY <2>1, <2>7
    <3>2. op'.kind = "Sdo" /\ op'.pos = op.pos /\ op'.pre = f /\ op'.coe = op.coe
      BY <1>1, <3>1
    <3>3. ~Transferring(op') /\ (Prepared(op') <=> f.at \in {"Change", "Done"})
      BY <2>2, <3>2 DEF Transferring, Prepared
    <3>4. CoeWaits'
      BY <2>2, <3>2 DEF CoeWaits
    <3>5. Prepared(op) <=> o.at = "Change"
      BY <2>1 DEF Prepared, o
    <3>6. CASE o.at = "Change"
      <4>1. o.change \in ChangeType(ChangeSteps) /\ OpRequest = ChangeRequest(o.change, s)
        BY <2>3, <2>4, <3>6, PreOpAsks DEF PreOpType, ChangeType
      <4>2. OpRequest.reg # "RX_MBOX"
        BY <4>1, ChangeAsks
      <4> QED
        BY <2>2, <3>2, <3>3, <3>4, <3>5, <3>6, <4>2 DEF SendStep
    <3>7. CASE o.at = "ConfigSm1"
      <4>1. OpRequest = Write(s, "CONFIG", <<"MboxSm1", 1>>)
        BY <2>3, <2>4, <3>7, PreOpAsks
      <4>2. OpRequest.reg # "RX_MBOX"
        BY <4>1 DEF Write, Datagram
      <4> QED
        BY <2>2, <2>5, <3>2, <3>3, <3>4, <3>7, <4>1, <4>2 DEF SendStep, s
    <3>8. CASE o.at \notin {"Change", "ConfigSm1"}
      BY <2>2, <2>5, <3>2, <3>3, <3>4, <3>8 DEF SendStep
    <3> QED
      BY <3>6, <3>7, <3>8
  <2> QED
    BY <2>6, <2>7
<1>4. CASE SdoCoeAfter(r)
  <2> DEFINE f == TransferAfter(op.coe, r)
  <2>1. op.pre.at = "Done" /\ op' = IF f.at \in Ended THEN Idle ELSE [op EXCEPT !.coe = f]
    BY <1>4 DEF SdoCoeAfter
  <2>2. OpRequest = TransferRequest(op.coe, s, UserSdo) /\ Prepared(op)
    BY <2>1 DEF OpRequest, Prepared
  <2>3. op.coe \in TransferType(TransferSteps) /\ op.coe.at \in TransferSteps
    BY <1>1 DEF TransferType
  <2>4. /\ f.at # "WriteRequest"
        /\ op.coe.at = "WriteRequest" /\ f.at # "Failed" => r.wkc = 1
    BY <2>3, TransferAfterType
  <2>5. Transferring(op) <=> op.coe.at # "WriteRequest"
    BY <2>1 DEF Transferring
  <2>6. /\ op.coe.at = "WriteRequest" => OpRequest = Write(s, "RX_MBOX", UserSdo)
        /\ op.coe.at # "WriteRequest" => OpRequest \in {Read(s, "SM1_STATUS"), Read(s, "TX_MBOX")}
    BY <2>2, <2>3, TransferAsks DEF TransferSteps
  <2> HIDE DEF f, s
  <2>7. CASE f.at \in Ended
    <3>1. ~Transferring(op') /\ ~Prepared(op') /\ op'.kind # "Sdo"
      BY <2>1, <2>7 DEF Idle, Transferring, Prepared
    <3> QED
      BY <2>5, <2>6, <3>1 DEF SendStep, CoeWaits, s
  <2>8. CASE f.at \notin Ended
    <3>1. op' = [op EXCEPT !.coe = f]
      BY <2>1, <2>8
    <3>2. op'.kind = "Sdo" /\ op'.pos = op.pos /\ op'.pre = op.pre /\ op'.coe = f
      BY <1>1, <3>1
    <3>3. Transferring(op') /\ CoeWaits'
      BY <2>1, <2>4, <3>2 DEF Transferring, CoeWaits
    <3> QED
      BY <2>2, <2>4, <2>5, <2>6, <2>8, <3>2, <3>3 DEF SendStep, s, Ended
  <2> QED
    BY <2>7, <2>8
<1> QED
  BY <1>3, <1>4 DEF Exchanged, OpAfter

\* A bring-up steps so.
LEMMA StartSends ==
  ASSUME Base, NEW r, NEW S, Exchanged(r, S), op.kind = "Start"
  PROVE  SendStep(r)
<1> DEFINE f == op.cfg
           g == ConfigAfter(f, r)
           s == Station(op.pos)
           ref == Station(RefSlave)
<1>1. StartAfter(r)
  BY DEF Exchanged, OpAfter
<1>2. /\ DOMAIN op = {"kind", "pos", "cfg"} /\ op.pos \in Bus /\ ConfigInv(f)
      /\ OpRequest = ConfigRequest(f, s, ref)
  BY DEF Base, OpTyped, OpRequest
<1>3. g.at # "Failed" =>
        \/ Stays(f, g, r)
        \/ Leaves(f, r) /\ (On(f, g) \/ Over(f, g) \/ Skip(f, g))
  BY <1>2, ConfigStep
<1>4. /\ f.at \in Phases /\ f.coe \in TransferType(TransferSteps)
      /\ f.change \in ChangeType(ChangeSteps) /\ f.coe.at \in TransferSteps
      /\ f.n \in Nat /\ 1 <= f.n /\ f.n <= Length(f)
  BY <1>2 DEF ConfigInv, TransferType
<1>5. /\ Transferring(op) <=> f.at \in CoePhases /\ f.coe.at # "WriteRequest"
      /\ Prepared(op) <=> Place(f.at) > 4
  BY DEF Transferring, Prepared
<1>6. Place("MboxSm1") = 4 /\ Work["MboxSm1"] = 1 /\ Order[4] = "MboxSm1"
  <2>1. Order[4] = "MboxSm1"
    BY DEF Order
  <2>2. "MboxSm1" \in Phases /\ Place("MboxSm1") = 4
    BY <2>1, Places
  <2> QED
    BY <2>1, <2>2, WorkAssumption DEF WorkAssumption, Optional, CoePhases
<1>7. op'.kind \in {"Start", "none", "Launch"}
  BY KindKept DEF Exchanged
<1> HIDE DEF s, ref, f, g
<1>8. ASSUME f.at \in CoePhases
      PROVE  /\ f.coe.at = "WriteRequest" => OpRequest = Write(s, "RX_MBOX", <<f.at, f.n>>)
             /\ f.coe.at # "WriteRequest" =>
                  OpRequest \in {Read(s, "SM1_STATUS"), Read(s, "TX_MBOX")}
             /\ f.coe.at = "ReadResponse" => OpRequest = Read(s, "TX_MBOX")
  <2>1. OpRequest = TransferRequest(f.coe, s, <<f.at, f.n>>)
    BY <1>2, <1>8, ConfigAsks
  <2> QED
    BY <1>4, <2>1, TransferAsks DEF TransferSteps
<1>9. ASSUME f.at \notin CoePhases PROVE OpRequest.reg # "RX_MBOX"
  <2>1. CASE f.at \in Changes
    <3>1. OpRequest = ChangeRequest(f.change, s)
      BY <1>2, <2>1, ConfigAsks
    <3> QED
      BY <1>4, <3>1, ChangeAsks
  <2>2. CASE f.at = "DcCycle"
    <3> DEFINE step == DcPath(f.follower)[f.n]
    <3>1. OpRequest = DcRequest(step, s, ref)
      BY <1>2, <2>2, ConfigAsks
    <3> HIDE DEF step
    <3>2. \/ OpRequest.reg \in {"DC_RECV_TIME", "DC_TIMES"}
          \/ OpRequest = Write(s, "CONFIG", <<step, 1>>)
      BY <3>1, DcAsks
    <3> QED
      BY <3>2 DEF Write, Datagram
  <2>3. CASE f.at \in Configured
    <3>1. OpRequest = Write(s, "CONFIG", <<f.at, f.n>>)
      BY <1>2, <2>3, ConfigAsks
    <3> QED
      BY <3>1 DEF Write, Datagram
  <2> QED
    BY <1>4, <1>9, <2>1, <2>2, <2>3 DEF Configured
<1>10. ASSUME ~Transferring(op'), ~Prepared(op') PROVE SendStep(r)
  BY <1>5, <1>8, <1>10 DEF SendStep, s
<1>11. CASE g.at = "Failed"
  <2>1. op' = Idle
    BY <1>1, <1>11 DEF StartAfter, f, g
  <2> QED
    BY <1>10, <2>1 DEF Idle, Transferring, Prepared
<1>12. CASE g.at = "Done"
  <2>1. CASE op.pos + 1 < N
    <3> DEFINE h == Config(Follower(op.pos + 1))
    <3>1. op' = [op EXCEPT !.pos = op.pos + 1, !.cfg = h]
      BY <1>1, <1>12, <2>1 DEF StartAfter, StartNext, f, g
    <3>2. Follower(op.pos + 1) \in BOOLEAN
      BY DEF Follower
    <3>3. h.at = "ClearFmmus"
      BY <3>2, ConfigBegins
    <3>4. Place("ClearFmmus") = 1
      <4>1. Order[1] = "ClearFmmus"
        BY DEF Order
      <4> QED
        BY <4>1, Places
    <3> HIDE DEF h
    <3>5. op'.kind = "Start" /\ op'.cfg = h
      BY <1>2, <3>1
    <3> QED
      BY <1>10, <3>3, <3>4, <3>5 DEF Transferring, Prepared, CoePhases
  <2>2. CASE ~(op.pos + 1 < N)
    <3>1. op' = [kind |-> "Launch"]
      BY <1>1, <1>12, <2>2 DEF StartAfter, StartNext, f, g
    <3> QED
      BY <1>10, <3>1 DEF Transferring, Prepared
  <2> QED
    BY <2>1, <2>2
<1>13. CASE g.at \notin Ended
  <2>1. op' = [op EXCEPT !.cfg = g]
    BY <1>1, <1>13 DEF StartAfter, Ended, f, g
  <2>2. op'.kind = "Start" /\ op'.pos = op.pos /\ op'.cfg = g
    BY <1>2, <2>1
  <2>3. /\ Transferring(op') <=> g.at \in CoePhases /\ g.coe.at # "WriteRequest"
        /\ Prepared(op') <=> Place(g.at) > 4
    BY <2>2 DEF Transferring, Prepared
  <2>4. CASE Stays(f, g, r) /\ f.at \in CoePhases
    <3>1. Transferring(op') /\ (f.coe.at = "WriteRequest" => r.wkc = 1)
      BY <2>3, <2>4 DEF Stays
    <3> QED
      BY <1>5, <1>8, <2>2, <2>4, <3>1, SendsOnlyThere DEF SendStep, s
  <2>5. CASE Stays(f, g, r) /\ f.at \notin CoePhases
    <3>1. g.at = f.at
      BY <2>5 DEF Stays
    <3> QED
      BY <1>5, <1>9, <2>2, <2>3, <2>5, <3>1 DEF SendStep
  <2>6. CASE Leaves(f, r) /\ (On(f, g) \/ Skip(f, g))
    <3>1. g.coe.at = "WriteRequest" /\ ~Transferring(op')
      BY <2>3, <2>6 DEF On, Skip, Fresh
    <3>2. CASE f.at \in CoePhases
      <4>1. f.coe.at = "ReadResponse" /\ r.wkc = 1
        BY <2>6, <3>2 DEF Leaves
      <4> QED
        BY <1>5, <1>8, <2>2, <3>1, <3>2, <4>1 DEF SendStep, s
    <3>3. CASE f.at \notin CoePhases
      <4>1. ~Transferring(op) /\ OpRequest.reg # "RX_MBOX"
        BY <1>5, <1>9, <3>3
      <4>2. ASSUME Prepared(op'), ~Prepared(op)
            PROVE  r.wkc = 1 /\ OpRequest = Write(s, "CONFIG", <<"MboxSm1", 1>>)
        <5>1. Place(f.at) \in 1 .. 14 /\ Place(f.at) <= 4 /\ Place(g.at) > 4
              /\ Order[Place(f.at)] = f.at
          BY <1>4, <1>5, <2>3, <4>2, Places
        <5>2. Skip(f, g)
          BY <2>6, <5>1 DEF On
        <5>3. Place(f.at) = 4
          <6> SUFFICES ASSUME Place(f.at) < 4 PROVE FALSE
            BY <5>1
          <6>1. g.at \in Phases /\ Place(g.at) \in 1 .. 14
            BY <5>2, Places DEF Skip, ConfigInv
          <6>2. 4 \in Place(f.at) + 1 .. Place(g.at) - 1
            BY <5>1, <6>1
          <6>3. Work[Order[4]] = 0
            BY <5>2, <6>2 DEF Skip
          <6> QED
            BY <1>6, <6>3
        <5>4. f.at = "MboxSm1"
          BY <1>6, <5>1, <5>3
        <5>5. f.at \in Configured
          BY <1>4, <5>4 DEF Configured, Changes, CoePhases
        <5>6. f.n = 1
          BY <1>4, <1>6, <5>4, Lengths
        <5>7. OpRequest = Write(s, "CONFIG", <<f.at, f.n>>)
          BY <1>2, <5>5, ConfigAsks
        <5> QED
          BY <2>6, <5>4, <5>5, <5>6, <5>7 DEF Leaves
      <4> QED
        BY <2>2, <3>1, <4>1, <4>2 DEF SendStep, s
    <3> QED
      BY <3>2, <3>3
  <2> QED
    BY <1>3, <1>13, <2>4, <2>5, <2>6 DEF Over, Ended
<1> QED
  BY <1>11, <1>12, <1>13 DEF Ended

\* A letter of the transfer under way is in the mailboxes of its slave only, and in one
\* of them; and where SM1 is set up for the transfers of this operation, no old letter is
\* left in the mailboxes of its slave.
BoxInv ==
  /\ CoeWaits
  /\ op.kind = "Start" /\ Transferring(op) => op.pos < Len(slaves)
  /\ \A p \in Bus :
       /\ "own" \in {inbox[p], outbox[p]} => Transferring(op) /\ p = op.pos
       /\ ~(inbox[p] = "own" /\ outbox[p] = "own")
       /\ Prepared(op) /\ p = op.pos => "old" \notin {inbox[p], outbox[p]}

\* A write of SM1.
Resets(dg) == dg.reg = "CONFIG" /\ dg.cmd \in {"BWR", "APWR", "FPWR"}
                /\ dg.val = <<"MboxSm1", 1>>

\* A mailbox after an exchange, before what is left of a transfer that is over is
\* told apart.
InTaken(p, S) ==
  CASE OpRequest.reg = "RX_MBOX" /\ OpRequest.cmd \in {"BWR", "APWR", "FPWR"} ->
         IF p \in S THEN "own" ELSE inbox[p]
    [] Resets(OpRequest) -> IF p \in S /\ inbox[p] = "old" THEN "late" ELSE inbox[p]
    [] OTHER -> inbox[p]
OutTaken(p, S) ==
  IF p \in S /\ (OpRequest.reg = "TX_MBOX" \/ Resets(OpRequest)) THEN "none" ELSE outbox[p]

\* The letters of a transfer that is over (see Aged).
Left(p, x) ==
  IF x = "own" /\ ~Transferring(op') THEN IF outbox[p] = "late" THEN "late" ELSE "old"
                                     ELSE x

\* The mailboxes of one slave after an exchange.
LEMMA BoxAfter ==
  ASSUME Base, NEW r, NEW S, Exchanged(r, S), NEW p \in Bus
  PROVE  inbox'[p] = Left(p, InTaken(p, S)) /\ outbox'[p] = Left(p, OutTaken(p, S))
<1> DEFINE dg == OpRequest
<1>1. Executed(dg, S)
  BY DEF Exchanged
<1>2. inbox \in [Bus -> Letters] /\ outbox \in [Bus -> Letters]
  BY DEF Base, TypeOK
<1>3. \A box : Aged(box)[p] = Left(p, box[p])
  BY DEF Aged, Left
<1> HIDE DEF dg
<1>4. inbox'[p] = Left(p, InTaken(p, S))
  <2>1. CASE dg.reg = "RX_MBOX" /\ dg.cmd \in {"BWR", "APWR", "FPWR"}
    <3>1. inbox' = Aged(Written(inbox, S, "own"))
      BY <1>1, <2>1 DEF Executed
    <3>2. Written(inbox, S, "own")[p] = InTaken(p, S)
      <4>1. InTaken(p, S) = IF p \in S THEN "own" ELSE inbox[p]
        BY <2>1 DEF InTaken, Resets, dg
      <4> QED
        BY <4>1 DEF Written
    <3> QED
      BY <1>3, <3>1, <3>2
  <2>2. CASE Resets(dg)
    <3>1. inbox' = Aged(Written(inbox, {q \in S : inbox[q] = "old"}, "late"))
      BY <1>1, <2>2 DEF Executed, Resets
    <3>2. Written(inbox, {q \in S : inbox[q] = "old"}, "late")[p] = InTaken(p, S)
      BY <2>2 DEF Written, InTaken, dg, Resets
    <3> QED
      BY <1>3, <3>1, <3>2
  <2>3. CASE ~(dg.reg = "RX_MBOX" /\ dg.cmd \in {"BWR", "APWR", "FPWR"}) /\ ~Resets(dg)
    <3>1. inbox' = Aged(inbox)
      BY <1>1, <2>3 DEF Executed, Resets
    <3>2. InTaken(p, S) = inbox[p]
      BY <2>3 DEF InTaken, dg
    <3> QED
      BY <1>3, <3>1, <3>2
  <2> QED
    BY <2>1, <2>2, <2>3
<1>5. outbox'[p] = Left(p, OutTaken(p, S))
  <2>1. CASE dg.reg = "TX_MBOX" \/ Resets(dg)
    <3>1. outbox' = Aged(Written(outbox, S, "none"))
      BY <1>1, <2>1 DEF Executed, Resets
    <3>2. Written(outbox, S, "none")[p] = OutTaken(p, S)
      BY <2>1 DEF Written, OutTaken, dg
    <3> QED
      BY <1>3, <3>1, <3>2
  <2>2. CASE ~(dg.reg = "TX_MBOX" \/ Resets(dg))
    <3>1. outbox' = Aged(outbox)
      BY <1>1, <2>2 DEF Executed, Resets
    <3>2. OutTaken(p, S) = outbox[p]
      BY <2>2 DEF OutTaken, dg
    <3> QED
      BY <1>3, <3>1, <3>2
  <2> QED
    BY <2>1, <2>2
<1> QED
  BY <1>4, <1>5

\* A write or a read that is confirmed was taken by the slave it was for alone.
LEMMA Confirmed ==
  ASSUME Base, NEW r, NEW S, Exchanged(r, S), NEW p \in Bus, r.wkc = 1, NEW reg, NEW val,
         OpRequest = Write(Station(p), reg, val) \/ OpRequest = Read(Station(p), reg)
  PROVE  S = {p} /\ Takes(p, OpRequest)
<1>1. OpRequest.to = {Station(p)} /\ OpRequest.cmd \in {"FPRD", "FPWR"}
  BY DEF Write, Read, Datagram
<1>2. p \in Nat /\ StationOwn
  BY DEF Base, Bus
<1> QED
  BY <1>1, <1>2, Taken

\* Every operation steps so, and a transfer is for a slave that is listed.
LEMMA SendsAre ==
  ASSUME Base, BoxInv, NEW r, NEW S, Exchanged(r, S)
  PROVE  SendStep(r) /\ CoeWaits'
         /\ (op'.kind = "Start" /\ Transferring(op') => op'.pos < Len(slaves'))
<1>1. op'.kind \in {op.kind, "none", "Launch"}
  BY KindKept DEF Exchanged
<1>2. CASE op.kind = "Sdo"
  <2>1. SendStep(r) /\ CoeWaits'
    BY <1>2, SdoSends DEF BoxInv
  <2> QED
    BY <1>1, <1>2, <2>1
<1>3. CASE op.kind = "Start"
  <2>1. SendStep(r) /\ Len(slaves') = Len(slaves)
    BY <1>3, StartSends, StartOut
  <2>2. op.pos < Len(slaves)
    <3>1. op.pos \in Nat /\ Len(slaves) \in Nat
      BY <1>3 DEF Base, OpTyped, TypeOK, Bus
    <3> QED
      BY <1>3, <3>1 DEF Exchanged, Waiting, Missing
  <2> QED
    BY <1>1, <1>3, <2>1, <2>2 DEF SendStep, CoeWaits
<1>4. CASE op.kind \notin {"Sdo", "Start"}
  <2>1. op'.kind \notin {"Sdo", "Start"}
    BY <1>1, <1>4
  <2> QED
    BY <1>4, <2>1, SendsOnlyThere DEF SendStep, CoeWaits
<1> QED
  BY <1>2, <1>3, <1>4

\* An exchange keeps BoxInv: an answer that is read leaves the mailbox empty, a write of
\* SM1 leaves no old letter, and no transfer that is given up goes on to another.
LEMMA BoxExchange ==
  ASSUME Base, BoxInv, NEW r, NEW S, Exchanged(r, S)
  PROVE  BoxInv'
<1> DEFINE s == Station(op.pos)
<1>1. SendStep(r) /\ CoeWaits' /\ (op'.kind = "Start" /\ Transferring(op') => op'.pos < Len(slaves'))
  BY SendsAre
<1>2. SUFFICES ASSUME NEW p \in Bus
               PROVE  /\ "own" \in {inbox'[p], outbox'[p]} => Transferring(op') /\ p = op'.pos
                      /\ ~(inbox'[p] = "own" /\ outbox'[p] = "own")
                      /\ Prepared(op') /\ p = op'.pos => "old" \notin {inbox'[p], outbox'[p]}
  BY <1>1 DEF BoxInv
<1> DEFINE x == InTaken(p, S)
           y == OutTaken(p, S)
<1>3. inbox'[p] = Left(p, x) /\ outbox'[p] = Left(p, y)
  BY BoxAfter
<1>4. /\ "own" \in {inbox[p], outbox[p]} => Transferring(op) /\ p = op.pos
      /\ ~(inbox[p] = "own" /\ outbox[p] = "own")
      /\ Prepared(op) /\ p = op.pos => "old" \notin {inbox[p], outbox[p]}
  BY DEF BoxInv
<1>5. y \in {"none", outbox[p]}
  BY DEF OutTaken
<1>6. /\ OpRequest.reg # "RX_MBOX" => x = inbox[p] \/ x = "late"
      /\ p \notin S => x = inbox[p]
  BY DEF InTaken, Resets
<1>7. Transferring(op') \/ Prepared(op') => op.kind \in {"Sdo", "Start"} /\ op'.pos = op.pos /\ op.pos \in Bus
  BY <1>1, SendsOnlyThere DEF SendStep, Base, OpTyped
<1> HIDE DEF x, y
<1>8. CASE ~Transferring(op) /\ Transferring(op')
  <2>1. PICK val : OpRequest = Write(s, "RX_MBOX", val)
    BY <1>1, <1>8 DEF SendStep
  <2>2. Prepared(op) /\ r.wkc = 1
    BY <1>1, <1>8 DEF SendStep
  <2>3. S = {op.pos}
    BY <1>7, <1>8, <2>1, <2>2, Confirmed
  <2>4. OpRequest.reg = "RX_MBOX" /\ OpRequest.cmd = "FPWR"
    BY <2>1 DEF Write, Datagram
  <2>5. y = outbox[p] /\ (p = op.pos => x = "own")
    BY <2>3, <2>4 DEF x, y, InTaken, OutTaken, Resets
  <2>6. inbox'[p] = x /\ outbox'[p] = y
    BY <1>3, <1>8 DEF Left
  <2> QED
    BY <1>4, <1>6, <1>7, <1>8, <2>2, <2>3, <2>5, <2>6
<1>9. CASE ~Transferring(op) /\ ~Transferring(op')
  <2>1. inbox[p] # "own" /\ outbox[p] # "own"
    BY <1>4, <1>9
  <2>2. inbox'[p] # "own" /\ outbox'[p] # "own"
    BY <1>3, <1>9 DEF Left
  <2>3. ASSUME Prepared(op'), p = op'.pos PROVE "old" \notin {inbox'[p], outbox'[p]}
    <3>1. OpRequest.reg # "RX_MBOX" /\ p = op.pos
      BY <1>1, <1>7, <1>9, <2>3 DEF SendStep
    <3>2. inbox'[p] = x /\ outbox'[p] = y
      BY <1>3, <1>5, <1>6, <2>1, <3>1 DEF Left
    <3>3. CASE Prepared(op)
      BY <1>4, <1>5, <1>6, <3>1, <3>2, <3>3
    <3>4. CASE ~Prepared(op)
      <4>1. r.wkc = 1 /\ OpRequest = Write(s, "CONFIG", <<"MboxSm1", 1>>)
        BY <1>1, <1>9, <2>3, <3>4 DEF SendStep
      <4>2. S = {p}
        BY <3>1, <4>1, Confirmed
      <4>3. Resets(OpRequest)
        BY <4>1 DEF Resets, Write, Datagram
      <4>4. y = "none" /\ x # "old"
        BY <3>1, <4>2, <4>3 DEF x, y, InTaken, OutTaken
      <4> QED
        BY <3>2, <4>4
    <3> QED
      BY <3>3, <3>4
  <2> QED
    BY <2>2, <2>3
<1>10. CASE Transferring(op)
  <2>1. OpRequest \in {Read(s, "SM1_STATUS"), Read(s, "TX_MBOX")} /\ Prepared(op)
    BY <1>1, <1>10, SendsOnlyThere DEF SendStep
  <2>2. x = inbox[p]
    BY <2>1 DEF x, InTaken, Resets, Read, Datagram
  <2>3. CASE Transferring(op')
    <3>1. inbox'[p] = x /\ outbox'[p] = y
      BY <1>3, <2>3 DEF Left
    <3> QED
      BY <1>4, <1>5, <1>7, <2>1, <2>2, <2>3, <3>1
  <2>4. CASE ~Transferring(op')
    <3>1. inbox'[p] # "own" /\ outbox'[p] # "own"
      BY <1>3, <2>4 DEF Left
    <3>2. ASSUME Prepared(op'), p = op'.pos PROVE "old" \notin {inbox'[p], outbox'[p]}
      <4>1. r.wkc = 1 /\ OpRequest = Read(s, "TX_MBOX") /\ p = op.pos
        BY <1>1, <1>7, <1>10, <2>4, <3>2 DEF SendStep
      <4>2. S = {p} /\ Takes(p, OpRequest)
        BY <4>1, Confirmed
      <4>3. OpRequest.reg = "TX_MBOX" /\ OpRequest.cmd = "FPRD"
        BY <4>1 DEF Read, Datagram
      <4>4. y = "none"
        BY <4>2, <4>3 DEF y, OutTaken
      <4>5. outbox[p] # "none"
        BY <4>2, <4>3 DEF Takes, Empty
      <4>6. outbox[p] \in {"own", "late"}
        <5>1. outbox[p] \in Letters
          BY DEF Base, TypeOK
        <5> QED
          BY <1>4, <2>1, <4>1, <4>5, <5>1 DEF Letters
      <4> QED
        BY <1>3, <1>4, <2>1, <2>2, <2>4, <4>1, <4>4, <4>6 DEF Left
    <3> QED
      BY <3>1, <3>2
  <2> QED
    BY <2>3, <2>4
<1> QED
  BY <1>8, <1>9, <1>10

\* A command begins with nothing sent and SM1 not set up.
LEMMA CommandBox ==
  ASSUME Base, BoxInv, Rescan \/ SetState \/ Sdo \/ Start \/ Stop
  PROVE  BoxInv'
<1>1. op.kind = "none" /\ UNCHANGED <<inbox, outbox>>
  BY DEF Rescan, SetState, Sdo, Start, Stop, Begin, bus
<1>2. ~Transferring(op)
  BY <1>1, SendsOnlyThere
<1>3. ~Transferring(op') /\ ~Prepared(op') /\ CoeWaits'
  <2>1. CASE Rescan \/ SetState \/ Stop
    <3>1. op'.kind \notin {"Sdo", "Start"}
      <4>1. CASE Rescan \/ Stop
        BY <4>1 DEF Rescan, Stop, Begin
      <4>2. CASE SetState
        <5>1. PICK a, b, c : op' = [kind |-> "State", pos |-> a, target |-> b, pre |-> c]
          BY <4>2 DEF SetState, Begin
        <5> QED
          BY <5>1
      <4> QED
        BY <2>1, <4>1, <4>2
    <3> QED
      BY <3>1, SendsOnlyThere DEF CoeWaits
  <2>2. CASE Sdo
    <3>1. PICK a, b : op' = [kind |-> "Sdo", pos |-> a, target |-> b,
                             pre |-> PreOp(b, TRUE), coe |-> Transfer]
      BY <2>2 DEF Sdo, Begin
    <3>2. PreOp(b, TRUE).at = "ConfigSm0" /\ Transfer.at = "WriteRequest"
      BY DEF PreOp, Transfer
    <3>3. op'.kind = "Sdo" /\ op'.pre.at = "ConfigSm0" /\ op'.coe.at = "WriteRequest"
      BY <3>1, <3>2
    <3> QED
      BY <3>3 DEF Transferring, Prepared, CoeWaits
  <2>3. CASE Start
    <3> DEFINE f == Config(Follower(0))
    <3>1. op' = [kind |-> "Start", pos |-> 0, cfg |-> f]
      BY <2>3 DEF Start, Begin
    <3>2. f.at = "ClearFmmus"
      BY ConfigBegins DEF Follower
    <3>3. Place("ClearFmmus") = 1
      <4>1. Order[1] = "ClearFmmus"
        BY DEF Order
      <4> QED
        BY <4>1, Places
    <3> HIDE DEF f
    <3>4. op'.kind = "Start" /\ op'.cfg = f
      BY <3>1
    <3> QED
      BY <3>2, <3>3, <3>4 DEF Transferring, Prepared, CoeWaits, CoePhases
  <2> QED
    BY <2>1, <2>2, <2>3
<1> QED
  BY <1>1, <1>2, <1>3 DEF BoxInv

\* The worker's other steps end an operation that has no transfer under way.
LEMMA EndBox ==
  ASSUME Base, BoxInv, StartMissing \/ StopIdle \/ Launch
  PROVE  BoxInv'
<1>1. op' = Idle /\ UNCHANGED <<inbox, outbox>>
  BY DEF StartMissing, StopIdle, Launch, bus
<1>2. ~Transferring(op') /\ ~Prepared(op') /\ CoeWaits'
  BY <1>1, SendsOnlyThere DEF Idle, CoeWaits
<1>3. ~Transferring(op)
  <2>1. CASE StartMissing
    <3>1. op.kind = "Start" /\ op.pos >= Len(slaves) /\ op.pos \in Bus
      BY <2>1 DEF StartMissing, Missing, Base, OpTyped
    <3>2. op.pos \in Nat /\ Len(slaves) \in Nat
      BY <3>1 DEF Bus, Base, TypeOK
    <3> QED
      BY <3>1, <3>2 DEF BoxInv
  <2>2. CASE StopIdle \/ Launch
    BY <2>2, SendsOnlyThere DEF StopIdle, Launch
  <2> QED
    BY <2>1, <2>2
<1> QED
  BY <1>1, <1>2, <1>3 DEF BoxInv

\* A slave that goes to INIT or answers moves no letter to another.
LEMMA OthersBox ==
  ASSUME Base, BoxInv, CyclicTick \/ Environment \/ UNCHANGED vars
  PROVE  BoxInv'
<1>1. UNCHANGED <<slaves, op>>
  BY EnvironmentType DEF Base, TypeOK, BusType, master
<1>2. SUFFICES ASSUME NEW p \in Bus
               PROVE  /\ "own" \in {inbox'[p], outbox'[p]} => "own" \in {inbox[p], outbox[p]}
                      /\ ~(inbox'[p] = "own" /\ outbox'[p] = "own")
                      /\ "old" \in {inbox'[p], outbox'[p]} => "old" \in {inbox[p], outbox[p]}
  BY <1>1 DEF BoxInv, CoeWaits
<1>3. inbox \in [Bus -> Letters] /\ outbox \in [Bus -> Letters]
  BY DEF Base, TypeOK
<1>4. ~(inbox[p] = "own" /\ outbox[p] = "own")
  BY DEF BoxInv
<1>5. CASE UNCHANGED <<inbox, outbox>>
  BY <1>4, <1>5
<1>6. CASE \E q \in Bus : \E state, err : Entered(q, state, err)
  <2>1. inbox'[p] \in {"none", inbox[p]} /\ outbox'[p] \in {"none", outbox[p]}
    BY <1>3, <1>6 DEF Entered
  <2> QED
    BY <1>4, <2>1
<1>7. CASE \E q \in Bus : Serve(q)
  <2>1. PICK q \in Bus : Serve(q)
    BY <1>7
  <2>2. /\ p = q => inbox'[p] = "none" /\ outbox'[p] = inbox[p]
        /\ p # q => inbox'[p] = inbox[p] /\ outbox'[p] = outbox[p]
    BY <1>3, <2>1 DEF Serve
  <2> QED
    BY <1>4, <2>2
<1>8. \/ UNCHANGED <<inbox, outbox>>
      \/ \E q \in Bus : \E state, err : Entered(q, state, err)
      \/ \E q \in Bus : Serve(q)
  <2>1. CASE CyclicTick
    BY <2>1 DEF CyclicTick
  <2>2. CASE Environment
    BY <2>2 DEF Environment, Settle, Refuse, Slip, PowerCycle, Cut, Mend
  <2>3. CASE UNCHANGED vars
    BY <2>3 DEF vars, bus
  <2> QED
    BY <2>1, <2>2, <2>3
<1> QED
  BY <1>5, <1>6, <1>7, <1>8

\* At power-up the mailboxes are empty.
LEMMA InitBox == Init => BoxInv
<1> SUFFICES ASSUME Init PROVE BoxInv
  OBVIOUS
<1>1. op.kind = "none"
  BY DEF Init, Idle
<1>2. ~Transferring(op) /\ ~Prepared(op)
  BY <1>1, SendsOnlyThere
<1> QED
  BY <1>1, <1>2 DEF Init, BoxInv, CoeWaits

\* Every step keeps BoxInv.
LEMMA BoxKept == Base /\ BoxInv /\ [Next]_vars => BoxInv'
<1> SUFFICES ASSUME Base, BoxInv, [Next]_vars PROVE BoxInv'
  OBVIOUS
<1>1. CASE Rescan \/ SetState \/ Sdo \/ Start \/ Stop
  BY <1>1, CommandBox
<1>2. CASE Worker
  <2>1. CASE StartMissing \/ StopIdle \/ Launch
    BY <2>1, EndBox
  <2>2. CASE \E r, S : Exchanged(r, S) /\ (UNCHANGED mishaps \/ Mishap)
    BY <2>2, BoxExchange
  <2> QED
    BY <1>2, <2>1, <2>2, WorkerSteps
<1>3. CASE CyclicTick \/ Environment \/ UNCHANGED vars
  BY <1>3, OthersBox
<1> QED
  BY <1>1, <1>2, <1>3 DEF Next

\* While a transfer waits for its answer, no answer of a transfer that was given up is in
\* the mailboxes of its slave, but for one to a request not answered when SM1 was written.
\* parse_sdo_response compares nothing with the request: PreOp and FsmSlaveConfig keep
\* transfers apart by writing SM1 before the first.
THEOREM AnswerAlwaysOwn == Spec => []AnswerIsOwn
<1>1. Init => Base /\ BoxInv
  BY InitBase, InitBox
<1>2. Base /\ BoxInv /\ [Next]_vars => (Base /\ BoxInv)'
  BY BaseKept, BoxKept
<1>3. Base /\ BoxInv => AnswerIsOwn
  <2> SUFFICES ASSUME Base, BoxInv, Transferring(op), NEW p \in Bus,
                      station[p] = Station(op.pos)
               PROVE  "old" \notin {inbox[p], outbox[p]}
    BY DEF AnswerIsOwn
  <2>1. Prepared(op) /\ op.kind \in {"Sdo", "Start"}
    BY SendsOnlyThere
  <2>2. op.pos \in Bus
    BY <2>1 DEF Base, OpTyped
  <2>3. station[p] \in {0, Station(p)}
    BY DEF Base, StationOwn
  <2>4. p = op.pos
    BY <2>2, <2>3 DEF Station, Bus
  <2> QED
    BY <2>1, <2>4 DEF BoxInv
<1> QED
  BY <1>1, <1>2, <1>3, PTL DEF Spec

-----------------------------------------------------------------------------
(* The clocks *)

\* A number and its residue differ by a multiple of the width.
LEMMA Residue ==
  ASSUME NEW M \in Nat \ {0}, NEW x \in Int
  PROVE  /\ x % M \in 0 .. M - 1
         /\ \E r, q \in Int : r = x % M /\ x = r + q * M
<1>1. x % M \in 0 .. M - 1
  OBVIOUS
<1>2. x = (x % M) + (x \div M) * M /\ x \div M \in Int
  OBVIOUS
<1> QED BY <1>1, <1>2

\* A multiple of the width that is smaller than it is none.
LEMMA OneResidue ==
  ASSUME NEW M \in Nat \ {0}, NEW a \in 0 .. M - 1, NEW b \in 0 .. M - 1,
         NEW k \in Int, a = b + k * M
  PROVE  a = b
<1>1. ASSUME k >= 1 PROVE FALSE
  <2>1. k * M >= M
    BY <1>1
  <2> QED BY <2>1
<1>2. ASSUME k <= -1 PROVE FALSE
  <2>1. k * M <= -M
    BY <1>2
  <2> QED BY <2>1
<1>3. k = 0
  BY <1>1, <1>2
<1> QED BY <1>3

\* The residue of a number that is a multiple of the width away.
LEMMA ResidueOf ==
  ASSUME NEW M \in Nat \ {0}, NEW a \in 0 .. M - 1, NEW x \in Int,
         NEW k \in Int, x = a + k * M
  PROVE  x % M = a
<1>1. PICK q \in Int : x = (x % M) + q * M
  BY Residue
<1>2. PICK r \in 0 .. M - 1 : r = x % M
  BY Residue
<1>3. r = a + (k - q) * M
  BY <1>1, <1>2
<1>4. k - q \in Int
  OBVIOUS
<1>5. r = a
  BY <1>3, <1>4, OneResidue
<1> QED BY <1>2, <1>5

\* CompReadTimes and CompWriteOffset: the follower shows the time of the reference.
LEMMA OffsetCompensates == ClocksAgree
<1>1. SUFFICES ASSUME NEW reference \in Clocks, NEW local \in Clocks, NEW old \in Clocks,
                      NEW transit \in 0 .. MaxTransit
               PROVE  SystemTime(local + transit, NewOffset(old, reference, SystemTime(local + transit, old)))
                        = reference
  BY DEF ClocksAgree
<1>2. ClockMod \in Nat \ {0} /\ MaxTransit \in Nat
  BY ClockAssumption
<1>3. reference \in Int /\ local \in Int /\ old \in Int /\ reference \in 0 .. ClockMod - 1
  BY <1>2 DEF Clocks
<1>4. PICK shown \in Int : shown = local + transit
  BY <1>2, <1>3
<1>5. PICK read \in Int, q1 \in Int : read = (shown + old) % ClockMod /\ shown + old = read + q1 * ClockMod
  <2>1. shown + old \in Int
    BY <1>3
  <2> QED BY <1>2, <2>1, Residue
<1>6. PICK diff \in Int, q2 \in Int :
        diff = (reference - read) % ClockMod /\ reference - read = diff + q2 * ClockMod
  <2>1. reference - read \in Int
    BY <1>3
  <2> QED BY <1>2, <2>1, Residue
<1>7. PICK new \in Int, q3 \in Int : new = (old + diff) % ClockMod /\ old + diff = new + q3 * ClockMod
  <2>1. old + diff \in Int
    BY <1>3
  <2> QED BY <1>2, <2>1, Residue
<1>8. shown + new = reference + (q1 - q2 - q3) * ClockMod /\ q1 - q2 - q3 \in Int /\ shown + new \in Int
  <2>1. shown + old = read + q1 * ClockMod /\ reference - read = diff + q2 * ClockMod /\ old + diff = new + q3 * ClockMod
    BY <1>5, <1>6, <1>7
  <2> QED BY <1>2, <1>3, <2>1
<1>9. (shown + new) % ClockMod = reference
  BY <1>2, <1>3, <1>8, ResidueOf
<1> QED BY <1>4, <1>5, <1>6, <1>7, <1>9 DEF SystemTime, NewOffset

\* The period of the pulses: max(1).
Period(cycle) == IF cycle >= 1 THEN cycle ELSE 1

\* A start time on the grid of the period, the first one beyond the margin.
OnGrid(start, now, phase, period) ==
  \E n \in Int : /\ start = n * period + phase
                /\ n * period > now + Margin /\ n * period <= now + Margin + period

\* cyclic_start: a multiple of the cycle beyond the margin, and the shift.
LEMMA StartOnGrid ==
  ASSUME NEW cycle \in Nat, NEW phase \in Nat, NEW now \in 0 .. ClockMod - Margin - 1
  PROVE  OnGrid(CyclicStart(cycle, phase, now), now, phase, Period(cycle))
<1>0. PICK p \in Nat \ {0} : p = Period(cycle)
  BY DEF Period
<1>1. ClockMod \in Nat \ {0} /\ Margin \in Nat
  BY ClockAssumption
<1>3. PICK t \in Int : t = now + Margin /\ t \in 0 .. ClockMod - 1
  BY <1>1
<1>4. t % ClockMod = t
  <2>1. t = t + 0 * ClockMod
    BY <1>1
  <2> QED BY <1>1, <1>3, <2>1, ResidueOf
<1>5. PICK q \in Int : q = t \div p
  OBVIOUS
<1>6. t = (t % p) + q * p /\ t % p \in 0 .. p - 1
  <2>1. t = (t % p) + (t \div p) * p /\ t % p \in 0 .. p - 1
    OBVIOUS
  <2> QED BY <1>5, <2>1
<1>7. PICK n \in Int : n = q + 1
  OBVIOUS
<1>8. n * p = q * p + p
  BY <1>7
<1>9. n * p > t /\ n * p <= t + p
  BY <1>3, <1>6, <1>8
<1>10. CyclicStart(cycle, phase, now) = n * p + phase
  BY <1>0, <1>3, <1>4, <1>5, <1>7 DEF CyclicStart, Period
<1> QED BY <1>0, <1>3, <1>9, <1>10 DEF OnGrid

\* Start times of two slaves are on one grid, beyond the margin.
LEMMA StartsAgree == PulsesAgree
<1>1. SUFFICES ASSUME NEW cycle \in 0 .. MaxCycle, NEW phase \in 0 .. cycle,
                      NEW now \in 0 .. ClockMod - Margin - 1, NEW later \in 0 .. ClockMod - Margin - 1
               PROVE  LET start == CyclicStart(cycle, phase, now)
                          other == CyclicStart(cycle, phase, later)
                      IN /\ cycle > 0 => (start - other) % cycle = 0
                         /\ start > now + Margin
                         /\ start <= now + Margin + phase + (IF cycle > 0 THEN cycle ELSE 1)
  BY DEF PulsesAgree
<1>2. cycle \in Nat /\ phase \in Nat /\ Margin \in Nat /\ now \in Nat
  BY ClockAssumption
<1>3. PICK p \in Nat \ {0} : p = Period(cycle)
  BY <1>2 DEF Period
<1>4. PICK n \in Int : /\ CyclicStart(cycle, phase, now) = n * p + phase
                       /\ n * p > now + Margin /\ n * p <= now + Margin + p
  <2>1. OnGrid(CyclicStart(cycle, phase, now), now, phase, p)
    BY <1>2, <1>3, StartOnGrid
  <2> QED BY <2>1 DEF OnGrid
<1>5. PICK k \in Int : CyclicStart(cycle, phase, later) = k * p + phase
  <2>1. OnGrid(CyclicStart(cycle, phase, later), later, phase, p)
    BY <1>2, <1>3, StartOnGrid
  <2> QED BY <2>1 DEF OnGrid
<1>6. PICK start \in Int : start = n * p + phase /\ start = CyclicStart(cycle, phase, now)
  BY <1>2, <1>4
<1>7. PICK other \in Int : other = k * p + phase /\ other = CyclicStart(cycle, phase, later)
  BY <1>2, <1>5
<1>8. start > now + Margin /\ start <= now + Margin + phase + p
  BY <1>2, <1>4, <1>6
<1>9. (start - other) % p = 0
  <2>1. start - other = 0 + (n - k) * p
    BY <1>2, <1>6, <1>7
  <2>2. 0 \in 0 .. p - 1 /\ start - other \in Int /\ n - k \in Int
    OBVIOUS
  <2> QED BY <2>1, <2>2, ResidueOf
<1>10. cycle > 0 => (start - other) % cycle = 0
  <2>1. cycle > 0 => p = cycle
    BY <1>2, <1>3 DEF Period
  <2> QED BY <1>9, <2>1, Zenon
<1>11. start <= now + Margin + phase + (IF cycle > 0 THEN cycle ELSE 1)
  BY <1>2, <1>3, <1>8 DEF Period
<1> QED BY <1>6, <1>7, <1>8, <1>10, <1>11

\* The difference of two receive times of a port, wherever they have wrapped.
LEMMA TripIsTrue ==
  ASSUME NEW M \in Nat \ {0}, NEW a \in 0 .. M - 1, NEW d \in 0 .. M - 1
  PROVE  (((a + d) % M) - a) % M = d
<1>1. a + d \in Int
  OBVIOUS
<1>2. PICK r \in Int, q \in Int : r = (a + d) % M /\ a + d = r + q * M
  BY <1>1, Residue
<1>3. r - a = d + (-q) * M /\ r - a \in Int /\ -q \in Int
  BY <1>2
<1>4. (r - a) % M = d
  BY <1>3, ResidueOf
<1> QED BY <1>2, <1>4

\* propagation_delay: half of what the reference's trip is longer.
LEMMA DelayMeasured == DelayIsTrue
<1>1. SUFFICES ASSUME NEW a \in 0 .. PortMod - 1, NEW b \in 0 .. PortMod - 1,
                      NEW cable \in 0 .. MaxCable, NEW loop \in 0 .. MaxLoop
               PROVE  PropagationDelay(<<a, (a + 2 * cable + loop) % PortMod>>, <<b, (b + loop) % PortMod>>)
                        = IF cable <= MaxDelay THEN cable ELSE 0
  BY DEF DelayIsTrue
<1>2. /\ PortMod \in Nat \ {0} /\ MaxDelay \in Nat /\ MaxCable \in Nat /\ MaxLoop \in Nat
      /\ cable \in Nat /\ loop \in Nat /\ a \in Int /\ b \in Int
      /\ 2 * cable + loop \in 0 .. PortMod - 1 /\ loop \in 0 .. PortMod - 1
  BY ClockAssumption
<1>3. PICK d \in 0 .. PortMod - 1 : d = 2 * cable + loop /\ a + 2 * cable + loop = a + d
  BY <1>2
<1>4. (((a + d) % PortMod) - a) % PortMod = d
  BY <1>2, <1>3, TripIsTrue
<1>5. (((b + loop) % PortMod) - b) % PortMod = loop
  BY <1>2, TripIsTrue
<1>6. d - loop = 2 * cable /\ 2 * cable >= 0 /\ (2 * cable) \div 2 = cable
  BY <1>2, <1>3
<1> QED BY <1>2, <1>3, <1>4, <1>5, <1>6 DEF PropagationDelay

\* The clocks of the slaves an engine drives are in step, for every width of the
\* clocks, margin, cycle and cable: the follower is put on the time of the
\* reference, start times of different slaves fall on one grid beyond the margin,
\* and the delay is that of the cable.
THEOREM ClocksAlwaysAligned == Spec => []ClocksAligned
<1>1. ClocksAligned
  BY OffsetCompensates, StartsAgree, DelayMeasured DEF ClocksAligned
<1> QED BY <1>1, PTL
=============================================================================
