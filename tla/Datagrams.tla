----------------------------- MODULE Datagrams -----------------------------
(***************************************************************************)
(* Datagrams and replies as the state machines of the worker see them, and *)
(* the two small machines the others are built from: the AL state change   *)
(* (fsm_change.rs) and the CoE transfer (fsm_coe.rs).                      *)
(*                                                                         *)
(* A machine is a value.  XRequest(x, ...) is the datagram it sends next,  *)
(* XAfter(x, r) the machine after the reply r; "Done" and "Failed" end it. *)
(* A reply that never comes (Device::pump: Timeout, Transport) is          *)
(* NoReply, and fails every machine.                                       *)
(***************************************************************************)
EXTENDS Naturals

CONSTANTS
  MaxWaits,      \* MAX_STATE_WAITS: status reads before a change is given up
  MaxMboxWaits   \* MAX_MBOX_WAITS: looks at the mailbox before giving up

ASSUME WaitsAssumption == MaxWaits \in Nat \ {0} /\ MaxMboxWaits \in Nat \ {0}

AlStates == {"INIT", "PREOP", "SAFEOP", "OP"}

\* A datagram goes to the slaves with the stations "to" (FPRD, FPWR), to the
\* ring position in "to" (APWR), or to every slave (BRD, BWR).
Datagram(cmd, to, reg, val) == [cmd |-> cmd, to |-> to, reg |-> reg, val |-> val]
Read(station, reg)          == Datagram("FPRD", {station}, reg, "-")
Write(station, reg, val)    == Datagram("FPWR", {station}, reg, val)

Reply(wkc, data) == [wkc |-> wkc, data |-> data, lost |-> FALSE]
NoReply          == [wkc |-> 0, data |-> "-", lost |-> TRUE]
Lost(r)          == r.lost

-----------------------------------------------------------------------------
(* AL state change *)

Change(target) ==
  [at |-> "WriteControl", target |-> target, waits |-> 0, acked |-> FALSE]

ChangeRequest(c, station) ==
  CASE c.at = "WriteControl" ->
         Write(station, "AL_CONTROL", [state |-> c.target, ack |-> FALSE])
    [] c.at = "AckError" ->
         Write(station, "AL_CONTROL", [state |-> c.target, ack |-> TRUE])
    [] c.at = "ReadStatus"     -> Read(station, "AL_STATUS")
    [] c.at = "ReadStatusCode" -> Read(station, "AL_STATUS_CODE")

Waited(c) ==
  IF c.waits + 1 >= MaxWaits THEN [c EXCEPT !.at = "Failed"]
                             ELSE [c EXCEPT !.waits = @ + 1]

\* Mutant: that the error has been acknowledged is forgotten.
StatusReadForgets(c, status) ==
  IF status.err THEN [c EXCEPT !.at = "AckError"]
  ELSE IF status.al = c.target THEN [c EXCEPT !.at = "Done"]
  ELSE Waited(c)

\* Mutant: any status without an error ends the change.
StatusReadAnyState(c, status) ==
  IF status.err
  THEN [c EXCEPT !.at = IF c.acked THEN "ReadStatusCode" ELSE "AckError"]
  ELSE [c EXCEPT !.at = "Done"]

\* An error is acknowledged once; one that persists is a failed transition.
StatusRead(c, status) ==
  IF status.err
  THEN [c EXCEPT !.at = IF c.acked THEN "ReadStatusCode" ELSE "AckError"]
  ELSE IF status.al = c.target THEN [c EXCEPT !.at = "Done"]
  ELSE Waited(c)

ChangeAfter(c, r) ==
  IF r.wkc # 1 \/ c.at = "ReadStatusCode" THEN [c EXCEPT !.at = "Failed"]
  ELSE CASE c.at = "ReadStatus"   -> StatusRead(c, r.data)
         [] c.at = "WriteControl" -> [c EXCEPT !.at = "ReadStatus", !.waits = 0]
         [] c.at = "AckError"     -> [c EXCEPT !.at = "ReadStatus", !.waits = 0,
                                               !.acked = TRUE]

-----------------------------------------------------------------------------
(* CoE transfer *)

Transfer == [at |-> "WriteRequest", waits |-> 0]

TransferRequest(t, station, what) ==
  CASE t.at = "WriteRequest" -> Write(station, "RX_MBOX", what)
    [] t.at = "WaitMailbox"  -> Read(station, "SM1_STATUS")
    [] t.at = "ReadResponse" -> Read(station, "TX_MBOX")

\* The answer is not matched with the request: any that is not an abort, and
\* for an upload is expedited, completes the transfer.
TransferAfter(t, r) ==
  CASE Lost(r) -> [t EXCEPT !.at = "Failed"]
    [] t.at = "WaitMailbox" /\ ~Lost(r) ->
         IF r.wkc = 1 /\ r.data = "full" THEN [t EXCEPT !.at = "ReadResponse"]
         ELSE IF t.waits + 1 >= MaxMboxWaits THEN [t EXCEPT !.at = "Failed"]
         ELSE [t EXCEPT !.waits = @ + 1]
    [] t.at = "WriteRequest" /\ ~Lost(r) ->
         [t EXCEPT !.at = IF r.wkc = 1 THEN "WaitMailbox" ELSE "Failed"]
    [] t.at = "ReadResponse" /\ ~Lost(r) ->
         [t EXCEPT !.at = IF r.wkc = 1 /\ r.data.accepted THEN "Done" ELSE "Failed"]

Ended == {"Done", "Failed"}
=============================================================================
