------------------------------ MODULE BusScan ------------------------------
(***************************************************************************)
(* The bus scan (fsm_scan.rs): count the slaves, clear their addresses,    *)
(* then address and read them one by one, the identity word by word from   *)
(* the EEPROM.  A finished slave is handed to the master at once.          *)
(*                                                                         *)
(* Of what is read of a slave the AL state is kept and whether it does     *)
(* CoE; the other words are only stored.                                   *)
(***************************************************************************)
EXTENDS Datagrams

CONSTANTS
  Words,      \* EEPROM words read of every slave (SiiField: 6)
  MaxPolls,   \* SII_MAX_POLLS
  Capacity    \* EC_MAX_SLAVES

ASSUME ScanAssumption ==
  Words \in Nat \ {0} /\ MaxPolls \in Nat \ {0} /\ Capacity \in Nat \ {0}

Station(pos) == pos + 1

Scan == [at |-> "Count", count |-> 0, pos |-> 0, al |-> "INIT", word |-> 1, polls |-> 0]

ScanRequest(f) ==
  CASE f.at = "Count" -> Datagram("BRD", {}, "AL_STATUS", "-")
    [] f.at = "Clear" -> Datagram("BWR", {}, "STATION_ADDR", 0)
    [] f.at = "Apwr"  -> Datagram("APWR", {f.pos}, "STATION_ADDR", Station(f.pos))
    [] f.at = "Al"    -> Read(Station(f.pos), "AL_STATUS")
    [] f.at = "Dl"    -> Read(Station(f.pos), "DL_INFO")
    [] f.at = "SiiCommand" -> Write(Station(f.pos), "SII_CONTROL", "-")
    [] f.at = "SiiPoll"    -> Read(Station(f.pos), "SII_CONTROL")

\* begin_slave
Begun(f, pos) == [f EXCEPT !.at = "Apwr", !.pos = pos, !.al = "INIT", !.word = 1]

\* finish_slave
Finished(f) ==
  IF f.pos + 1 < f.count /\ f.pos + 1 < Capacity
  THEN Begun(f, f.pos + 1) ELSE [f EXCEPT !.at = "Done"]

Polled(f) ==
  IF f.polls + 1 >= MaxPolls THEN [f EXCEPT !.at = "Failed"]
                             ELSE [f EXCEPT !.polls = @ + 1]

\* The word is there.
WordRead(f, r) == f.at = "SiiPoll" /\ r.wkc # 0 /\ r.data \in {"coe", "no coe"}

\* The last word says what mailbox protocols the slave has: it is finished.
Completes(f, r) == WordRead(f, r) /\ f.word = Words

ScanAfter(f, r) ==
  CASE Lost(r) -> [f EXCEPT !.at = "Failed"]
    [] f.at = "Count" /\ ~Lost(r) ->
         [f EXCEPT !.count = r.wkc, !.at = IF r.wkc = 0 THEN "Done" ELSE "Clear"]
    [] f.at = "Clear" /\ ~Lost(r) -> Begun(f, 0)
    [] f.at \in {"Apwr", "Al", "Dl"} /\ ~Lost(r) ->
         IF r.wkc # 1 THEN [f EXCEPT !.at = "Failed"]
         ELSE IF f.at = "Apwr" THEN [f EXCEPT !.at = "Al"]
         ELSE IF f.at = "Al"   THEN [f EXCEPT !.at = "Dl", !.al = r.data.al]
         ELSE [f EXCEPT !.at = "SiiCommand"]
    [] f.at = "SiiCommand" /\ ~Lost(r) ->
         [f EXCEPT !.at = IF r.wkc = 0 THEN "Failed" ELSE "SiiPoll", !.polls = 0]
    [] f.at = "SiiPoll" /\ ~Lost(r) ->
         CASE Completes(f, r) -> Finished(f)
           [] WordRead(f, r) /\ ~Completes(f, r) ->
                [f EXCEPT !.at = "SiiCommand", !.word = @ + 1]
           [] r.wkc # 0 /\ r.data = "error" -> [f EXCEPT !.at = "Failed"]
           [] OTHER -> Polled(f)
=============================================================================
