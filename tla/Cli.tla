-------------------------------- MODULE Cli --------------------------------
(***************************************************************************)
(* The words of a command line and the numbers in them (cli.rs): options,  *)
(* positional arguments and their ranges, the value of a download and the  *)
(* way the answer of an upload is shown.  Which command runs when is       *)
(* Console's.                                                              *)
(*                                                                         *)
(* A word is an option with its word, or an argument; a number is what     *)
(* parse_int has read of its digits.                                       *)
(***************************************************************************)
EXTENDS Integers, Sequences

CONSTANTS
  OctetBits,     \* 8
  RateMin,      \* RATE_MIN_HZ
  RateMax,      \* RATE_MAX_HZ
  MaxNumber,    \* bound: values and rates typed
  MaxPlace      \* bound: positions, indices and subindices typed

ASSUME CliAssumption ==
  OctetBits \in Nat \ {0} /\ {RateMin, RateMax, MaxNumber, MaxPlace} \subseteq Nat

Unsigned(bytes) == 2^(OctetBits * bytes)      \* one more than the largest number

Bad == [ok |-> FALSE]    \* Command::Error

Types ==
  [bool  |-> [size |-> 1, signed |-> FALSE], int8   |-> [size |-> 1, signed |-> TRUE],
   int16 |-> [size |-> 2, signed |-> TRUE],  int32  |-> [size |-> 4, signed |-> TRUE],
   uint8 |-> [size |-> 1, signed |-> FALSE], uint16 |-> [size |-> 2, signed |-> FALSE],
   uint32 |-> [size |-> 4, signed |-> FALSE]]

-----------------------------------------------------------------------------
(* Options: the last of a kind holds *)

\* parse_opts: a position and a rate are cut to their width as they are read.
Cut(kind, word) ==
  CASE kind = "p" -> word % Unsigned(2)
    [] kind = "r" -> word % Unsigned(4)
    [] OTHER -> word

Options(words) ==
  LET given(kind) == {k \in DOMAIN words : words[k].kind = kind}
      last(ks)    == CHOOSE k \in ks : \A j \in ks : j <= k
  IN [kind \in {k \in {"p", "r", "t"} : given(k) # {}} |->
        Cut(kind, words[last(given(kind))].word)]

Given(o, kind, otherwise) == IF kind \in DOMAIN o THEN o[kind] ELSE otherwise

\* A negative number is taken for an option that is not known.
Negative(words) == \E k \in DOMAIN words : words[k].kind = "arg" /\ words[k].word < 0

\* In the order they were typed.
Arguments(words) ==
  LET args[n \in 0 .. Len(words)] ==
        IF n = 0 THEN <<>>
        ELSE IF words[n].kind = "arg" THEN Append(args[n - 1], words[n])
        ELSE args[n - 1]
  IN args[Len(words)]

-----------------------------------------------------------------------------
(* start, upload and download *)

\* A rate of 0 stands for none, the rate of the build.
ParseStart(words) ==
  LET o == Options(words)
  IN IF "r" \in DOMAIN o /\ o["r"] \notin RateMin .. RateMax THEN Bad
     ELSE [ok |-> TRUE, slave |-> Given(o, "p", 0), rate |-> Given(o, "r", 0)]

\* encode_value: the low bytes of the number, whatever its type can hold.
EncodeValue(type, v) ==
  [i \in 1 .. Types[type].size |-> (v \div Unsigned(i - 1)) % Unsigned(1)]

ParseSdo(words, download) ==
  LET o == Options(words)
      a == Arguments(words)
  IN IF \/ Negative(words)
        \/ "p" \notin DOMAIN o
        \/ Len(a) # (IF download THEN 3 ELSE 2)
        \/ a[1].word \notin 0 .. Unsigned(2) - 1
        \/ a[2].word \notin 0 .. Unsigned(1) - 1
        \/ Given(o, "t", "none") \notin DOMAIN Types \cup {"none"}
        \/ download /\ "t" \notin DOMAIN o
     THEN Bad
     ELSE [ok |-> TRUE, slave |-> o["p"], index |-> a[1].word, subindex |-> a[2].word,
           data |-> IF download THEN EncodeValue(o["t"], a[3].word) ELSE <<>>]

\* Mutant: the sign is that of the widest type.
SignExtendWide(raw, size) ==
  IF 2 * raw >= Unsigned(4) THEN raw - Unsigned(4) ELSE raw

SignExtend(raw, size) ==
  IF 2 * raw >= Unsigned(size) THEN raw - Unsigned(size) ELSE raw

\* The decimal of format_value, for as many bytes as the type has.
FormatValue(type, data) ==
  LET sum[n \in 0 .. Len(data)] ==
        IF n = 0 THEN 0 ELSE sum[n - 1] + data[n] * Unsigned(n - 1)
      raw == sum[Types[type].size]
  IN IF Types[type].signed THEN SignExtend(raw, Types[type].size) ELSE raw

-----------------------------------------------------------------------------
(* What is asked for is what was typed *)

Word(kind, w) == [kind |-> kind, word |-> w]

\* The numbers a type holds.
Holds(type) ==
  LET all == Unsigned(Types[type].size)
  IN IF Types[type].signed THEN {v - all \div 2 : v \in 0 .. all - 1} ELSE 0 .. all - 1

\* A value that is taken is read back as it was written if its type can hold it;
\* otherwise it is cut to its low bytes, and what is shown is one of the type.
DownloadsReadBack ==
  \A type \in DOMAIN Types, v \in -MaxNumber .. MaxNumber :
    LET asked == ParseSdo(<<Word("arg", 1), Word("t", type), Word("arg", 2),
                          Word("p", 1), Word("arg", v)>>, TRUE)
        read == FormatValue(type, asked.data)
    IN asked.ok =>
         /\ read \in Holds(type)
         /\ v \in Holds(type) => read = v
         /\ (read - v) % Unsigned(Types[type].size) = 0

\* An object is asked for at the index and subindex typed, or not at all; a
\* position below the limit of its width is the one typed.
ObjectsAreTyped ==
  \A p, index, sub \in 0 .. MaxPlace :
    LET asked == ParseSdo(<<Word("arg", index), Word("p", p), Word("arg", sub)>>, FALSE)
    IN asked.ok =>
         /\ asked.index = index /\ asked.subindex = sub
         /\ p < Unsigned(2) => asked.slave = p

\* An engine is never started out of the bounds of the rate, whatever is typed
\* and however often.
RatesAreBounded ==
  \A first \in {RateMin, MaxNumber}, rate \in 0 .. MaxNumber, p \in 0 .. MaxPlace :
    LET asked == ParseStart(<<Word("r", first), Word("p", p), Word("r", rate)>>)
    IN asked.ok =>
         /\ asked.rate \in RateMin .. RateMax
         /\ p < Unsigned(2) => asked.slave = p
=============================================================================
