----------------------------- MODULE ReportMemo -----------------------------
(***************************************************************************)
(* The memo of an on-chain report (core/onchain-report.js, format v2): a   *)
(* header line and one line per node, at most Limit characters in all.  A  *)
(* text field is represented by the number it shows, an empty one by       *)
(* Blank, so that the length of a line is that of its digits.              *)
(***************************************************************************)
EXTENDS Integers, Sequences

CONSTANTS
  Limit,    \* MEMO_CHAR_LIMIT, 256: the chain's cap
  Blank,    \* an empty field
  Baseline, \* the baseline speed in the header
  Samples   \* results of node tests to encode

MaxRecords == 6
AddressChars == 47
U16 == 65535

\* A result of a node test: its speed in hundredths of a Mbps or Blank if it
\* failed, the peers and the latency it saw, and whether the test was skipped or
\* has no address to report.
Result == [mbps : Nat \cup {Blank}, peers : Int, lat : Int, skipped : BOOLEAN, addressed : BOOLEAN]

ASSUME MemoAssumption ==
  Limit \in Nat /\ Blank \notin Nat /\ Baseline \in Nat /\ Samples \subseteq Result

Least(a, b) == IF a < b THEN a ELSE b
ClampU16(n) == IF n < 0 THEN 0 ELSE Least(n, U16)

\* Math.round(n * 10) / 10, as a number of tenths; speeds are in hundredths here.
Tenths(hundredths) == (hundredths + 5) \div 10

\* Digits of a number below a million.
Digits(n) == IF n < 10 THEN 1 ELSE IF n < 100 THEN 2 ELSE IF n < 1000 THEN 3
             ELSE IF n < 10000 THEN 4 ELSE IF n < 100000 THEN 5 ELSE 6
Chars(field) == IF field = Blank THEN 0 ELSE Digits(field)
SpeedChars(field) == IF field = Blank THEN 0 ELSE Digits(field \div 10) + 2

---------------------------------------------------------------------------
(* Encoding. *)

Reportable(result) == ~result.skipped /\ result.addressed

ToRecord(node, result) ==
  [node |-> node, ok |-> result.mbps # Blank, mbps |-> result.mbps,
   peers |-> ClampU16(result.peers), lat |-> ClampU16(result.lat)]

\* Mutant: slow nodes look like failed ones: an "ok" taken from the speed, not from its presence.
Line_Truthy(rec) ==
  LET ok == rec.ok /\ rec.mbps > 0 IN
  [node |-> rec.node, ok |-> IF ok THEN 1 ELSE 0,
   mbps |-> IF ok THEN Tenths(rec.mbps) ELSE Blank,
   peers |-> rec.peers, lat |-> IF rec.lat = 0 THEN Blank ELSE rec.lat]

Line(rec) ==
  [node |-> rec.node, ok |-> IF rec.ok THEN 1 ELSE 0,
   mbps |-> IF rec.ok THEN Tenths(rec.mbps) ELSE Blank,
   peers |-> rec.peers, lat |-> IF rec.lat = 0 THEN Blank ELSE rec.lat]

\* address|ok|mbps|peers|lat
LineChars(l) == AddressChars + 1 + 1 + 1 + SpeedChars(l.mbps) + 1 + Chars(l.peers) + 1 + Chars(l.lat)

\* SNTR1|v2|XX|b=<baseline>|t=<ten digits>
HeaderChars == 9 + 2 + 3 + SpeedChars(Baseline * 10) + 3 + 10

MemoChars(lines) ==
  LET chars[i \in 0..Len(lines)] ==
        IF i = 0 THEN HeaderChars ELSE chars[i - 1] + 1 + LineChars(lines[i])
  IN chars[Len(lines)]

\* packBatch: how many records fit, taken greedily from the front.
Packed(records) ==
  LET lines == [i \in DOMAIN records |-> Line(records[i])]
      fits(k) == MemoChars(SubSeq(lines, 1, k)) <= Limit
  IN CHOOSE k \in 0..Least(Len(records), MaxRecords) :
       /\ k = 0 \/ fits(k)
       /\ k = Least(Len(records), MaxRecords) \/ ~fits(k + 1)

Encode(records) == [i \in DOMAIN records |-> Line(records[i])]

---------------------------------------------------------------------------
(* Decoding, as a reader of the chain's history does. *)

DecodeLine(l) ==
  [node |-> l.node, ok |-> l.ok = 1,
   mbps |-> IF l.ok = 1 /\ l.mbps # Blank THEN l.mbps ELSE Blank,
   peers |-> l.peers, lat |-> l.lat]

Decode(lines) == [i \in DOMAIN lines |-> DecodeLine(lines[i])]

---------------------------------------------------------------------------
(* Properties. *)

\* What a reader should learn of the test of a node.  A latency that was not
\* measured, or came out negative for a clock set back, is left empty.
Says(l, node, result) ==
  /\ l.node = node
  /\ l.ok <=> result.mbps # Blank
  /\ l.ok => 10 * l.mbps - result.mbps \in -4..5
  /\ l.peers = ClampU16(result.peers)
  /\ l.lat = IF result.lat <= 0 THEN Blank ELSE ClampU16(result.lat)

\* decodeMemo gives a reader of the chain the result each packed test had, for
\* odd readings too; no memo is over the cap, and none leaves room for a record
\* that would have fit: packBatch is greedy up to the cap.
MemoReadable ==
  \A k \in 1..3 : \A results \in [1..k -> Samples] :
    LET records == [i \in 1..k |-> ToRecord(i, results[i])]
        n == Packed(records)
        memo == Encode(SubSeq(records, 1, n))
    IN /\ MemoChars(memo) <= Limit
       /\ n = k \/ MemoChars(Encode(SubSeq(records, 1, n + 1))) > Limit
       /\ \A i \in 1..n : Says(Decode(memo)[i], i, results[i])
=============================================================================
