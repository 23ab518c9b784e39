---------------------------- MODULE ByteCounter ----------------------------
(***************************************************************************)
(* capture.ByteCounter: a flow's totals and the ring of one-second buckets *)
(* its live rate is read from.  Packets carry their capture time and may   *)
(* be stamped out of order; Rates is called with the wall clock.  Time is  *)
(* in whole seconds, which is all advance looks at; 0 is the zero time.    *)
(***************************************************************************)
EXTENDS Integers

CONSTANTS
  MaxSec,   \* bound: the last second of a behaviour
  MaxBytes  \* bound: bytes one behaviour carries per direction

rateBuckets == 5
Slots == 0 .. rateBuckets - 1
Dirs == {"in", "out"}
Secs == 1 .. MaxSec

ASSUME ByteCounterAssumption == MaxSec \in Nat /\ MaxBytes \in Nat

VARIABLES
  ring,        \* ByteCounter.in and .out
  head,        \* ByteCounter.head
  bucketStart, \* ByteCounter.bucketStart
  total,       \* ByteCounter.bytesIn and .bytesOut
  rates,       \* what the last call of Rates summed up, and when; sec 0 before
  credited     \* history: the bytes added for each second, an old packet's
               \* for the second the ring was at

vars == <<ring, head, bucketStart, total, rates, credited>>

TypeOK ==
  /\ ring \in [Dirs -> [Slots -> Nat]]
  /\ head \in Slots
  /\ bucketStart \in 0 .. MaxSec
  /\ total \in [Dirs -> Nat]
  /\ rates \in [sec: 0 .. MaxSec, sum: [Dirs -> Nat]]
  /\ credited \in [Dirs -> [Secs -> Nat]]

Init ==
  /\ ring = [d \in Dirs |-> [i \in Slots |-> 0]]
  /\ head = 0
  /\ bucketStart = 0
  /\ total = [d \in Dirs |-> 0]
  /\ rates = [sec |-> 0, sum |-> [d \in Dirs |-> 0]]
  /\ credited = [d \in Dirs |-> [s \in Secs |-> 0]]

-----------------------------------------------------------------------------
LaterSec(a, b) == IF a > b THEN a ELSE b

(* Variant: only the bucket the ring arrives at is zeroed. *)
advanceZeroingOne(sec) ==
  IF bucketStart = 0 \/ sec <= bucketStart
  THEN [ring |-> ring, head |-> head, start |-> IF bucketStart = 0 THEN sec ELSE bucketStart]
  ELSE LET to == (head + sec - bucketStart) % rateBuckets
       IN [ring |-> [d \in Dirs |-> [ring[d] EXCEPT ![to] = 0]], head |-> to, start |-> sec]

(* advance: the ring rolled forward to second sec.  Idle for a whole window, *)
(* it is emptied and head stays; otherwise every bucket passed is zeroed.    *)
advance(sec) ==
  LET steps == sec - bucketStart
      passed == {(head + k) % rateBuckets : k \in 1 .. steps}
  IN CASE bucketStart = 0 -> [ring |-> ring, head |-> head, start |-> sec]
       [] bucketStart # 0 /\ steps <= 0 -> [ring |-> ring, head |-> head, start |-> bucketStart]
       [] bucketStart # 0 /\ steps >= rateBuckets ->
            [ring |-> [d \in Dirs |-> [i \in Slots |-> 0]], head |-> head, start |-> sec]
       [] OTHER ->
            [ring |-> [d \in Dirs |-> [i \in Slots |-> IF i \in passed THEN 0 ELSE ring[d][i]]],
             head |-> (head + steps) % rateBuckets, start |-> sec]

(* Add n bytes in direction d, stamped in second sec. *)
Add(sec, n, d) ==
  LET a == advance(sec)
  IN /\ total[d] + n <= MaxBytes
     /\ ring' = [a.ring EXCEPT ![d][a.head] = @ + n]
     /\ head' = a.head /\ bucketStart' = a.start
     /\ total' = [total EXCEPT ![d] = @ + n]
     /\ credited' = [credited EXCEPT ![d][LaterSec(sec, bucketStart)] = @ + n]
     /\ UNCHANGED rates

(* The loop over the rateBuckets buckets. *)
SumOf(buckets) == buckets[0] + buckets[1] + buckets[2] + buckets[3] + buckets[4]

(* Rates: the buckets left after expiring the stale ones. *)
Rates(sec) ==
  LET a == advance(sec)
  IN /\ ring' = a.ring /\ head' = a.head /\ bucketStart' = a.start
     /\ rates' = [sec |-> LaterSec(sec, bucketStart), sum |-> [d \in Dirs |-> SumOf(a.ring[d])]]
     /\ UNCHANGED <<total, credited>>

Next == \E sec \in Secs : \/ \E n \in 1 .. MaxBytes, d \in Dirs : Add(sec, n, d)
                          \/ Rates(sec)

Spec == Init /\ [][Next]_vars

-----------------------------------------------------------------------------
(* The bytes credited to a second: none outside the behaviour. *)
CreditedTo(d, s) == IF s \in Secs THEN credited[d][s] ELSE 0

(* Bucket i places behind head holds exactly what was added for the second i *)
(* before bucketStart, in whatever order packets were stamped and however    *)
(* long the flow was idle (advance, Add).                                    *)
BucketsMatchSeconds ==
  \A d \in Dirs, i \in Slots :
    ring[d][(head - i) % rateBuckets] = CreditedTo(d, bucketStart - i)

(* The rate is an average over rateWindow: Rates sums the bytes added for    *)
(* the five seconds that end at the one it is asked about (or, asked about   *)
(* the past, at the ring's), so a flow that has stopped reads as zero.       *)
RatesCoverTheWindow ==
  [][rates' # rates =>
       \A d \in Dirs :
         rates'.sum[d] = SumOf([i \in Slots |-> CreditedTo(d, rates'.sec - i)])]_vars
=============================================================================
