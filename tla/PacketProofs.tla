---------------------------- MODULE PacketProofs ----------------------------
(***************************************************************************)
(* Proofs about what capture does with a packet.  ByteCounter: for packets *)
(* stamped in any order and any pauses, a bucket holds what was added for  *)
(* its second, and Rates sums the last five seconds.  Decoder: whatever    *)
(* the reused layers held, a packet is accounted to its own connection and *)
(* direction.  Inspect: a hostname is read from the ClientHello's bytes,   *)
(* however segments are lost, repeated and reordered.                      *)
(***************************************************************************)
EXTENDS MCPacket, Sequences, TLAPS

(* Nothing has been added for a second the ring has not reached. *)
FutureIsEmpty == \A d \in Dirs, s \in Secs : s > bucketStart => credited[d][s] = 0

(* A ring that has never moved is empty. *)
UnusedIsEmpty == bucketStart = 0 => \A d \in Dirs, i \in Slots : ring[d][i] = 0

(* The inductive invariant. *)
Inv == TypeOK /\ BucketsMatchSeconds /\ FutureIsEmpty /\ UnusedIsEmpty

-----------------------------------------------------------------------------
(* The ring's arithmetic. *)

LEMMA SlotsType == Slots = {0, 1, 2, 3, 4}
BY DEF Slots, rateBuckets

LEMMA ModType == ASSUME NEW x \in Int PROVE x % rateBuckets \in Slots
BY DEF rateBuckets, Slots

(* The slot i places behind head, and the slot k places past it. *)
LEMMA Behind ==
  ASSUME NEW h \in Slots, NEW i \in Slots
  PROVE  (h - i) % rateBuckets = IF h >= i THEN h - i ELSE h - i + 5
BY DEF rateBuckets, Slots

LEMMA Ahead ==
  ASSUME NEW h \in Slots, NEW k \in Slots
  PROVE  (h + k) % rateBuckets = IF h + k <= 4 THEN h + k ELSE h + k - 5
BY DEF rateBuckets, Slots

-----------------------------------------------------------------------------
(* advance. *)

(* The ring r with head h, at second st, holds what was added for each second. *)
Matches(r, h, st) ==
  \A d \in Dirs, i \in Slots : r[d][(h - i) % rateBuckets] = CreditedTo(d, st - i)

(* What advance returns, by its four cases. *)
LEMMA AdvanceCases ==
  ASSUME Inv, NEW sec \in Secs
  PROVE  LET steps == sec - bucketStart
             passed == {(head + k) % rateBuckets : k \in 1 .. steps}
             a == advance(sec)
         IN /\ bucketStart = 0 => a = [ring |-> ring, head |-> head, start |-> sec]
            /\ bucketStart # 0 /\ steps <= 0 =>
                 a = [ring |-> ring, head |-> head, start |-> bucketStart]
            /\ bucketStart # 0 /\ steps >= rateBuckets =>
                 a = [ring |-> [d \in Dirs |-> [i \in Slots |-> 0]], head |-> head, start |-> sec]
            /\ bucketStart # 0 /\ steps > 0 /\ steps < rateBuckets =>
                 a = [ring |-> [d \in Dirs |->
                                  [i \in Slots |-> IF i \in passed THEN 0 ELSE ring[d][i]]],
                      head |-> (head + steps) % rateBuckets, start |-> sec]
BY ByteCounterAssumption DEF Inv, TypeOK, advance, rateBuckets, Secs

(* advance rolls the ring to the later of its second and sec, and every      *)
(* bucket still holds what was added for its second.                         *)
LEMMA AdvanceMatches ==
  ASSUME Inv, NEW sec \in Secs
  PROVE  LET a == advance(sec)
         IN /\ a.ring \in [Dirs -> [Slots -> Nat]] /\ a.head \in Slots
            /\ a.start = LaterSec(sec, bucketStart) /\ a.start \in Secs
            /\ Matches(a.ring, a.head, a.start)
            /\ \A d \in Dirs, s \in Secs : s > a.start => credited[d][s] = 0
<1> DEFINE steps == sec - bucketStart
           passed == {(head + k) % rateBuckets : k \in 1 .. steps}
           a == advance(sec)
<1>1. /\ bucketStart \in Nat /\ bucketStart <= MaxSec /\ MaxSec \in Nat
      /\ sec \in Nat /\ sec >= 1 /\ sec <= MaxSec /\ head \in Slots
      /\ ring \in [Dirs -> [Slots -> Nat]]
  BY ByteCounterAssumption DEF Inv, TypeOK, Secs
<1>2. \A d \in Dirs, s \in Int : s > bucketStart => CreditedTo(d, s) = 0
  BY DEF CreditedTo, Inv, FutureIsEmpty
<1>3. \A i \in Slots : i \in Nat /\ i <= 4
  BY SlotsType
<1>4. CASE bucketStart = 0
  <2>1. a = [ring |-> ring, head |-> head, start |-> sec]
    BY <1>4, AdvanceCases, Zenon
  <2>2. ASSUME NEW d \in Dirs, NEW i \in Slots
        PROVE  ring[d][(head - i) % rateBuckets] = CreditedTo(d, sec - i)
    <3>1. ring[d][(head - i) % rateBuckets] = 0
      BY <1>1, <1>3, <1>4, ModType DEF Inv, UnusedIsEmpty
    <3>2. CreditedTo(d, sec - i) = 0
      BY <1>1, <1>2, <1>3, <1>4 DEF CreditedTo, Secs
    <3> QED BY <3>1, <3>2
  <2> QED BY <1>1, <1>2, <1>4, <2>1, <2>2
      DEF Matches, LaterSec, Inv, FutureIsEmpty, Secs
<1>5. CASE bucketStart # 0 /\ steps <= 0
  <2>1. a = [ring |-> ring, head |-> head, start |-> bucketStart]
    BY <1>5, AdvanceCases, Zenon
  <2> QED BY <1>1, <1>5, <2>1
      DEF Matches, LaterSec, Inv, FutureIsEmpty, BucketsMatchSeconds, Secs
<1>6. CASE bucketStart # 0 /\ steps >= rateBuckets
  <2>1. a = [ring |-> [d \in Dirs |-> [i \in Slots |-> 0]], head |-> head, start |-> sec]
    BY <1>6, AdvanceCases, Zenon
  <2>2. ASSUME NEW d \in Dirs, NEW i \in Slots
        PROVE  a.ring[d][(head - i) % rateBuckets] = CreditedTo(d, sec - i)
    <3>1. a.ring[d][(head - i) % rateBuckets] = 0
      BY <1>1, <1>3, <2>1, ModType, SlotsType
    <3>2. CreditedTo(d, sec - i) = 0
      BY <1>1, <1>2, <1>3, <1>6 DEF rateBuckets
    <3> QED BY <3>1, <3>2, Zenon
  <2> QED BY <1>1, <1>2, <1>6, <2>1, <2>2
      DEF Matches, LaterSec, Inv, FutureIsEmpty, Secs, rateBuckets
<1>7. CASE bucketStart # 0 /\ steps > 0 /\ steps < rateBuckets
  <2>1. a = [ring |-> [d \in Dirs |-> [i \in Slots |-> IF i \in passed THEN 0 ELSE ring[d][i]]],
             head |-> (head + steps) % rateBuckets, start |-> sec]
    BY <1>7, AdvanceCases, Zenon
  <2>2. steps \in Slots /\ steps # 0 /\ (head + steps) % rateBuckets \in Slots
    BY <1>1, <1>7, SlotsType, ModType DEF rateBuckets
  <2>3. ASSUME NEW d \in Dirs, NEW i \in Slots
        PROVE  a.ring[d][(a.head - i) % rateBuckets] = CreditedTo(d, sec - i)
    <3> DEFINE slot == (a.head - i) % rateBuckets
    <3>1. slot \in Slots /\ a.ring[d][slot] = IF slot \in passed THEN 0 ELSE ring[d][slot]
      BY <1>3, <2>1, <2>2, ModType, SlotsType
    <3>2. CASE i < steps
      <4>1. slot = (head + (steps - i)) % rateBuckets /\ steps - i \in 1 .. steps
        BY <1>1, <1>3, <2>1, <2>2, <3>2, SlotsType DEF rateBuckets
      <4>2. CreditedTo(d, sec - i) = 0
        BY <1>1, <1>2, <1>3, <3>2
      <4> QED BY <3>1, <4>1, <4>2, Zenon
    <3>3. CASE i >= steps
      <4>1. i - steps \in Slots
        BY <1>1, <1>3, <2>2, <3>3, SlotsType
      <4>2. slot = (head - (i - steps)) % rateBuckets
        BY <1>1, <1>3, <2>1, <2>2, <3>3, SlotsType DEF rateBuckets
      <4>3. slot \notin passed
        BY <1>1, <1>3, <2>2, <3>3, <4>2, SlotsType DEF rateBuckets
      <4>4. ring[d][slot] = CreditedTo(d, bucketStart - (i - steps))
        BY <4>1, <4>2, Zenon DEF Inv, BucketsMatchSeconds
      <4>5. bucketStart - (i - steps) = sec - i
        BY <1>1, <1>3
      <4> QED BY <3>1, <4>3, <4>4, <4>5, Zenon
    <3> QED BY <1>1, <1>3, <3>2, <3>3
  <2>4. a.ring \in [Dirs -> [Slots -> Nat]]
    BY <1>1, <2>1
  <2>5. a.head \in Slots /\ a.start = sec
    BY <2>1, <2>2
  <2>6. Matches(a.ring, a.head, a.start)
    BY <2>3, <2>5, Zenon DEF Matches
  <2>7. sec = LaterSec(sec, bucketStart) /\ sec > bucketStart
    BY <1>1, <1>7 DEF LaterSec
  <2>8. \A d \in Dirs, s \in Secs : s > sec => credited[d][s] = 0
    BY <1>1, <2>7 DEF Inv, FutureIsEmpty, Secs
  <2> HIDE DEF a
  <2> QED BY <2>4, <2>5, <2>6, <2>7, <2>8 DEF a
<1> QED BY <1>1, <1>4, <1>5, <1>6, <1>7 DEF rateBuckets

-----------------------------------------------------------------------------
LEMMA InitInv == ASSUME Init PROVE Inv
<1>1. 0 \in Slots /\ \A i \in Slots : (0 - i) % rateBuckets \in Slots
  BY SlotsType, ModType
<1>2. TypeOK
  BY <1>1, ByteCounterAssumption DEF Init, TypeOK, Secs
<1>3. BucketsMatchSeconds
  BY <1>1, SlotsType, Zenon DEF Init, BucketsMatchSeconds, CreditedTo
<1> QED BY <1>2, <1>3 DEF Init, Inv, FutureIsEmpty, UnusedIsEmpty

(* Add credits the bucket of the second the packet is counted for. *)
LEMMA AddInv ==
  ASSUME Inv, NEW sec \in Secs, NEW n \in 1 .. MaxBytes, NEW d \in Dirs, Add(sec, n, d)
  PROVE  Inv'
<1> DEFINE a == advance(sec)
<1>1. /\ a.ring \in [Dirs -> [Slots -> Nat]] /\ a.head \in Slots
      /\ a.start = LaterSec(sec, bucketStart) /\ a.start \in Secs
      /\ Matches(a.ring, a.head, a.start)
      /\ \A e \in Dirs, s \in Secs : s > a.start => credited[e][s] = 0
  BY AdvanceMatches, Zenon
<1>2. /\ ring' = [a.ring EXCEPT ![d][a.head] = @ + n]
      /\ head' = a.head /\ bucketStart' = a.start
      /\ total' = [total EXCEPT ![d] = @ + n]
      /\ credited' = [credited EXCEPT ![d][a.start] = @ + n]
      /\ rates' = rates
  BY <1>1, Zenon DEF Add
<1> HIDE DEF a
<1>3. n \in Nat /\ MaxSec \in Nat
  BY ByteCounterAssumption
<1>4. /\ ring' \in [Dirs -> [Slots -> Nat]] /\ credited' \in [Dirs -> [Secs -> Nat]]
      /\ total' \in [Dirs -> Nat] /\ rates' \in [sec: 0 .. MaxSec, sum: [Dirs -> Nat]]
  BY <1>1, <1>2, <1>3 DEF Inv, TypeOK
<1>5. bucketStart' \in 0 .. MaxSec /\ bucketStart' # 0
  BY <1>1, <1>2, <1>3 DEF Secs
<1>6. TypeOK'
  BY <1>1, <1>2, <1>4, <1>5, Zenon DEF TypeOK
<1>7. ASSUME NEW e \in Dirs, NEW i \in Slots
      PROVE  ring'[e][(a.head - i) % rateBuckets] =
               IF a.start - i \in Secs THEN credited'[e][a.start - i] ELSE 0
  <2>1. /\ a.ring[e][(a.head - i) % rateBuckets] = CreditedTo(e, a.start - i)
        /\ (a.head - i) % rateBuckets \in Slots
    BY <1>1, ModType, SlotsType DEF Matches
  <2>2. (a.head - i) % rateBuckets = a.head <=> i = 0
    BY <1>1, SlotsType DEF rateBuckets
  <2>3. a.start - i = a.start <=> i = 0
    BY <1>1, <1>3, SlotsType DEF Secs
  <2>4. CASE e = d /\ i = 0
    BY <1>1, <1>2, <2>1, <2>2, <2>3, <2>4, Zenon DEF CreditedTo, Inv, TypeOK
  <2>5. CASE ~(e = d /\ i = 0)
    <3>1. ring'[e][(a.head - i) % rateBuckets] = a.ring[e][(a.head - i) % rateBuckets]
      BY <1>1, <1>2, <2>1, <2>2, <2>5, Zenon
    <3>2. a.start - i \in Secs => credited'[e][a.start - i] = credited[e][a.start - i]
      BY <1>1, <1>2, <2>3, <2>5, Zenon DEF Inv, TypeOK
    <3> QED BY <2>1, <3>1, <3>2, Zenon DEF CreditedTo
  <2> QED BY <2>4, <2>5, Zenon
<1>8. BucketsMatchSeconds'
  BY <1>2, <1>7 DEF BucketsMatchSeconds, CreditedTo
<1>9. FutureIsEmpty'
  <2> SUFFICES ASSUME NEW e \in Dirs, NEW s \in Secs, s > bucketStart' PROVE credited'[e][s] = 0
    BY Zenon DEF FutureIsEmpty
  <2>1. s # a.start /\ s > a.start
    BY <1>1, <1>2, <1>3 DEF Secs
  <2>2. credited'[e][s] = credited[e][s]
    BY <1>1, <1>2, <2>1, Zenon DEF Inv, TypeOK
  <2> QED BY <1>1, <2>1, <2>2, Zenon
<1>10. UnusedIsEmpty'
  BY <1>5 DEF UnusedIsEmpty
<1> QED BY <1>6, <1>8, <1>9, <1>10 DEF Inv

(* Rates sums the five seconds up to the one the ring is at. *)
LEMMA RatesSums ==
  ASSUME Inv, NEW sec \in Secs, Rates(sec), NEW d \in Dirs
  PROVE  /\ rates'.sum[d] = SumOf([i \in Slots |-> CreditedTo(d, rates'.sec - i)])
         /\ rates'.sum[d] \in Nat /\ rates'.sec \in Secs
<1> DEFINE a == advance(sec)
<1>1. /\ a.ring \in [Dirs -> [Slots -> Nat]] /\ a.head \in Slots
      /\ a.start = LaterSec(sec, bucketStart) /\ a.start \in Secs
      /\ Matches(a.ring, a.head, a.start)
  BY AdvanceMatches, Zenon
<1>2. rates' = [sec |-> LaterSec(sec, bucketStart), sum |-> [e \in Dirs |-> SumOf(a.ring[e])]]
  BY Zenon DEF Rates
<1> HIDE DEF a
<1>3. rates'.sec = a.start /\ rates'.sum[d] = SumOf(a.ring[d])
  BY <1>1, <1>2
<1> DEFINE r == a.ring[d]
<1>4. r \in [Slots -> Nat] /\ \A i \in Slots : r[i] \in Nat
  BY <1>1, Zenon
<1>5. \A i \in Slots : CreditedTo(d, a.start - i) = r[(a.head - i) % rateBuckets]
  BY <1>1, Zenon DEF Matches
<1> HIDE DEF r
<1>6. r[0] + r[1] + r[2] + r[3] + r[4] =
        r[(a.head - 0) % 5] + r[(a.head - 1) % 5] + r[(a.head - 2) % 5]
          + r[(a.head - 3) % 5] + r[(a.head - 4) % 5]
  <2> DEFINE Slot(i) == IF a.head >= i THEN a.head - i ELSE a.head - i + 5
  <2>slots. /\ (a.head - 0) % 5 = Slot(0) /\ (a.head - 1) % 5 = Slot(1) /\ (a.head - 2) % 5 = Slot(2)
        /\ (a.head - 3) % 5 = Slot(3) /\ (a.head - 4) % 5 = Slot(4)
    BY <1>1, SlotsType
  <2>1. CASE a.head = 0
    BY <1>4, <2>1, <2>slots, SlotsType
  <2>2. CASE a.head = 1
    BY <1>4, <2>2, <2>slots, SlotsType
  <2>3. CASE a.head = 2
    BY <1>4, <2>3, <2>slots, SlotsType
  <2>4. CASE a.head = 3
    BY <1>4, <2>4, <2>slots, SlotsType
  <2>5. CASE a.head = 4
    BY <1>4, <2>5, <2>slots, SlotsType
  <2> QED BY <1>1, <2>1, <2>2, <2>3, <2>4, <2>5, SlotsType, Zenon
<1>7. SumOf([i \in Slots |-> CreditedTo(d, a.start - i)]) = SumOf(r)
  BY <1>5, <1>6, SlotsType, Zenon DEF SumOf, rateBuckets
<1> QED BY <1>1, <1>3, <1>4, <1>7, SlotsType DEF SumOf, r

LEMMA RatesInv == ASSUME Inv, NEW sec \in Secs, Rates(sec) PROVE Inv'
<1> DEFINE a == advance(sec)
<1>1. /\ a.ring \in [Dirs -> [Slots -> Nat]] /\ a.head \in Slots
      /\ a.start \in Secs
      /\ Matches(a.ring, a.head, a.start)
      /\ \A d \in Dirs, s \in Secs : s > a.start => credited[d][s] = 0
  BY AdvanceMatches, Zenon
<1>2. /\ ring' = a.ring /\ head' = a.head /\ bucketStart' = a.start
      /\ total' = total /\ credited' = credited
      /\ rates' = [sec |-> LaterSec(sec, bucketStart), sum |-> [d \in Dirs |-> SumOf(a.ring[d])]]
  BY Zenon DEF Rates
<1> HIDE DEF a
<1>3. bucketStart' \in 0 .. MaxSec /\ bucketStart' # 0
  BY <1>1, <1>2, ByteCounterAssumption DEF Secs
<1>4. rates' \in [sec: 0 .. MaxSec, sum: [Dirs -> Nat]]
  <2>1. rates'.sec \in 0 .. MaxSec
    BY <1>2, ByteCounterAssumption DEF LaterSec, Inv, TypeOK, Secs
  <2>2. \A d \in Dirs : SumOf(a.ring[d]) \in Nat
    BY <1>1, SlotsType DEF SumOf
  <2> QED BY <1>2, <2>1, <2>2
<1>5. TypeOK'
  BY <1>1, <1>2, <1>3, <1>4, Zenon DEF Inv, TypeOK
<1>6. BucketsMatchSeconds'
  BY <1>1, <1>2, Zenon DEF Matches, BucketsMatchSeconds, CreditedTo
<1>7. FutureIsEmpty' /\ UnusedIsEmpty'
  BY <1>1, <1>2, <1>3, Zenon DEF FutureIsEmpty, UnusedIsEmpty
<1> QED BY <1>5, <1>6, <1>7 DEF Inv

-----------------------------------------------------------------------------
(* The invariant of the ring. *)
THEOREM Invariance == Spec => []Inv
<1>1. Init => Inv
  BY InitInv
<1>2. Inv /\ [Next]_vars => Inv'
  <2> SUFFICES ASSUME Inv, [Next]_vars PROVE Inv'
    OBVIOUS
  <2>1. CASE UNCHANGED vars
    BY <2>1, Zenon DEF vars, Inv, TypeOK, BucketsMatchSeconds, CreditedTo, FutureIsEmpty, UnusedIsEmpty
  <2> QED BY <2>1, AddInv, RatesInv DEF Next
<1> QED BY <1>1, <1>2, PTL DEF Spec

(* A bucket holds exactly what was added for its second, in whatever order   *)
(* packets were stamped and however long the flow was idle (advance, Add).   *)
THEOREM BucketsAreSeconds == Spec => []BucketsMatchSeconds
<1>1. Inv => BucketsMatchSeconds
  BY DEF Inv
<1> QED BY <1>1, Invariance, PTL

(* Rates sums the bytes of the rateBuckets seconds that end at the one it is *)
(* asked about, or at the ring's: a flow that has stopped reads as zero.     *)
THEOREM RatesAreTheWindow == Spec => RatesCoverTheWindow
<1> DEFINE Covers ==
      rates' # rates =>
        \A d \in Dirs : rates'.sum[d] = SumOf([i \in Slots |-> CreditedTo(d, rates'.sec - i)])
<1>1. Inv /\ [Next]_vars => [Covers]_vars
  <2> SUFFICES ASSUME Inv, Next, rates' # rates PROVE Covers
    OBVIOUS
  <2>1. PICK sec \in Secs : Rates(sec)
    BY Zenon DEF Next, Add
  <2> QED BY <2>1, RatesSums
<1> QED BY <1>1, Invariance, PTL DEF Spec, RatesCoverTheWindow

-----------------------------------------------------------------------------
(* Decoder.  The decoder's ports are those of another packet only for the      *)
(* protocols that have none: the key of a TCP or UDP packet is its own.        *)

(* What normalise makes of a packet with ports of its own. *)
Normalised(s) ==
  LET p == s.pkt
      k == s.key
  IN /\ p \in Decoding!Packet /\ k \in Decoding!FlowKey /\ k.proto = p.proto
     /\ s.inbound = (p.src \notin LocalAddrs)
     /\ s.inbound => p.dst \in LocalAddrs /\ k.local = p.dst /\ k.remote = p.src
     /\ ~s.inbound => k.local = p.src /\ k.remote = p.dst
     /\ Decoding!Stream(p) =>
          IF s.inbound THEN k.lport = p.dport /\ k.rport = p.sport
                       ELSE k.lport = p.sport /\ k.rport = p.dport

(* A flag is read from the packet it is in, or there are no such packets. *)
FlagsCaptured == "ports" \notin Captures

DecodeInv ==
  /\ Decoding!TypeOK
  /\ \A s \in seen : Normalised(s)
  /\ FlagsCaptured => Decoding!EventsAreOwn

Recorded == [pkt: Decoding!Packet, key: Decoding!FlowKey, inbound: BOOLEAN]

(* The record handlePacket keeps of a packet is normalised. *)
LEMMA RecordNormalised ==
  ASSUME Decoding!TypeOK, NEW pkt \in Decoding!Packet, Decoding!Decodable(pkt),
         pkt.src \in LocalAddrs \/ pkt.dst \in LocalAddrs
  PROVE  LET n == Decoding!normalise(Decoding!decode(pkt))
             s == [pkt |-> pkt, key |-> n.key, inbound |-> n.inbound]
         IN s \in Recorded /\ Normalised(s)
<1> DEFINE t == Decoding!DecodeLayers(pkt)
           info == Decoding!decode(pkt)
           n == Decoding!normalise(info)
           s == [pkt |-> pkt, key |-> n.key, inbound |-> n.inbound]
<1>1. /\ pkt.src \in Decoding!Addrs /\ pkt.dst \in Decoding!Addrs /\ pkt.proto \in Protos
      /\ pkt.sport \in PortNums /\ pkt.dport \in PortNums
  BY DEF Decoding!Packet
<1>2. t.src \in Decoding!PortOrZero /\ t.dst \in Decoding!PortOrZero
  BY <1>1, Zenon DEF Decoding!DecodeLayers, Decoding!DecodeFromBytes, Decoding!TypeOK, Decoding!PortOrZero
<1>3. Decoding!Stream(pkt) => t.src = pkt.sport /\ t.dst = pkt.dport
  BY DEF Decoding!Stream, Decoding!DecodeLayers, Decoding!DecodeFromBytes
<1> HIDE DEF t
<1>4. /\ info.src = pkt.src /\ info.dst = pkt.dst /\ info.proto = pkt.proto
      /\ info.sport = t.src /\ info.dport = t.dst
  BY Zenon DEF Decoding!decode, t
<1> HIDE DEF info
<1>5. CASE pkt.src \in LocalAddrs
  <2>1. /\ n.key = [local |-> pkt.src, lport |-> t.src, remote |-> pkt.dst, rport |-> t.dst,
                    proto |-> pkt.proto]
        /\ n.inbound = FALSE
    BY <1>4, <1>5, Zenon DEF Decoding!normalise
  <2> HIDE DEF n
  <2>2. n.key \in Decoding!FlowKey
    BY <1>1, <1>2, <2>1 DEF Decoding!FlowKey
  <2>3. s \in Recorded
    BY <2>1, <2>2, Zenon DEF Recorded
  <2>4. Normalised(s)
    <3>1. /\ s.pkt = pkt /\ s.key = n.key /\ s.inbound = FALSE
          /\ n.key.local = pkt.src /\ n.key.lport = t.src /\ n.key.remote = pkt.dst /\ n.key.rport = t.dst
          /\ n.key.proto = pkt.proto
      BY <2>1
    <3> HIDE DEF s
    <3> QED BY <1>3, <1>5, <2>2, <3>1, Zenon DEF Normalised
  <2> QED BY <2>3, <2>4 DEF info, n
<1>6. CASE pkt.src \notin LocalAddrs
  <2>1. /\ n.key = [local |-> pkt.dst, lport |-> t.dst, remote |-> pkt.src, rport |-> t.src,
                    proto |-> pkt.proto]
        /\ n.inbound = TRUE
    BY <1>4, <1>6, Zenon DEF Decoding!normalise
  <2> HIDE DEF n
  <2>2. n.key \in Decoding!FlowKey
    BY <1>1, <1>2, <2>1 DEF Decoding!FlowKey
  <2>3. s \in Recorded
    BY <2>1, <2>2, Zenon DEF Recorded
  <2>4. Normalised(s)
    <3>1. /\ s.pkt = pkt /\ s.key = n.key /\ s.inbound = TRUE
          /\ n.key.local = pkt.dst /\ n.key.lport = t.dst /\ n.key.remote = pkt.src /\ n.key.rport = t.src
          /\ n.key.proto = pkt.proto
      BY <2>1
    <3> HIDE DEF s
    <3> QED BY <1>3, <1>6, <2>2, <3>1, Zenon DEF Normalised
  <2> QED BY <2>3, <2>4 DEF info, n
<1> QED BY <1>5, <1>6, Zenon

LEMMA HandlePacketInv ==
  ASSUME DecodeInv, NEW pkt \in Decoding!Packet, Decoding!handlePacket(pkt)
  PROVE  DecodeInv'
<1> DEFINE info == Decoding!decode(pkt)
           n == Decoding!normalise(info)
           s == [pkt |-> pkt, key |-> n.key, inbound |-> n.inbound]
           kept == Decoding!Decodable(pkt) /\ (pkt.src \in LocalAddrs \/ pkt.dst \in LocalAddrs)
           syn == Decoding!IsAttempt(info)
           rst == info.proto = "tcp" /\ "RST" \in info.flags
<1>1. /\ count < MaxPackets /\ count' = count + 1
      /\ ports' = IF Decoding!Decodable(pkt) THEN Decoding!DecodeLayers(pkt) ELSE ports
      /\ kept => /\ seen' = seen \cup {s}
                 /\ syns' = IF syn THEN syns \cup {pkt} ELSE syns
                 /\ rsts' = IF rst THEN rsts \cup {pkt} ELSE rsts
      /\ ~kept => UNCHANGED <<seen, syns, rsts>>
  BY Zenon DEF Decoding!handlePacket
<1>2. kept => s \in Recorded /\ Normalised(s)
  BY RecordNormalised, Zenon DEF DecodeInv
<1>3. FlagsCaptured /\ kept =>
        /\ syn <=> pkt.proto = "tcp" /\ "SYN" \in pkt.flags /\ "ACK" \notin pkt.flags
        /\ rst <=> pkt.proto = "tcp" /\ "RST" \in pkt.flags
  <2> SUFFICES ASSUME FlagsCaptured, kept, pkt.proto = "tcp" PROVE info.flags = pkt.flags
    BY Zenon DEF Decoding!IsAttempt, Decoding!decode
  <2>1. pkt.captured \in Captures /\ pkt.captured # "cut"
    BY DEF Decoding!Packet, Decoding!Decodable
  <2>2. pkt.captured = "whole"
    BY <2>1, DecodingAssumption, Zenon DEF Decoding!DecoderAssumption, FlagsCaptured
  <2> QED BY <2>2, Zenon DEF Decoding!decode, Decoding!DecodeLayers, Decoding!DecodeFromBytes
<1>4. Decoding!DecodeLayers(pkt) \in
        [src: Decoding!PortOrZero, dst: Decoding!PortOrZero, flags: FlagSets \cup {{}}]
  BY Zenon DEF DecodeInv, Decoding!TypeOK, Decoding!DecodeLayers, Decoding!DecodeFromBytes, Decoding!Packet,
     Decoding!PortOrZero
<1>5. s.pkt = pkt
  OBVIOUS
<1> HIDE DEF s, syn, rst, kept
<1>6. Decoding!TypeOK'
  <2>1. count' \in 0 .. MaxPackets
    BY <1>1, DecodingAssumption DEF DecodeInv, Decoding!TypeOK, Decoding!DecoderAssumption
  <2>2. ports' \in [src: Decoding!PortOrZero, dst: Decoding!PortOrZero, flags: FlagSets \cup {{}}]
    BY <1>1, <1>4 DEF DecodeInv, Decoding!TypeOK
  <2>3. seen' \subseteq Recorded
    BY <1>1, <1>2 DEF DecodeInv, Decoding!TypeOK, Recorded
  <2>4. syns' \subseteq Decoding!Packet /\ rsts' \subseteq Decoding!Packet
    BY <1>1 DEF DecodeInv, Decoding!TypeOK
  <2> QED BY <2>1, <2>2, <2>3, <2>4 DEF Decoding!TypeOK, Recorded
<1>7. \A x \in seen' : Normalised(x)
  BY <1>1, <1>2 DEF DecodeInv
<1>8. ASSUME FlagsCaptured PROVE Decoding!EventsAreOwn'
  <2>1. CASE ~kept
    BY <1>1, <1>8, <2>1 DEF DecodeInv, Decoding!EventsAreOwn
  <2>2. CASE kept
    <3>1. {x.pkt : x \in {y \in seen' : y.pkt.proto = "tcp"}}
            = {x.pkt : x \in {y \in seen : y.pkt.proto = "tcp"}} \cup
              (IF pkt.proto = "tcp" THEN {pkt} ELSE {})
      BY <1>1, <1>5, <2>2
    <3> QED BY <1>1, <1>3, <1>8, <2>2, <3>1, Zenon DEF DecodeInv, Decoding!EventsAreOwn
  <2> QED BY <2>1, <2>2
<1> QED BY <1>6, <1>7, <1>8 DEF DecodeInv

(* Normalised records have one key exactly when they are of one connection. *)
LEMMA NormalisedSeparates ==
  ASSUME NEW s, NEW t, Normalised(s), Normalised(t),
         Decoding!Stream(s.pkt), Decoding!Stream(t.pkt), ~Decoding!Local(s.pkt), ~Decoding!Local(t.pkt)
  PROVE  s.key = t.key <=> s.pkt.proto = t.pkt.proto /\ Decoding!Ends(s.pkt) = Decoding!Ends(t.pkt)
<1> DEFINE p == s.pkt
           q == t.pkt
<1>1. /\ s.key = [local |-> s.key.local, lport |-> s.key.lport, remote |-> s.key.remote,
                  rport |-> s.key.rport, proto |-> s.key.proto]
      /\ t.key = [local |-> t.key.local, lport |-> t.key.lport, remote |-> t.key.remote,
                  rport |-> t.key.rport, proto |-> t.key.proto]
  BY Zenon DEF Normalised, Decoding!FlowKey
<1>2. /\ Decoding!Ends(p) = {<<s.key.local, s.key.lport>>, <<s.key.remote, s.key.rport>>}
      /\ s.key.local \in LocalAddrs /\ s.key.remote \notin LocalAddrs /\ s.key.proto = p.proto
  BY Zenon DEF Normalised, Decoding!Ends, Decoding!Local
<1>3. /\ Decoding!Ends(q) = {<<t.key.local, t.key.lport>>, <<t.key.remote, t.key.rport>>}
      /\ t.key.local \in LocalAddrs /\ t.key.remote \notin LocalAddrs /\ t.key.proto = q.proto
  BY Zenon DEF Normalised, Decoding!Ends, Decoding!Local
<1>4. ASSUME Decoding!Ends(p) = Decoding!Ends(q), p.proto = q.proto PROVE s.key = t.key
  <2>1. <<s.key.local, s.key.lport>> = <<t.key.local, t.key.lport>>
    BY <1>2, <1>3, <1>4, Zenon
  <2>2. <<s.key.remote, s.key.rport>> = <<t.key.remote, t.key.rport>>
    BY <1>2, <1>3, <1>4, Zenon
  <2> QED BY <1>1, <1>2, <1>3, <1>4, <2>1, <2>2, Zenon
<1> QED BY <1>2, <1>3, <1>4, Zenon

LEMMA NormalisedDirections ==
  ASSUME NEW s, NEW t, Normalised(s), Normalised(t),
         Decoding!Stream(s.pkt), ~Decoding!Local(s.pkt), s.key = t.key
  PROVE  s.inbound = t.inbound <=> s.pkt.src = t.pkt.src
<1>1. s.key.local \in LocalAddrs /\ s.key.remote \notin LocalAddrs
  BY Zenon DEF Normalised, Decoding!Local
<1>2. /\ s.inbound \in BOOLEAN /\ t.inbound \in BOOLEAN
      /\ s.pkt.src = IF s.inbound THEN s.key.remote ELSE s.key.local
      /\ t.pkt.src = IF t.inbound THEN s.key.remote ELSE s.key.local
  BY Zenon DEF Normalised
<1> QED BY <1>1, <1>2

(* The invariant of the decoder. *)
THEOREM DecodeInvariance == Decoding!Spec => []DecodeInv
<1>1. Decoding!Init => DecodeInv
  BY DecodingAssumption DEF Decoding!Init, DecodeInv, Decoding!TypeOK, Decoding!EventsAreOwn,
     Decoding!PortOrZero, Decoding!DecoderAssumption
<1>2. DecodeInv /\ [Decoding!Next]_(Decoding!vars) => DecodeInv'
  <2> SUFFICES ASSUME DecodeInv, [Decoding!Next]_(Decoding!vars) PROVE DecodeInv'
    OBVIOUS
  <2>1. CASE UNCHANGED Decoding!vars
    BY <2>1, Zenon DEF Decoding!vars, DecodeInv, Decoding!TypeOK, Decoding!EventsAreOwn
  <2> QED BY <2>1, HandlePacketInv DEF Decoding!Next
<1> QED BY <1>1, <1>2, PTL DEF Decoding!Spec

(* Both directions of a connection have one key, which no other connection     *)
(* has, and are counted apart; and where the flags of every TCP header are     *)
(* captured, SYN and RST events are those of the packets (normalise,           *)
(* handlePacket).                                                              *)
THEOREM PacketsAccounted == FlagsCaptured /\ Decoding!Spec => []PacketsAreOwn
<1>1. DecodeInv => Decoding!OneEntryPerConnection
  BY NormalisedSeparates DEF DecodeInv, Decoding!OneEntryPerConnection
<1>2. DecodeInv => Decoding!DirectionsApart
  BY NormalisedDirections DEF DecodeInv, Decoding!DirectionsApart
<1>3. FlagsCaptured /\ DecodeInv => PacketsAreOwn
  BY <1>1, <1>2 DEF DecodeInv, PacketsAreOwn
<1>4. FlagsCaptured => (DecodeInv => PacketsAreOwn)
  BY <1>3
<1>5. CASE FlagsCaptured
  <2>1. DecodeInv => PacketsAreOwn
    BY <1>4, <1>5
  <2> QED BY <2>1, DecodeInvariance, PTL
<1>6. CASE ~FlagsCaptured
  BY <1>6, PTL
<1> QED BY <1>5, <1>6

-----------------------------------------------------------------------------
(* Inspect: arithmetic modulo m, in which sequence numbers are counted. *)

LEMMA ModDiv ==
  ASSUME NEW m \in Nat \ {0}, NEW a \in Int
  PROVE  a \div m \in Int /\ a % m \in 0 .. m - 1 /\ a = m * (a \div m) + (a % m)
<1>1. a \div m \in Int
  OBVIOUS
<1>2. a % m \in 0 .. m - 1
  OBVIOUS
<1>3. a = m * (a \div m) + (a % m)
  OBVIOUS
<1> QED BY <1>1, <1>2, <1>3

LEMMA ModParts ==
  ASSUME NEW m \in Nat \ {0}, NEW a \in Int
  PROVE  \E q \in Int : \E r \in 0 .. m - 1 : a = m * q + r /\ r = a % m
<1>1. PICK q \in Int : q = a \div m
  BY ModDiv
<1>2. PICK r \in 0 .. m - 1 : r = a % m
  BY ModDiv
<1>3. a = m * (a \div m) + (a % m)
  BY ModDiv
<1>4. a = m * q + r
  BY <1>1, <1>2, <1>3
<1> QED BY <1>2, <1>4

LEMMA ModIs ==
  ASSUME NEW m \in Nat \ {0}, NEW q \in Int, NEW r \in 0 .. m - 1
  PROVE  (m * q + r) % m = r
OBVIOUS

LEMMA ModAdd ==
  ASSUME NEW m \in Nat \ {0}, NEW a \in Nat, NEW b \in Nat
  PROVE  ((a % m) + b) % m = (a + b) % m
<1>0. a \in Int /\ b \in Int
  OBVIOUS
<1>1. PICK q \in Int : \E r \in 0 .. m - 1 : a = m * q + r /\ r = a % m
  BY <1>0, ModParts
<1>11. PICK r \in 0 .. m - 1 : a = m * q + r /\ r = a % m
  BY <1>1
<1>2. r + b \in Int /\ m \in Int
  OBVIOUS
<1>3. PICK p \in Int : \E s \in 0 .. m - 1 : r + b = m * p + s /\ s = (r + b) % m
  BY <1>2, ModParts
<1>31. PICK s \in 0 .. m - 1 : r + b = m * p + s /\ s = (r + b) % m
  BY <1>3
<1>4. m * q + m * p = m * (q + p) /\ m * q \in Int /\ m * p \in Int
  BY <1>2
<1>5. a + b = m * (q + p) + s
  <2>1. a + b = m * q + (r + b)
    BY <1>11, <1>4
  <2> QED BY <1>31, <1>4, <2>1
<1>6. (m * (q + p) + s) % m = s
  BY ModIs
<1> QED BY <1>11, <1>31, <1>5, <1>6

LEMMA ModInjective ==
  ASSUME NEW m \in Nat \ {0}, NEW a \in Nat, NEW b \in Nat, a % m = b % m, a - b < m, b - a < m
  PROVE  a = b
<1>0. a \in Int /\ b \in Int
  OBVIOUS
<1>1. PICK q \in Int : \E r \in 0 .. m - 1 : a = m * q + r /\ r = a % m
  BY <1>0, ModParts
<1>11. PICK r \in 0 .. m - 1 : a = m * q + r /\ r = a % m
  BY <1>1
<1>2. PICK p \in Int : \E s \in 0 .. m - 1 : b = m * p + s /\ s = b % m
  BY <1>0, ModParts
<1>21. b = m * p + r
  BY <1>11, <1>2
<1>3. m * q - m * p = m * (q - p) /\ m * q \in Int /\ m * p \in Int /\ q - p \in Int
  OBVIOUS
<1>4. a - b = m * (q - p)
  BY <1>11, <1>21, <1>3
<1>5. \A d \in Int : d >= 1 => m * d >= m
  OBVIOUS
<1>6. \A d \in Int : d <= -1 => m * d <= -m
  OBVIOUS
<1>7. q - p = 0
  BY <1>3, <1>4, <1>5, <1>6
<1> QED BY <1>11, <1>21, <1>7

-----------------------------------------------------------------------------
(* The assembler. *)

(* No two units of the stream that could both be next share a sequence number. *)
SeqsDistinct == StreamLen <= SeqMod

Assembler ==
  [on: BOOLEAN, buf: Seq(0 .. StreamLen - 1), next: 0 .. SeqMod - 1, segs: 0 .. maxHelloSegments + 1]

(* A started assembler holds the ClientHello's first units and expects the   *)
(* one after them.                                                           *)
HoldsHello(a) ==
  /\ a \in Assembler
  /\ ~a.on => a = Inspection!Idle
  /\ a.on => /\ proto = "tcp" /\ Len(a.buf) >= 1 /\ helloAt + Len(a.buf) <= StreamLen
             /\ \A i \in 1 .. Len(a.buf) : a.buf[i] = helloAt + i - 1
             /\ a.next = (ISN + (helloAt + Len(a.buf))) % SeqMod
             /\ Len(a.buf) <= maxHelloBuffer + StreamLen

(* It is still being fed only while the record is incomplete and within the   *)
(* limits.                                                                    *)
Going(a) ==
  a.on => Len(a.buf) < RecordLen /\ Len(a.buf) <= maxHelloBuffer /\ a.segs <= maxHelloSegments

(* A stream captured in order is being fed, all of it. *)
Opening ==
  proto = "tcp" /\ helloAt = 0 /\ sni /\ inOrder >= 0 /\ ~hostname =>
    /\ ~attempted /\ Len(asm.buf) = inOrder /\ inOrder < RecordLen
    /\ asm.on <=> inOrder > 0

InspectInv ==
  /\ Inspection!TypeOK
  /\ HoldsHello(asm)
  /\ ~hostname /\ ~attempted => Going(asm)
  /\ hostname /\ proto = "tcp" => asm.on /\ Len(asm.buf) >= RecordLen
  /\ puts = IF hostname THEN 1 ELSE 0
  /\ Opening

LEMMA InspectConstants ==
  /\ StreamLen \in Nat \ {0} /\ RecordLen \in Nat \ {0} /\ maxHelloBuffer \in Nat \ {0}
  /\ maxHelloSegments \in Nat \ {0} /\ SeqMod \in Nat \ {0} /\ MaxExtracted \in Nat \ {0}
  /\ ISN \in 0 .. SeqMod - 1 /\ FlowProtos \subseteq {"tcp", "udp", "icmp"}
  /\ \A h \in HelloStarts : h \in Nat /\ h + RecordLen <= StreamLen
<1>1. /\ StreamLen \in Nat \ {0} /\ RecordLen \in Nat \ {0} /\ maxHelloBuffer \in Nat \ {0}
      /\ maxHelloSegments \in Nat \ {0} /\ SeqMod \in Nat \ {0} /\ MaxExtracted \in Nat \ {0}
  BY InspectionAssumption, Zenon DEF Inspection!InspectAssumption
<1>2. HelloStarts \subseteq 0 .. StreamLen - RecordLen
  BY InspectionAssumption, Zenon DEF Inspection!InspectAssumption
<1>3. ISN \in 0 .. SeqMod - 1 /\ FlowProtos \subseteq {"tcp", "udp", "icmp"}
  BY InspectionAssumption, Zenon DEF Inspection!InspectAssumption
<1> QED BY <1>1, <1>2, <1>3

LEMMA FunctionIsSeq ==
  ASSUME NEW n \in Nat, NEW S, NEW f \in [1 .. n -> S]
  PROVE  f \in Seq(S) /\ Len(f) = n
OBVIOUS

(* The only unit near position y that has its sequence number is y. *)
LEMMA NextUnit ==
  ASSUME NEW o \in Nat, NEW h \in Nat, NEW l \in Nat, SeqsDistinct,
         o < StreamLen, h + RecordLen <= StreamLen, l < RecordLen,
         (ISN + o) % SeqMod = (ISN + (h + l)) % SeqMod
  PROVE  o = h + l
<1>1. PICK x \in Nat : x = ISN + o
  BY InspectConstants
<1>2. PICK y \in Nat : y = ISN + (h + l)
  BY InspectConstants
<1>3. x - y < SeqMod /\ y - x < SeqMod
  BY <1>1, <1>2, InspectConstants DEF SeqsDistinct
<1>4. x % SeqMod = y % SeqMod
  BY <1>1, <1>2, Zenon
<1>5. x = y
  BY <1>3, <1>4, InspectConstants, ModInjective, Zenon
<1> QED BY <1>1, <1>2, <1>5, InspectConstants

LEMMA SegmentType ==
  ASSUME NEW p \in Inspection!Segments
  PROVE  /\ p.outbound \in BOOLEAN /\ p.parses \in BOOLEAN /\ p.off \in Nat /\ p.len \in Nat
         /\ p.off < StreamLen /\ p.off + p.len <= StreamLen
         /\ Inspection!Units(p) \in Seq(0 .. StreamLen - 1) /\ Len(Inspection!Units(p)) = p.len
         /\ \A i \in 1 .. p.len : Inspection!Units(p)[i] = p.off + i - 1
<1>1. /\ p.outbound \in BOOLEAN /\ p.parses \in BOOLEAN /\ p.off \in 0 .. StreamLen - 1
      /\ p.len \in 0 .. StreamLen /\ p.off + p.len <= StreamLen
  BY Zenon DEF Inspection!Segments, Inspection!Packet
<1>2. p.off \in Nat /\ p.len \in Nat /\ p.off < StreamLen
  BY <1>1, InspectConstants
<1>3. \A i \in 1 .. p.len : p.off + i - 1 \in 0 .. StreamLen - 1
  BY <1>1, <1>2, InspectConstants
<1>4. Inspection!Units(p) = [i \in 1 .. p.len |-> p.off + i - 1]
  BY Zenon DEF Inspection!Units
<1>5. Inspection!Units(p) \in Seq(0 .. StreamLen - 1) /\ Len(Inspection!Units(p)) = p.len
  <2>1. Inspection!Units(p) \in [1 .. p.len -> 0 .. StreamLen - 1]
    BY <1>3, <1>4, Zenon
  <2> QED BY <1>2, <2>1, FunctionIsSeq, Zenon
<1>6. \A i \in 1 .. p.len : Inspection!Units(p)[i] = p.off + i - 1
  BY <1>4, Zenon
<1> QED BY <1>1, <1>2, <1>5, <1>6, Zenon

(* Feed of a segment with bytes, in order: what it holds afterwards. *)
LEMMA FeedJoins ==
  ASSUME SeqsDistinct, helloAt \in HelloStarts, proto = "tcp", HoldsHello(asm), Going(asm),
         NEW p \in Inspection!Segments, p.len > 0, ~asm.on => p.off = helloAt,
         Inspection!SeqOf(p) = Inspection!Expected(p),
         NEW a, a = [on |-> TRUE, buf |-> asm.buf \o Inspection!Units(p),
                     next |-> (Inspection!Expected(p) + p.len) % SeqMod, segs |-> asm.segs + 1]
  PROVE  HoldsHello(a) /\ Len(a.buf) = Len(asm.buf) + p.len
<1>1. /\ p.off \in Nat /\ p.len \in Nat /\ p.off < StreamLen /\ p.off + p.len <= StreamLen
      /\ Inspection!Units(p) \in Seq(0 .. StreamLen - 1) /\ Len(Inspection!Units(p)) = p.len
      /\ \A i \in 1 .. p.len : Inspection!Units(p)[i] = p.off + i - 1
  BY SegmentType, Zenon
<1>2. /\ asm.on \in BOOLEAN /\ asm.buf \in Seq(0 .. StreamLen - 1) /\ Len(asm.buf) \in Nat
      /\ asm.segs \in 0 .. maxHelloSegments + 1
  BY DEF HoldsHello, Assembler
<1>3. helloAt \in Nat /\ helloAt + RecordLen <= StreamLen
  BY InspectConstants, Zenon
<1>4. /\ p.off = helloAt + Len(asm.buf) /\ Len(asm.buf) <= maxHelloBuffer /\ asm.segs <= maxHelloSegments
  <2>1. CASE asm.on
    <3>1. /\ asm.next = (ISN + (helloAt + Len(asm.buf))) % SeqMod /\ Len(asm.buf) < RecordLen
          /\ Len(asm.buf) <= maxHelloBuffer /\ asm.segs <= maxHelloSegments
      BY <2>1, Zenon DEF HoldsHello, Going
    <3>2. (ISN + p.off) % SeqMod = (ISN + (helloAt + Len(asm.buf))) % SeqMod
      BY <2>1, <3>1, Zenon DEF Inspection!SeqOf, Inspection!Expected
    <3>3. p.off = helloAt + Len(asm.buf)
      BY <1>1, <1>2, <1>3, <3>1, <3>2, NextUnit, Zenon
    <3> QED BY <3>1, <3>3, Zenon
  <2>2. CASE ~asm.on
    <3>1. asm.buf = << >> /\ asm.segs = 0
      BY <2>2 DEF HoldsHello, Inspection!Idle
    <3>2. Len(asm.buf) = 0
      BY <3>1
    <3> QED BY <2>2, <3>1, <3>2, <1>3, InspectConstants
  <2> QED BY <2>1, <2>2, Zenon
<1>o. PICK o \in Nat : o = p.off
  BY <1>1, Zenon
<1>n. PICK n \in Nat : n = p.len
  BY <1>1, Zenon
<1>l. PICK l \in Nat : l = Len(asm.buf)
  BY <1>2, Zenon
<1>h. PICK h \in Nat : h = helloAt
  BY <1>3, Zenon
<1>num. o = h + l /\ o + n <= StreamLen /\ n > 0 /\ l <= maxHelloBuffer
  BY <1>1, <1>4, <1>o, <1>n, <1>l, <1>h, Zenon
<1>5. /\ a.on = TRUE /\ a.buf = asm.buf \o Inspection!Units(p) /\ a.segs = asm.segs + 1
      /\ a.next = (Inspection!Expected(p) + p.len) % SeqMod
  BY Zenon
<1>6. /\ a.buf \in Seq(0 .. StreamLen - 1) /\ Len(a.buf) = Len(asm.buf) + p.len
      /\ \A i \in 1 .. Len(asm.buf) + p.len :
           a.buf[i] = IF i <= Len(asm.buf) THEN asm.buf[i] ELSE Inspection!Units(p)[i - Len(asm.buf)]
  <2>1. PICK u \in Seq(0 .. StreamLen - 1) : u = Inspection!Units(p)
    BY <1>1, Zenon
  <2>2. PICK b \in Seq(0 .. StreamLen - 1) : b = asm.buf
    BY <1>2, Zenon
  <2>3. Len(u) = p.len
    BY <1>1, <2>1, Zenon
  <2>4. /\ b \o u \in Seq(0 .. StreamLen - 1) /\ Len(b \o u) = Len(b) + Len(u)
        /\ \A i \in 1 .. Len(b) + Len(u) : (b \o u)[i] = IF i <= Len(b) THEN b[i] ELSE u[i - Len(b)]
    OBVIOUS
  <2> QED BY <1>5, <2>1, <2>2, <2>3, <2>4, Zenon
<1>7. \A i \in 1 .. Len(a.buf) : a.buf[i] = helloAt + i - 1
  <2> SUFFICES ASSUME NEW i \in 1 .. Len(asm.buf) + p.len PROVE a.buf[i] = helloAt + i - 1
    BY <1>6, Zenon
  <2>1. CASE i <= Len(asm.buf)
    <3>1. asm.on
      <4>1. SUFFICES ASSUME ~asm.on PROVE FALSE
        BY Zenon
      <4>2. asm.buf = << >>
        BY <4>1 DEF HoldsHello, Inspection!Idle
      <4> QED BY <2>1, <4>2
    <3>2. i \in 1 .. Len(asm.buf)
      BY <1>2, <2>1
    <3>3. asm.buf[i] = helloAt + i - 1
      BY <3>1, <3>2, Zenon DEF HoldsHello
    <3> QED BY <1>6, <2>1, <3>3, Zenon
  <2>2. CASE ~(i <= Len(asm.buf))
    <3>1. PICK j \in 1 .. p.len : j = i - Len(asm.buf)
      <4>1. i \in 1 .. l + n /\ ~(i <= l)
        BY <1>l, <1>n, <2>2, Zenon
      <4>2. i - l \in 1 .. n
        BY <4>1
      <4> QED BY <1>l, <1>n, <4>2, Zenon
    <3>2. a.buf[i] = p.off + j - 1
      BY <1>1, <1>6, <2>2, <3>1, Zenon
    <3>3. a.buf[i] = o + j - 1 /\ j = i - l
      BY <1>o, <1>l, <3>1, <3>2, Zenon
    <3>4. i \in Int
      OBVIOUS
    <3>5. \A k \in Int : k = i - l => o + k - 1 = h + i - 1
      BY <1>num, <3>4
    <3>6. i - l \in Int
      BY <3>4
    <3>7. a.buf[i] = h + i - 1
      BY <3>3, <3>5, <3>6, Zenon
    <3> QED BY <1>h, <3>7, Zenon
  <2> QED BY <2>1, <2>2, Zenon
<1>8. a.next = (ISN + (helloAt + Len(a.buf))) % SeqMod /\ a.next \in 0 .. SeqMod - 1
  <2>1. Inspection!Expected(p) = (ISN + p.off) % SeqMod
    BY Zenon DEF Inspection!SeqOf
  <2>2. PICK x \in Nat : x = ISN + p.off
    BY <1>1, InspectConstants
  <2>3. a.next = ((x % SeqMod) + p.len) % SeqMod
    BY <1>5, <2>1, <2>2, Zenon
  <2>4. a.next = (x + p.len) % SeqMod
    BY <1>1, <2>3, InspectConstants, ModAdd, Zenon
  <2>5. x + p.len = ISN + (helloAt + Len(a.buf)) /\ x + p.len \in Int
    <3>1. Len(a.buf) = Len(asm.buf) + p.len
      BY <1>6, Zenon
    <3>2. (ISN + o) + n = ISN + (h + (l + n)) /\ (ISN + o) + n \in Int
      BY <1>num, InspectConstants
    <3> QED BY <1>o, <1>n, <1>l, <1>h, <2>2, <3>1, <3>2, Zenon
  <2>6. (x + p.len) % SeqMod \in 0 .. SeqMod - 1
    BY <2>5, InspectConstants, ModDiv, Zenon
  <2> QED BY <2>4, <2>5, <2>6, Zenon
<1>9. /\ Len(a.buf) >= 1 /\ helloAt + Len(a.buf) <= StreamLen /\ Len(a.buf) <= maxHelloBuffer + StreamLen
      /\ a.segs \in 0 .. maxHelloSegments + 1
  <2>1. Len(a.buf) = Len(asm.buf) + p.len
    BY <1>6, Zenon
  <2>2. asm.segs \in 0 .. maxHelloSegments + 1 /\ asm.segs <= maxHelloSegments /\ a.segs = asm.segs + 1
    BY <1>2, <1>4, <1>5, Zenon
  <2>3. a.segs \in 0 .. maxHelloSegments + 1
    BY <2>2, InspectConstants
  <2>4. l + n >= 1 /\ h + (l + n) <= StreamLen /\ l + n <= maxHelloBuffer + StreamLen
    BY <1>num, InspectConstants
  <2> QED BY <1>n, <1>l, <1>h, <2>1, <2>3, <2>4, Zenon
<1>10. a \in Assembler
  BY <1>5, <1>6, <1>8, <1>9, Zenon DEF Assembler
<1> QED BY <1>5, <1>6, <1>7, <1>8, <1>9, <1>10, Zenon DEF HoldsHello

(* Feed of any segment inspect passes to it. *)
LEMMA FeedKeeps ==
  ASSUME SeqsDistinct, helloAt \in HelloStarts, proto = "tcp", HoldsHello(asm), Going(asm),
         NEW p \in Inspection!Segments, asm.on \/ Inspection!Candidate(p),
         NEW f, f = Inspection!Feed(p)
  PROVE  /\ HoldsHello(f.asm) /\ f.ready \in BOOLEAN /\ f.done \in BOOLEAN
         /\ ~f.done => Going(f.asm)
         /\ f.ready => f.done /\ f.asm.on /\ Len(f.asm.buf) >= RecordLen
<1> DEFINE buf == asm.buf \o Inspection!Units(p)
           full == Len(buf) > maxHelloBuffer \/ asm.segs + 1 > maxHelloSegments
           joined == [on |-> TRUE, buf |-> buf, next |-> (Inspection!Expected(p) + p.len) % SeqMod,
                      segs |-> asm.segs + 1]
<1>0. p.len \in Nat /\ (~asm.on => p.len > 0 /\ p.off = helloAt)
  BY SegmentType, Zenon DEF Inspection!Candidate
<1>1. /\ p.len = 0 => f = [asm |-> [asm EXCEPT !.on = TRUE], ready |-> FALSE, done |-> FALSE]
      /\ p.len > 0 /\ Inspection!SeqOf(p) # Inspection!Expected(p) =>
           f = [asm |-> [asm EXCEPT !.on = TRUE], ready |-> FALSE, done |-> TRUE]
      /\ p.len > 0 /\ Inspection!SeqOf(p) = Inspection!Expected(p) =>
           f = [asm |-> joined, ready |-> ~full /\ Len(buf) >= RecordLen,
                done |-> full \/ Len(buf) >= RecordLen]
  <2>1. p.len = 0 => ~(p.len > 0)
    OBVIOUS
  <2> QED BY <2>1, Zenon DEF Inspection!Feed
<1>2. asm.on => [asm EXCEPT !.on = TRUE] = asm
  BY DEF HoldsHello, Assembler
<1> HIDE DEF joined, full, buf
<1>3. CASE p.len = 0
  <2>1. asm.on
    BY <1>0, <1>3
  <2>2. f = [asm |-> asm, ready |-> FALSE, done |-> FALSE]
    BY <1>1, <1>2, <1>3, <2>1, Zenon
  <2>3. f.asm = asm /\ f.ready = FALSE /\ f.done = FALSE
    BY <2>2
  <2> QED BY <2>3, Zenon
<1>4. CASE p.len > 0 /\ Inspection!SeqOf(p) # Inspection!Expected(p)
  <2>1. asm.on
    BY <1>4, Zenon DEF Inspection!Expected
  <2>2. f = [asm |-> asm, ready |-> FALSE, done |-> TRUE]
    BY <1>1, <1>2, <1>4, <2>1, Zenon
  <2>3. f.asm = asm /\ f.ready = FALSE /\ f.done = TRUE
    BY <2>2
  <2> QED BY <2>3, Zenon
<1>5. CASE p.len > 0 /\ Inspection!SeqOf(p) = Inspection!Expected(p)
  <2>1. /\ f.asm = joined /\ f.ready = (~full /\ Len(buf) >= RecordLen)
        /\ f.done = (full \/ Len(buf) >= RecordLen)
    BY <1>1, <1>5
  <2>2. HoldsHello(joined) /\ joined.on = TRUE /\ joined.buf = buf /\ joined.segs = asm.segs + 1
    BY <1>0, <1>5, FeedJoins, Zenon DEF joined, buf
  <2>3. full \in BOOLEAN
    BY Zenon DEF full
  <2>4. f.ready \in BOOLEAN /\ f.done \in BOOLEAN /\ (f.ready => f.done)
    BY <2>1, Zenon
  <2>5. ~f.done => Going(joined)
    <3> SUFFICES ASSUME ~full, ~(Len(buf) >= RecordLen) PROVE Going(joined)
      BY <2>1, Zenon
    <3>1. Len(buf) \in Nat /\ asm.segs + 1 \in Nat
      <4>1. joined.buf \in Seq(0 .. StreamLen - 1) /\ asm.segs \in 0 .. maxHelloSegments + 1
        BY <2>2, Zenon DEF HoldsHello, Assembler
      <4>2. buf \in Seq(0 .. StreamLen - 1)
        BY <2>2, <4>1, Zenon
      <4>3. Len(buf) \in Nat
        BY <4>2
      <4>4. asm.segs + 1 \in Nat
        BY <4>1, InspectConstants
      <4> QED BY <4>3, <4>4, Zenon
    <3>2. Len(buf) < RecordLen /\ Len(buf) <= maxHelloBuffer /\ asm.segs + 1 <= maxHelloSegments
      BY <3>1, InspectConstants DEF full
    <3> QED BY <2>2, <3>2, Zenon DEF Going
  <2>6. f.ready => f.asm.on /\ Len(f.asm.buf) >= RecordLen
    BY <2>1, <2>2, Zenon
  <2> QED BY <2>1, <2>2, <2>4, <2>5, <2>6, Zenon
<1>6. p.len = 0 \/ p.len > 0
  BY <1>0
<1> QED BY <1>3, <1>4, <1>5, <1>6, Zenon

(* Feed of the next segment of a stream captured in order. *)
LEMMA FeedInOrder ==
  ASSUME SeqsDistinct, helloAt \in HelloStarts, helloAt = 0, proto = "tcp", HoldsHello(asm), Going(asm),
         NEW p \in Inspection!Segments, p.len > 0, p.off = Len(asm.buf),
         asm.segs < maxHelloSegments, p.off + p.len <= maxHelloBuffer,
         NEW f, f = Inspection!Feed(p)
  PROVE  /\ f.asm.on /\ Len(f.asm.buf) = p.off + p.len
         /\ f.done => f.ready
         /\ ~f.ready => Len(f.asm.buf) < RecordLen
<1> DEFINE buf == asm.buf \o Inspection!Units(p)
           full == Len(buf) > maxHelloBuffer \/ asm.segs + 1 > maxHelloSegments
           joined == [on |-> TRUE, buf |-> buf, next |-> (Inspection!Expected(p) + p.len) % SeqMod,
                      segs |-> asm.segs + 1]
<1>0. /\ p.len \in Nat /\ p.off \in Nat /\ p.len # 0 /\ asm.segs \in 0 .. maxHelloSegments + 1
      /\ 0 \in Nat /\ asm.buf \in Seq(0 .. StreamLen - 1)
  <2>1. p.len \in Nat /\ p.off \in Nat
    BY SegmentType, Zenon
  <2>2. p.len # 0
    BY <2>1
  <2> QED BY <2>1, <2>2, Zenon DEF HoldsHello, Assembler
<1>1. ~asm.on => p.off = helloAt
  <2> SUFFICES ASSUME ~asm.on PROVE p.off = helloAt
    OBVIOUS
  <2>1. asm.buf = << >>
    BY DEF HoldsHello, Inspection!Idle
  <2>2. Len(<< >>) = 0
    OBVIOUS
  <2> QED BY <2>1, <2>2, Zenon
<1>2. Inspection!SeqOf(p) = Inspection!Expected(p)
  <2>1. CASE asm.on
    <3>1. asm.next = (ISN + (helloAt + Len(asm.buf))) % SeqMod
      BY <2>1, Zenon DEF HoldsHello
    <3>2. helloAt + Len(asm.buf) = p.off
      <4>1. PICK o \in Nat : o = p.off
        BY <1>0, Zenon
      <4>2. 0 + o = o
        OBVIOUS
      <4> QED BY <4>1, <4>2, Zenon
    <3> QED BY <2>1, <3>1, <3>2, Zenon DEF Inspection!SeqOf, Inspection!Expected
  <2>2. CASE ~asm.on
    BY <2>2, Zenon DEF Inspection!Expected
  <2> QED BY <2>1, <2>2, Zenon
<1>3. f = [asm |-> joined, ready |-> ~full /\ Len(buf) >= RecordLen,
           done |-> full \/ Len(buf) >= RecordLen]
  BY <1>0, <1>2, Zenon DEF Inspection!Feed
<1> HIDE DEF full, joined, buf
<1>4. joined.on = TRUE /\ joined.buf = buf /\ Len(joined.buf) = Len(asm.buf) + p.len
  BY <1>1, <1>2, FeedJoins, Zenon DEF joined, buf
<1>5. Len(buf) = p.off + p.len
  BY <1>4, Zenon
<1>6. ~full
  <2>1. ~(asm.segs + 1 > maxHelloSegments)
    BY <1>0, InspectConstants
  <2>2. PICK k \in Nat : k = p.off + p.len
    BY <1>0
  <2>3. ~(k > maxHelloBuffer)
    BY <2>2, InspectConstants
  <2> QED BY <1>5, <2>1, <2>2, <2>3, Zenon DEF full
<1>7. f.asm = joined /\ f.ready = (Len(buf) >= RecordLen) /\ f.done = (Len(buf) >= RecordLen)
  BY <1>3, <1>6
<1>8. ~(Len(buf) >= RecordLen) => Len(buf) < RecordLen
  <2>1. PICK k \in Nat : k = Len(buf)
    BY <1>0, <1>5
  <2>2. ~(k >= RecordLen) => k < RecordLen
    BY InspectConstants
  <2> QED BY <2>1, <2>2, Zenon
<1> QED BY <1>4, <1>5, <1>7, <1>8, Zenon

(* What Examine does to a flow whose hostname is still looked for. *)
LEMMA ExamineShape ==
  ASSUME SeqsDistinct, InspectInv, Inspection!NeedsHostnameInspection,
         NEW p \in Inspection!Segments, Inspection!Examine(p)
  PROVE  /\ HoldsHello(asm') /\ attempted' \in BOOLEAN /\ hostname' \in BOOLEAN
         /\ puts' = IF hostname' THEN 1 ELSE 0
         /\ ~hostname' /\ ~attempted' => Going(asm')
         /\ hostname' /\ proto = "tcp" => asm'.on /\ Len(asm'.buf) >= RecordLen
<1> DEFINE inProgress == proto = "tcp" /\ asm.on
           looks == IF inProgress THEN p.outbound ELSE Inspection!Candidate(p)
<1>1. /\ ~hostname /\ ~attempted /\ hostname = FALSE /\ attempted = FALSE /\ puts = 0
      /\ HoldsHello(asm) /\ Going(asm) /\ helloAt \in HelloStarts /\ asm.on \in BOOLEAN
      /\ proto \in FlowProtos /\ sni \in BOOLEAN
  <2>1. ~hostname /\ ~attempted /\ hostname = FALSE /\ attempted = FALSE
    BY Zenon DEF InspectInv, Inspection!NeedsHostnameInspection, Inspection!TypeOK
  <2> QED BY <2>1, Zenon DEF InspectInv, Inspection!TypeOK
<1>2. p.outbound \in BOOLEAN /\ p.parses \in BOOLEAN
  BY SegmentType, Zenon
<1>3. 0 + 1 = 1
  OBVIOUS
<1>4. ASSUME NEW found \in BOOLEAN, Inspection!Found(found)
      PROVE  hostname' = found /\ puts' = IF hostname' THEN 1 ELSE 0
  BY <1>1, <1>3, <1>4, Zenon DEF Inspection!Found
<1>5. \/ /\ ~p.parses \/ proto = "icmp"
         /\ attempted' = (attempted \/ inProgress) /\ Inspection!Found(FALSE) /\ asm' = asm
      \/ /\ proto = "udp" /\ attempted' = TRUE /\ Inspection!Found(looks /\ sni) /\ asm' = asm
      \/ /\ proto = "tcp" /\ looks /\ asm' = Inspection!Feed(p).asm
         /\ attempted' = (attempted \/ Inspection!Feed(p).done)
         /\ Inspection!Found(Inspection!Feed(p).ready /\ sni)
      \/ /\ attempted' = (attempted \/ ~inProgress) /\ Inspection!Found(FALSE) /\ asm' = asm
  BY Zenon DEF Inspection!Examine
<1>6. CASE asm' = asm /\ attempted' \in BOOLEAN /\ Inspection!Found(FALSE)
  <2>1. hostname' = FALSE /\ puts' = 0
    BY <1>4, <1>6, Zenon
  <2> QED BY <1>1, <1>6, <2>1, Zenon
<1>7. CASE proto = "udp" /\ attempted' = TRUE /\ Inspection!Found(looks /\ sni) /\ asm' = asm
  <2>1. (looks /\ sni) \in BOOLEAN
    BY Zenon
  <2>2. hostname' = (looks /\ sni) /\ puts' = IF hostname' THEN 1 ELSE 0
    BY <1>4, <1>7, <2>1, Zenon
  <2>3. proto # "tcp"
    BY <1>7, Zenon
  <2>4. hostname' \in BOOLEAN
    BY <2>1, <2>2, Zenon
  <2> QED BY <1>1, <1>7, <2>2, <2>3, <2>4, Zenon
<1>8. CASE /\ proto = "tcp" /\ looks /\ asm' = Inspection!Feed(p).asm
           /\ attempted' = (attempted \/ Inspection!Feed(p).done)
           /\ Inspection!Found(Inspection!Feed(p).ready /\ sni)
  <2>1. PICK f : f = Inspection!Feed(p)
    BY Zenon
  <2>2. asm.on \/ Inspection!Candidate(p)
    BY <1>8, Zenon
  <2>3. /\ HoldsHello(f.asm) /\ f.ready \in BOOLEAN /\ f.done \in BOOLEAN
        /\ ~f.done => Going(f.asm)
        /\ f.ready => f.done /\ f.asm.on /\ Len(f.asm.buf) >= RecordLen
    BY <1>1, <1>8, <2>1, <2>2, FeedKeeps, Zenon
  <2>4. asm' = f.asm /\ attempted' = f.done /\ Inspection!Found(f.ready /\ sni)
    BY <1>1, <1>8, <2>1, <2>3, Zenon
  <2>5. (f.ready /\ sni) \in BOOLEAN
    BY Zenon
  <2>6. hostname' = (f.ready /\ sni) /\ puts' = IF hostname' THEN 1 ELSE 0
    BY <1>4, <2>4, <2>5, Zenon
  <2>7. hostname' \in BOOLEAN /\ (hostname' => f.ready)
    BY <2>6, Zenon
  <2> QED BY <2>3, <2>4, <2>6, <2>7, Zenon
<1>9. (attempted \/ inProgress) \in BOOLEAN /\ (attempted \/ ~inProgress) \in BOOLEAN
  BY Zenon
<1> QED BY <1>5, <1>6, <1>7, <1>8, <1>9, Zenon

(* A stream captured in order stays fed (Follow, inspect). *)
LEMMA OpeningKept ==
  ASSUME SeqsDistinct, InspectInv, NEW p \in Inspection!Segments, Inspection!inspect(p)
  PROVE  Opening'
<1> SUFFICES ASSUME proto' = "tcp", helloAt' = 0, sni', inOrder' >= 0, ~hostname'
             PROVE  /\ ~attempted' /\ Len(asm'.buf) = inOrder' /\ inOrder' < RecordLen
                    /\ asm'.on <=> inOrder' > 0
  BY Zenon DEF Opening
<1>1. proto = "tcp" /\ helloAt = 0 /\ sni
  BY Zenon DEF Inspection!inspect
<1>2. p.outbound \in BOOLEAN /\ p.parses \in BOOLEAN /\ p.off \in Nat /\ p.len \in Nat
  BY SegmentType, Zenon
<1>3. inOrder \in -1 .. StreamLen /\ hostname \in BOOLEAN /\ attempted \in BOOLEAN /\ asm.on \in BOOLEAN
  BY Zenon DEF InspectInv, Inspection!TypeOK
<1>4. \/ /\ (p.len = 0 /\ (p.parses \/ ~asm.on)) \/ (p.parses /\ ~p.outbound /\ inOrder > 0)
         /\ inOrder' = inOrder
      \/ /\ p.outbound /\ p.parses /\ p.off = inOrder /\ asm.segs < maxHelloSegments
         /\ (asm.on \/ ~p.small) /\ p.off + p.len <= maxHelloBuffer /\ inOrder' = p.off + p.len /\ p.len # 0
      \/ inOrder' = -1
  BY Zenon DEF Inspection!inspect, Inspection!Follow
<1>5. inOrder' # -1
  OBVIOUS
<1>6. inOrder >= 0
  <2>1. inOrder' = inOrder \/ p.off = inOrder
    BY <1>4, <1>5, Zenon
  <2>2. p.off >= 0
    BY <1>2
  <2> QED BY <2>1, <2>2, Zenon
<1>7. ~hostname
  <2>1. CASE Inspection!Examine(p)
    BY <2>1, Zenon DEF Inspection!Examine, Inspection!Found
  <2>2. CASE hostname' = hostname
    BY <2>2, Zenon
  <2> QED BY <2>1, <2>2, Zenon DEF Inspection!inspect
<1>8. ~attempted /\ Len(asm.buf) = inOrder /\ inOrder < RecordLen /\ (asm.on <=> inOrder > 0)
  BY <1>1, <1>6, <1>7, Zenon DEF InspectInv, Opening
<1>9. Inspection!NeedsHostnameInspection /\ HoldsHello(asm) /\ Going(asm) /\ helloAt \in HelloStarts
  BY <1>7, <1>8, Zenon DEF Inspection!NeedsHostnameInspection, InspectInv, Inspection!TypeOK
<1>10. CASE /\ (p.len = 0 /\ (p.parses \/ ~asm.on)) \/ (p.parses /\ ~p.outbound /\ inOrder > 0)
            /\ inOrder' = inOrder
  <2>1. asm' = asm /\ ~attempted'
    <3>1. CASE Inspection!Small(p) /\ ~asm.on
      BY <1>8, <3>1, Zenon DEF Inspection!inspect
    <3>2. CASE ~(Inspection!Small(p) /\ ~asm.on)
      <4>1. asm.on /\ p.parses
        <5>1. p.len = 0 => p.small
          BY Zenon DEF Inspection!Segments
        <5> QED BY <1>1, <1>8, <1>10, <3>2, <5>1, Zenon DEF Inspection!Small
      <4>2. Inspection!Examine(p)
        BY <1>9, <3>2, Zenon DEF Inspection!inspect
      <4>3. CASE p.outbound
        <5>1. p.len = 0
          BY <1>10, <4>3, Zenon
        <5>2. Inspection!Feed(p) = [asm |-> [asm EXCEPT !.on = TRUE], ready |-> FALSE, done |-> FALSE]
          <6>1. ~(0 > 0)
            OBVIOUS
          <6> QED BY <5>1, <6>1, Zenon DEF Inspection!Feed
        <5>3. [asm EXCEPT !.on = TRUE] = asm
          BY <1>9, <4>1 DEF HoldsHello, Assembler
        <5>4. Inspection!Feed(p).asm = asm /\ Inspection!Feed(p).done = FALSE
          BY <5>2, <5>3
        <5>5. asm' = Inspection!Feed(p).asm /\ attempted' = (attempted \/ Inspection!Feed(p).done)
          BY <1>1, <1>10, <4>1, <4>2, <4>3, Zenon DEF Inspection!Examine
        <5> QED BY <1>8, <5>4, <5>5, Zenon
      <4>4. CASE ~p.outbound
        <5>1. asm' = asm /\ attempted' = (attempted \/ ~(proto = "tcp" /\ asm.on))
          BY <1>1, <1>10, <4>1, <4>2, <4>4, Zenon DEF Inspection!Examine
        <5> QED BY <1>1, <1>8, <4>1, <5>1, Zenon
      <4> QED BY <1>2, <4>3, <4>4, Zenon
    <3> QED BY <3>1, <3>2, Zenon
  <2> QED BY <1>8, <1>10, <2>1, Zenon
<1>11. CASE /\ p.outbound /\ p.parses /\ p.off = inOrder /\ asm.segs < maxHelloSegments
            /\ (asm.on \/ ~p.small) /\ p.off + p.len <= maxHelloBuffer /\ inOrder' = p.off + p.len /\ p.len # 0
  <2>1. PICK f : f = Inspection!Feed(p)
    BY Zenon
  <2>2. p.len > 0
    BY <1>2, <1>11
  <2>3. /\ f.asm.on /\ Len(f.asm.buf) = p.off + p.len
        /\ f.done => f.ready
        /\ ~f.ready => Len(f.asm.buf) < RecordLen
    BY <1>1, <1>8, <1>9, <1>11, <2>1, <2>2, FeedInOrder, Zenon
  <2>4. Inspection!Examine(p)
    BY <1>9, <1>11, Zenon DEF Inspection!inspect, Inspection!Small
  <2>5. asm.on \/ Inspection!Candidate(p)
    <3>1. ~asm.on => ~(inOrder > 0)
      BY <1>8, Zenon
    <3>2. ~asm.on => inOrder = 0
      BY <1>3, <1>6, <3>1
    <3> QED BY <1>1, <1>11, <2>2, <3>2, Zenon DEF Inspection!Candidate
  <2>6. /\ asm' = f.asm /\ attempted' = (attempted \/ f.done)
        /\ Inspection!Found(f.ready /\ sni)
    BY <1>1, <1>11, <2>1, <2>4, <2>5, Zenon DEF Inspection!Examine
  <2>7. ~f.ready
    BY <1>1, <2>6, Zenon DEF Inspection!Found
  <2>8. inOrder' > 0
    BY <1>2, <1>11, <2>2
  <2> QED BY <1>8, <1>11, <2>3, <2>6, <2>7, <2>8, Zenon
<1> QED BY <1>4, <1>5, <1>10, <1>11, Zenon

LEMMA InspectStep ==
  ASSUME SeqsDistinct, InspectInv, NEW p \in Inspection!Segments, Inspection!inspect(p)
  PROVE  InspectInv'
<1>1. /\ proto' = proto /\ helloAt' = helloAt /\ sni' = sni
      /\ proto \in FlowProtos /\ helloAt \in HelloStarts /\ sni \in BOOLEAN
      /\ extracted \in 0 .. MaxExtracted /\ extracted < MaxExtracted
      /\ inOrder \in -1 .. StreamLen /\ extracted' \in {extracted, extracted + 1}
  BY Zenon DEF Inspection!inspect, InspectInv, Inspection!TypeOK
<1>2. /\ HoldsHello(asm') /\ attempted' \in BOOLEAN /\ hostname' \in BOOLEAN
      /\ puts' = IF hostname' THEN 1 ELSE 0
      /\ ~hostname' /\ ~attempted' => Going(asm')
      /\ hostname' /\ proto = "tcp" => asm'.on /\ Len(asm'.buf) >= RecordLen
  <2>1. CASE UNCHANGED <<hostname, attempted, asm, puts>>
    BY <2>1, Zenon DEF InspectInv, Inspection!TypeOK
  <2>2. CASE Inspection!NeedsHostnameInspection /\ Inspection!Examine(p)
    BY <2>2, ExamineShape, Zenon
  <2> QED BY <2>1, <2>2, Zenon DEF Inspection!inspect
<1>3. HoldsHello(asm)'
  BY <1>1, <1>2, Zenon DEF HoldsHello
<1>4. Going(asm)' <=> Going(asm')
  BY Zenon DEF Going
<1>5. inOrder' \in -1 .. StreamLen
  <2>1. inOrder' \in {inOrder, p.off + p.len, -1}
    BY Zenon DEF Inspection!inspect, Inspection!Follow
  <2>2. p.off + p.len \in -1 .. StreamLen
    BY SegmentType, InspectConstants
  <2>3. -1 \in -1 .. StreamLen
    BY InspectConstants
  <2> QED BY <1>1, <2>1, <2>2, <2>3, Zenon
<1>6. extracted' \in 0 .. MaxExtracted
  BY <1>1, InspectConstants
<1>7. puts' \in 0 .. 1
  BY <1>2
<1>8. /\ asm'.buf \in Seq(0 .. StreamLen - 1) /\ Len(asm'.buf) <= maxHelloBuffer + StreamLen
      /\ asm'.on \in BOOLEAN /\ asm'.next \in 0 .. SeqMod - 1 /\ asm'.segs \in 0 .. maxHelloSegments + 1
  <2>1. /\ asm'.buf \in Seq(0 .. StreamLen - 1) /\ asm'.on \in BOOLEAN /\ asm'.next \in 0 .. SeqMod - 1
        /\ asm'.segs \in 0 .. maxHelloSegments + 1
    BY <1>2, Zenon DEF HoldsHello, Assembler
  <2>2. CASE asm'.on
    BY <1>2, <2>1, <2>2, Zenon DEF HoldsHello
  <2>3. CASE ~asm'.on
    <3>1. asm'.buf = << >>
      BY <1>2, <2>3 DEF HoldsHello, Inspection!Idle
    <3>2. Len(<< >>) <= maxHelloBuffer + StreamLen
      BY InspectConstants
    <3> QED BY <2>1, <3>1, <3>2, Zenon
  <2> QED BY <2>2, <2>3, Zenon
<1>9. Inspection!TypeOK'
  BY <1>1, <1>2, <1>5, <1>6, <1>7, <1>8, Zenon DEF Inspection!TypeOK
<1> QED BY <1>1, <1>2, <1>3, <1>4, <1>9, OpeningKept, Zenon DEF InspectInv

(* The invariant of inspect and HelloAssembler. *)
THEOREM InspectInvariance == SeqsDistinct /\ Inspection!Spec => []InspectInv
<1> SUFFICES ASSUME SeqsDistinct PROVE Inspection!Spec => []InspectInv
  OBVIOUS
<1>1. Inspection!Init => InspectInv
  <2> SUFFICES ASSUME Inspection!Init PROVE InspectInv
    OBVIOUS
  <2>1. /\ asm = Inspection!Idle /\ hostname = FALSE /\ attempted = FALSE /\ puts = 0 /\ extracted = 0
        /\ inOrder = 0 /\ proto \in FlowProtos /\ helloAt \in HelloStarts /\ sni \in BOOLEAN
    BY Zenon DEF Inspection!Init
  <2>2. asm.on = FALSE /\ asm.buf = << >> /\ asm.next = 0 /\ asm.segs = 0 /\ Len(asm.buf) = 0
    BY <2>1 DEF Inspection!Idle
  <2>3. /\ 0 \in 0 .. SeqMod - 1 /\ 0 \in 0 .. maxHelloSegments + 1 /\ 0 \in 0 .. 1
        /\ 0 \in 0 .. MaxExtracted /\ 0 \in -1 .. StreamLen /\ 0 < RecordLen /\ ~(0 > 0)
        /\ 0 <= maxHelloBuffer + StreamLen
    BY InspectConstants
  <2>4. << >> \in Seq(0 .. StreamLen - 1)
    OBVIOUS
  <2>5. Inspection!TypeOK
    BY <2>1, <2>2, <2>3, <2>4, Zenon DEF Inspection!TypeOK
  <2>6. asm \in Assembler
    BY <2>1, <2>2, <2>3, <2>4 DEF Assembler, Inspection!Idle
  <2>7. HoldsHello(asm) /\ Going(asm) /\ Opening
    BY <2>1, <2>2, <2>3, <2>6, Zenon DEF HoldsHello, Going, Opening
  <2> QED BY <2>1, <2>5, <2>7, Zenon DEF InspectInv
<1>2. InspectInv /\ [Inspection!Next]_(Inspection!vars) => InspectInv'
  <2> SUFFICES ASSUME InspectInv, [Inspection!Next]_(Inspection!vars) PROVE InspectInv'
    OBVIOUS
  <2>1. CASE UNCHANGED Inspection!vars
    <3>1. /\ proto' = proto /\ helloAt' = helloAt /\ sni' = sni /\ hostname' = hostname
          /\ attempted' = attempted /\ asm' = asm /\ puts' = puts /\ extracted' = extracted
          /\ inOrder' = inOrder
      BY <2>1, Zenon DEF Inspection!vars
    <3>2. Inspection!TypeOK'
      BY <3>1, Zenon DEF InspectInv, Inspection!TypeOK
    <3>3. HoldsHello(asm)' /\ (Going(asm)' <=> Going(asm)) /\ Opening'
      BY <3>1, Zenon DEF InspectInv, HoldsHello, Going, Opening
    <3> QED BY <3>1, <3>2, <3>3, Zenon DEF InspectInv
  <2>2. CASE Inspection!Next
    BY <2>2, InspectStep, Zenon DEF Inspection!Next
  <2> QED BY <2>1, <2>2, Zenon
<1> QED BY <1>1, <1>2, PTL DEF Inspection!Spec

(* Whatever segments are lost, repeated or reordered and wherever the          *)
(* sequence numbers wrap, a hostname is read from the ClientHello's own bytes, *)
(* and a ClientHello that opens the flow, in a datagram above the size inspect *)
(* passes over, and is captured in order within the assembler's limits is      *)
(* found (inspect, HelloAssembler.Feed).                                       *)
THEOREM HostnamesAreTheHellos == SeqsDistinct /\ Inspection!Spec => []HelloIsExact
<1>1. InspectInv => HelloIsExact
  <2> SUFFICES ASSUME InspectInv PROVE HelloIsExact
    OBVIOUS
  <2>1. Inspection!TypeOK
    BY Zenon DEF InspectInv
  <2>2. Inspection!HelloIsContiguous
    <3> SUFFICES ASSUME hostname, proto = "tcp", NEW i \in 1 .. RecordLen PROVE asm.buf[i] = helloAt + i - 1
      BY Zenon DEF Inspection!HelloIsContiguous
    <3>1. asm.on /\ Len(asm.buf) >= RecordLen /\ HoldsHello(asm) /\ asm.buf \in Seq(0 .. StreamLen - 1)
      BY Zenon DEF InspectInv, Inspection!TypeOK
    <3>2. Len(asm.buf) \in Nat
      BY <3>1
    <3>3. i \in 1 .. Len(asm.buf)
      BY <3>1, <3>2, InspectConstants
    <3> QED BY <3>1, <3>3, Zenon DEF HoldsHello
  <2>3. Inspection!OpeningHelloIsFound
    <3> SUFFICES ASSUME proto = "tcp", helloAt = 0, sni, inOrder >= RecordLen, ~hostname PROVE FALSE
      BY Zenon DEF Inspection!OpeningHelloIsFound
    <3>1. inOrder \in -1 .. StreamLen
      BY <2>1, Zenon DEF Inspection!TypeOK
    <3>2. inOrder >= 0 /\ ~(inOrder < RecordLen)
      BY <3>1, InspectConstants
    <3> QED BY <3>2, Zenon DEF InspectInv, Opening
  <2> QED BY <2>1, <2>2, <2>3, Zenon DEF HelloIsExact
<1> QED BY <1>1, InspectInvariance, PTL
=============================================================================
