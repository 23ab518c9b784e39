---------------------------- MODULE MetricsState ----------------------------
(***************************************************************************)
(* trafficmonReceiver.collect and metricsState: what each collection tick  *)
(* counts, folds into the overflow series and exports.  Connections are    *)
(* numbered in the order aggregate.Snapshot lists them.  Bytes are counted *)
(* in one direction, the other being counted the same way.  Packets        *)
(* dropped are exported as sampled, and left out.                          *)
(***************************************************************************)
EXTENDS Integers, FiniteSetsExt, SequencesExt

CONSTANTS
  Flows,              \* connections of one process on one interface
  Keys,               \* remote endpoints, and DNS questions
  PeerOf,             \* the remote endpoint of each connection
  MaxPeerCardinality,
  MaxBytes, MaxEvents, MaxCloses \* bounds: bytes, events and closes in a behaviour

ASSUME MetricsAssumption ==
  /\ Flows \subseteq Nat /\ PeerOf \in [Flows -> Keys]
  /\ MaxPeerCardinality \in Nat \ {0} /\ {MaxBytes, MaxEvents, MaxCloses} \subseteq Nat

Kinds == {"syn", "rst", "dns", "dnsError"}
Overflow == "overflow"      \* metadata.AttrPeerOverflow
Series == Keys \cup {Overflow}

VARIABLES
  open, total,      \* Snapshot.Connections and their BytesInTotal
  events,           \* events of each kind queued since the last tick
  counts,           \* dnsCounts, synCounts, rstCounts and the overflow counts
  overflowBytesIn, lastIO,
  batch,            \* the last metrics built: io points, series touched per kind
  exported,         \* the last value of each event series the consumer accepted
  carried, drained, closes, \* history: bytes, events and closes so far
  missed,           \* history: series whose last points the consumer refused
  rejoined, ever    \* history: connections that came back to the overflow, were in it

vars == <<open, total, events, counts, overflowBytesIn, lastIO, batch, exported,
          carried, drained, closes, missed, rejoined, ever>>

NoPoints == [io |-> {}, touched |-> [k \in Kinds |-> {}]]

TypeOK ==
  /\ open \subseteq Flows /\ total \in [Flows -> 0 .. MaxBytes]
  /\ \A k \in Kinds : events[k] \in Seq(Keys) /\ Len(events[k]) <= MaxEvents
  /\ counts \in [Kinds -> [Series -> 0 .. MaxEvents]]
  /\ overflowBytesIn \in 0 .. (MaxCloses + 1) * MaxBytes /\ DOMAIN lastIO \subseteq Flows
  /\ batch.io \subseteq Keys \X (0 .. MaxBytes)
  /\ batch.touched \in [Kinds -> SUBSET Series]
  /\ exported \in [Kinds -> [Series -> 0 .. MaxEvents]]
  /\ carried \in 0 .. MaxBytes /\ drained \in [Kinds -> 0 .. MaxEvents] /\ closes \in 0 .. MaxCloses
  /\ missed \in [Kinds -> SUBSET Series]
  /\ rejoined \subseteq Flows /\ ever \subseteq Flows

Zero == [k \in Kinds |-> [s \in Series |-> 0]]

Init ==
  /\ open = {} /\ total = [f \in Flows |-> 0]
  /\ events = [k \in Kinds |-> << >>]
  /\ counts = Zero /\ overflowBytesIn = 0 /\ lastIO = [f \in {} |-> 0]
  /\ batch = NoPoints /\ exported = Zero
  /\ carried = 0 /\ drained = [k \in Kinds |-> 0] /\ closes = 0
  /\ missed = [k \in Kinds |-> {}] /\ rejoined = {} /\ ever = {}

state == <<counts, overflowBytesIn, lastIO, batch, exported, drained, missed, rejoined, ever>>

Open(f) ==
  /\ f \notin open /\ open' = open \cup {f}
  /\ UNCHANGED <<total, events, carried, closes, state>>

Carry(f) ==
  /\ f \in open /\ carried < MaxBytes
  /\ total' = [total EXCEPT ![f] = @ + 1] /\ carried' = carried + 1
  /\ UNCHANGED <<open, events, closes, state>>

(* The connection leaves the snapshot, its counter is evicted. *)
Close(f) ==
  /\ f \in open /\ closes < MaxCloses
  /\ open' = open \ {f} /\ total' = [total EXCEPT ![f] = 0] /\ closes' = closes + 1
  /\ UNCHANGED <<events, carried, state>>

Event(k, x) ==
  /\ MapThenSumSet(LAMBDA j : Len(events[j]) + drained[j], Kinds) < MaxEvents
  /\ events' = [events EXCEPT ![k] = Append(@, x)]
  /\ UNCHANGED <<open, total, carried, closes, state>>

(* peerLimiter.allow: the endpoints asked about in order, up to the cap.  An *)
(* endpoint refused once is refused for the rest of the tick.                *)
allow(seen, p) ==
  IF p \in seen \/ Cardinality(seen) >= MaxPeerCardinality THEN seen ELSE seen \cup {p}

ConnectionPeers == LET conns == SetToSortSeq(open, <) IN [i \in DOMAIN conns |-> PeerOf[conns[i]]]

(* The endpoints one tick's shared limiter lets through: addIOMetric asks    *)
(* first, then addSYNMetric and addRSTMetric.                                *)
limiter == FoldLeft(allow, {}, ConnectionPeers \o events["syn"] \o events["rst"])

Previous(f) == IF f \in DOMAIN lastIO THEN lastIO[f] ELSE 0
Grown(f) == IF total[f] > Previous(f) THEN total[f] - Previous(f) ELSE 0

(* Variant: the overflow is advanced by whole totals. *)
addIOMetricWhole(over) ==
  /\ overflowBytesIn' = overflowBytesIn + MapThenSumSet(LAMBDA f : total[f], over)
  /\ lastIO' = [f \in over |-> total[f]]

addIOMetric(over) ==
  /\ overflowBytesIn' = overflowBytesIn + MapThenSumSet(Grown, over)
  /\ lastIO' = [f \in over |-> total[f]]

(* The series an event is counted in. *)
SeriesOf(k, x) == IF k \in {"dns", "dnsError"} \/ x \in limiter THEN x ELSE Overflow

(* Variant: past the cap an event is not counted. *)
CountedCapped(k) ==
  [s \in Series |-> counts[k][s] + Cardinality({i \in DOMAIN events[k] : s # Overflow /\ SeriesOf(k, events[k][i]) = s})]

(* Every event advances a series;                                            *)
Counted(k) ==
  [s \in Series |-> counts[k][s] + Cardinality({i \in DOMAIN events[k] : SeriesOf(k, events[k][i]) = s})]

(* Variant: the overflow point is added only beside another one. *)
TouchedFirst(k) ==
  LET t == {SeriesOf(k, events[k][i]) : i \in DOMAIN events[k]} IN IF t = {Overflow} THEN {} ELSE t

(* a point is exported for those touched, and the overflow if it was ever    *)
(* used, in a tick with events.                                              *)
Touched(k) ==
  LET t == {SeriesOf(k, events[k][i]) : i \in DOMAIN events[k]}
  IN t \cup {s \in {Overflow} : t # {} /\ Counted(k)[s] > 0}

CumulativeSum(k) == [counts |-> Counted(k), touched |-> Touched(k)]
addDNSQueryMetric == CumulativeSum("dns")
addDNSErrorMetric == CumulativeSum("dnsError")
addSYNMetric == CumulativeSum("syn")
addRSTMetric == CumulativeSum("rst")

(* A byte point names its connection by remote endpoint (and process).       *)
addIODataPoint(f) == <<PeerOf[f], total[f]>>

(* One tick: Refresh drains the events, buildMetrics advances the counters,  *)
(* ConsumeMetrics takes the points or fails, which is only logged.           *)
collect(ok) ==
  LET over == {f \in open : PeerOf[f] \notin limiter}
      metrics == [dns |-> addDNSQueryMetric, dnsError |-> addDNSErrorMetric,
                  syn |-> addSYNMetric, rst |-> addRSTMetric]
      touched == [k \in Kinds |-> metrics[k].touched]
  IN
  /\ addIOMetric(over)
  /\ counts' = [k \in Kinds |-> metrics[k].counts]
  /\ batch' = [io |-> {addIODataPoint(f) : f \in open \ over}, touched |-> touched]
  /\ exported' = [k \in Kinds |-> [s \in Series |->
                    IF ok /\ s \in touched[k] THEN metrics[k].counts[s] ELSE exported[k][s]]]
  /\ missed' = [k \in Kinds |-> IF ok THEN missed[k] \ touched[k] ELSE missed[k] \cup touched[k]]
  /\ drained' = [k \in Kinds |-> drained[k] + Len(events[k])]
  /\ events' = [k \in Kinds |-> << >>]
  /\ rejoined' = rejoined \cup {f \in over : f \in ever /\ f \notin DOMAIN lastIO}
  /\ ever' = ever \cup over
  /\ UNCHANGED <<open, total, carried, closes>>

Next ==
  \/ \E f \in Flows : Open(f) \/ Carry(f) \/ Close(f)
  \/ \E k \in Kinds, x \in Keys : Event(k, x)
  \/ \E ok \in BOOLEAN : collect(ok)

Spec == Init /\ [][Next]_vars
-----------------------------------------------------------------------------
(* One batch names at most MaxPeerCardinality remote endpoints, over its     *)
(* byte, SYN and RST points together (buildMetrics shares one limiter).      *)
PeersCapped ==
  Cardinality({p[1] : p \in batch.io} \cup ((batch.touched["syn"] \cup batch.touched["rst"]) \ {Overflow}))
    <= MaxPeerCardinality

(* Every event drained is counted once, in its own series or the overflow,   *)
(* however the endpoints let through change from tick to tick.               *)
EventsAccounted ==
  \A k \in Kinds : drained[k] = MapThenSumSet(LAMBDA s : counts[k][s], Series)

(* What the consumer last accepted of an event series is its current count,  *)
(* unless the consumer refused the points of the series' last change: the    *)
(* series a tick leaves out lose nothing.                                    *)
ExportedIsCurrent ==
  \A k \in Kinds, s \in Series : s \in missed[k] \/ exported[k][s] = counts[k][s]

(* The overflow series never exceeds the bytes all connections carried, as   *)
(* long as no connection leaves the overflow and comes back (addIOMetric     *)
(* advances it by the growth since the last tick).                           *)
OverflowBacked == rejoined = {} => overflowBytesIn <= carried

(* The same without the exception.                                           *)
OverflowIsTraffic == overflowBytesIn <= carried

(* While no connection closes, a byte series (named by its remote endpoint,  *)
(* process and interface) has one value per batch: exported as a cumulative  *)
(* monotonic sum, it can not take two values at one time.                    *)
ByteSeriesHaveOneValue ==
  closes = 0 => \A p, q \in batch.io : p[1] = q[1] => p[2] = q[2]
=============================================================================
