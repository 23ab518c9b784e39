------------------------------ MODULE EventLog ------------------------------
(***************************************************************************)
(* How captured events reach their consumers: all of them through          *)
(* drop-oldest rings the collection tick drains, SYN and DNS-query events  *)
(* also through the drop-newest capture.logFeed that                       *)
(* trafficmonReceiver.forwardLogs batches into log records, annotated by   *)
(* synAttemptCache.  Each queue is guarded on its own and no property      *)
(* relates the two, so a packet's two pushes are one step.  An event's     *)
(* timestamp is its packet's from libpcap: it precedes the step that       *)
(* handles the packet, and as every interface has a capture goroutine,     *)
(* events do not come in the order of their timestamps.                    *)
(***************************************************************************)
EXTENDS Integers, SequencesExt

CONSTANTS
  Tuples,            \* 4-tuples SYNs are sent from and to
  Unlogged,          \* kinds of event without a log feed: RST, DNS error, DNS answer
  ringCapacity,      \* synEventRingCapacity, and the same of the other rings
  logFeedCapacity, logBatchCap, synAttemptWindow,
  MaxLag,            \* bound: how old a packet's timestamp is when it is handled
  MaxTime, MaxEvents \* bounds: the clock, the events captured

ASSUME EventLogAssumption ==
  /\ {ringCapacity, logFeedCapacity, logBatchCap, synAttemptWindow, MaxTime, MaxEvents} \subseteq Nat \ {0}
  /\ MaxLag \in Nat

Kinds == {"syn", "dns"}
Rings == Kinds \cup Unlogged
Query == "query"
Subjects(k) == IF k = "syn" THEN Tuples ELSE {Query}
Event == [of: Tuples \cup {Query}, at: 0 .. MaxTime]

VARIABLES
  now,
  ring,        \* synEventRing.items, dnsQueryRing.items and the others
  feed,        \* the channels of logFeed
  overflow,    \* logFeed.synOverflow, dnsQueryOverflow
  running,     \* forwardLogs has not returned
  pending,     \* pendingSYN, pendingDNS
  reported,    \* lastSYNOverflow, lastDNSOverflow
  attempts,    \* synAttemptCache.attempts
  logged,      \* the records given to logsConsumer; count is a SYN's attempt count
  captured,    \* history: the events of each kind
  drainedTo    \* history: how many of them were captured before the last drain

vars == <<now, ring, feed, overflow, running, pending, reported, attempts, logged, captured, drainedTo>>

PerKind(S) == [Kinds -> S]

TypeOK ==
  /\ now \in 0 .. MaxTime /\ running \in BOOLEAN
  /\ \A k \in Kinds :
       /\ feed[k] \in Seq(Event) /\ Len(feed[k]) <= logFeedCapacity
       /\ pending[k] \in Seq(Event)
       /\ logged[k] \in Seq([of: Tuples \cup {Query}, at: 0 .. MaxTime, count: 0 .. MaxEvents])
  /\ \A k \in Rings :
       /\ ring[k] \in Seq(Event) /\ Len(ring[k]) <= ringCapacity
       /\ captured[k] \in Seq(Event) /\ drainedTo[k] \in 0 .. Len(captured[k])
  /\ Len(pending["syn"]) + Len(pending["dns"]) < logBatchCap
  /\ overflow \in PerKind(0 .. MaxEvents) /\ reported \in PerKind(0 .. MaxEvents)
  /\ \A t \in Tuples : attempts[t] \in Seq(0 .. MaxTime)

Empty == [k \in Kinds |-> << >>]
EmptyRings == [k \in Rings |-> << >>]
None == [k \in Kinds |-> 0]

Init ==
  /\ now = 0 /\ ring = EmptyRings /\ feed = Empty /\ overflow = None
  /\ running = TRUE /\ pending = Empty /\ reported = None
  /\ attempts = [t \in Tuples |-> << >>] /\ logged = Empty
  /\ captured = EmptyRings /\ drainedTo = [k \in Rings |-> 0]

(* Variant: a full ring keeps what it has. *)
pushUntilFull(k, e) == ring' = [ring EXCEPT ![k] = IF Len(@) >= ringCapacity THEN @ ELSE Append(@, e)]

push(k, e) == ring' = [ring EXCEPT ![k] = Append(IF Len(@) >= ringCapacity THEN Tail(@) ELSE @, e)]

(* Variant: an event that finds the channel full is dropped without a count. *)
sendUncounted(k, e) ==
  /\ feed' = [feed EXCEPT ![k] = IF Len(@) >= logFeedCapacity THEN @ ELSE Append(@, e)]
  /\ UNCHANGED overflow

(* logFeed.sendSYN and sendDNSQuery. *)
send(k, e) ==
  IF Len(feed[k]) < logFeedCapacity
    THEN feed' = [feed EXCEPT ![k] = Append(@, e)] /\ UNCHANGED overflow
    ELSE overflow' = [overflow EXCEPT ![k] = @ + 1] /\ UNCHANGED feed

(* handlePacket and inspectPassive on a packet with an event, captured at ts. *)
Capture(k, s, ts) ==
  LET e == [of |-> s, at |-> ts] IN
  /\ ts <= now /\ now <= ts + MaxLag
  /\ MapThenSumSet(LAMBDA r : Len(captured[r]), Rings) < MaxEvents
  /\ push(k, e)
  /\ IF k \in Kinds THEN send(k, e) ELSE UNCHANGED <<feed, overflow>>
  /\ captured' = [captured EXCEPT ![k] = Append(@, e)]
  /\ UNCHANGED <<now, running, pending, reported, attempts, logged, drainedTo>>

(* The collection tick's Refresh. *)
drain(k) ==
  /\ ring' = [ring EXCEPT ![k] = << >>]
  /\ drainedTo' = [drainedTo EXCEPT ![k] = Len(captured[k])]
  /\ UNCHANGED <<now, feed, overflow, running, pending, reported, attempts, logged, captured>>

(* Variant: the cutoff itself is kept. *)
pruneBeforeLate(hist, cutoff) == SelectSeq(hist, LAMBDA t : t >= cutoff)

(* Variant: the history is taken to be in order, and cut after its last      *)
(* expired attempt.                                                          *)
pruneBeforeSorted(hist, cutoff) ==
  LET expired == {i \in DOMAIN hist : hist[i] <= cutoff}
  IN IF expired = {} THEN hist ELSE SubSeq(hist, Max(expired) + 1, Len(hist))

pruneBefore(hist, cutoff) == SelectSeq(hist, LAMBDA t : t > cutoff)

(* synAttemptCache.record, folded over a batch with the records it annotates. *)
record(acc, e) ==
  LET hist == pruneBefore(Append(acc.attempts[e.of], e.at), e.at - synAttemptWindow)
  IN [attempts |-> [acc.attempts EXCEPT ![e.of] = hist],
      records |-> Append(acc.records, [of |-> e.of, at |-> e.at, count |-> Len(hist)])]

(* Variant: the cache is never pruned as a whole. *)
pruneNothing == attempts

prune == [t \in Tuples |-> pruneBefore(attempts[t], now - synAttemptWindow)]

(* buildLogBatch and the export.  ConsumeLogs may fail, which is logged.     *)
buildLogBatch(batch) ==
  LET syns == FoldLeft(record, [attempts |-> prune, records |-> << >>], batch["syn"])
      queries == [i \in DOMAIN batch["dns"] |-> [of |-> Query, at |-> batch["dns"][i].at, count |-> 0]]
  IN /\ attempts' = syns.attempts
     /\ logged' = [syn |-> logged["syn"] \o syns.records, dns |-> logged["dns"] \o queries]

flush(batch) ==
  /\ pending' = Empty
  /\ IF batch = Empty THEN UNCHANGED <<attempts, logged>> ELSE buildLogBatch(batch)

(* forwardLogs, an event received. *)
Receive(k) ==
  LET batch == [pending EXCEPT ![k] = Append(@, Head(feed[k]))] IN
  /\ running /\ feed[k] # << >>
  /\ feed' = [feed EXCEPT ![k] = Tail(@)]
  /\ IF Len(batch["syn"]) + Len(batch["dns"]) >= logBatchCap
       THEN flush(batch)
       ELSE pending' = batch /\ UNCHANGED <<attempts, logged>>
  /\ UNCHANGED <<now, ring, overflow, running, reported, captured, drainedTo>>

(* Variant: only SYNs dropped are looked at. *)
FlushTickSyn ==
  /\ running /\ flush(pending)
  /\ reported' = IF overflow["syn"] # reported["syn"] THEN overflow ELSE reported
  /\ UNCHANGED <<now, ring, feed, overflow, running, captured, drainedTo>>

(* forwardLogs, flushTicker: the drops since the last warning are reported.  *)
FlushTick ==
  /\ running /\ flush(pending)
  /\ reported' = overflow
  /\ UNCHANGED <<now, ring, feed, overflow, running, captured, drainedTo>>

(* forwardLogs, ctx.Done. *)
Return ==
  /\ running' = FALSE
  /\ UNCHANGED <<now, ring, feed, overflow, pending, reported, attempts, logged, captured, drainedTo>>

Clock ==
  /\ now < MaxTime /\ now' = now + 1
  /\ UNCHANGED <<ring, feed, overflow, running, pending, reported, attempts, logged, captured, drainedTo>>

Next ==
  \/ \E k \in Rings : (\E s \in Subjects(k), ts \in 0 .. MaxTime : Capture(k, s, ts)) \/ drain(k)
  \/ \E k \in Kinds : Receive(k)
  \/ FlushTick \/ Return \/ Clock

Spec == Init /\ [][Next]_vars

(* The select takes any ready case at random: none is passed over for ever.  *)
FairSpec == Spec /\ WF_vars(FlushTick) /\ WF_vars(Clock) /\ \A k \in Kinds : WF_vars(Receive(k))
-----------------------------------------------------------------------------
Plain(records) == [i \in DOMAIN records |-> [of |-> records[i].of, at |-> records[i].at]]

(* logFeed and forwardLogs lose nothing silently and keep the order: what    *)
(* was logged, then pending, then queued is a subsequence of what was        *)
(* captured, and the rest of it is in the overflow count.                    *)
FeedAccounted ==
  \A k \in Kinds :
    LET through == Plain(logged[k]) \o pending[k] \o feed[k]
    IN /\ Len(through) + overflow[k] = Len(captured[k])
       /\ \E kept \in SUBSET (1 .. Len(captured[k])) :
            LET at == SetToSortSeq(kept, <)
            IN through = [i \in DOMAIN at |-> captured[k][at[i]]]

(* A ring holds the latest events captured since it was last drained, all    *)
(* of them up to its capacity (push drops the oldest).                       *)
RingHoldsLatest ==
  \A k \in Rings :
    LET n == Len(captured[k])
        from == IF n - drainedTo[k] > ringCapacity THEN n - ringCapacity ELSE drainedTo[k]
    IN ring[k] = SubSeq(captured[k], from + 1, n)

(* The SYNs of record i's 4-tuple, up to it, that were sent after cutoff. *)
SentAfter(records, i, cutoff) ==
  Cardinality({j \in 1 .. i : records[j].of = records[i].of /\ records[j].at > cutoff})

(* The attempt count of a record newly logged. *)
CountsInWindow ==
  \A i \in Len(logged["syn"]) + 1 .. Len(logged'["syn"]) :
    LET records == logged'["syn"]
    IN /\ records[i].count >= SentAfter(records, i, now - synAttemptWindow)
       /\ records[i].count <= SentAfter(records, i, records[i].at - synAttemptWindow)

Within(r) ==
  Cardinality({i \in DOMAIN captured["syn"] :
    LET e == captured["syn"][i] IN e.of = r.of /\ r.at - synAttemptWindow < e.at /\ e.at <= r.at})

(* A SYN record's count is of the "prior SYNs to the same 4-tuple"           *)
(* (synattempts.go:10-11) sent in the window that ends with it: it never     *)
(* exceeds the SYNs stamped in that window.                                  *)
CountsNotHigh == \A i \in DOMAIN logged["syn"] : logged["syn"][i].count <= Within(logged["syn"][i])

Mentioned(t) == \E i \in Len(logged["syn"]) + 1 .. Len(logged'["syn"]) : logged'["syn"][i].of = t

(* The attempt cache answers for the window and for nothing else, although   *)
(* attempts come in any order of their timestamps, are counted by them and   *)
(* pruned by the wall clock (synAttemptCache.record, prune).  A count misses *)
(* no attempt of the window that ends when the batch is built, and includes  *)
(* none older than the window before its own SYN.  A batch that is sent      *)
(* prunes the whole cache, "so a connection attempt pattern that has stopped *)
(* doesn't linger in the cache forever" (synattempts.go:44-46, called from   *)
(* buildLogBatch): whatever events are sent, the tuples without a SYN among  *)
(* them keep no attempt older than the window.                               *)
AttemptsAreRecent ==
  [][/\ CountsInWindow
     /\ logged' # logged =>
          \A t \in Tuples : Mentioned(t) \/ \A i \in DOMAIN attempts'[t] :
                                             attempts'[t][i] > now - synAttemptWindow]_vars

(* When no SYN was dropped, the attempt count of the first record of its     *)
(* time is how many SYNs its 4-tuple sent in the trailing window.            *)
CountsExact ==
  overflow["syn"] = 0 =>
    \A i \in DOMAIN logged["syn"] :
      LET r == logged["syn"][i]
      IN (\A j \in DOMAIN captured["syn"] : j # i => captured["syn"][j].at # r.at) => r.count = Within(r)

(* Every drop is reported unless forwardLogs returns first (FlushTick).      *)
DropsReported ==
  \A k \in Kinds : \A n \in 1 .. MaxEvents : overflow[k] = n ~> (reported[k] >= n \/ ~running)

(* An event the channel took is logged unless forwardLogs returns first.     *)
QueuedIsLogged ==
  \A k \in Kinds : \A n \in 1 .. MaxEvents :
    (Len(captured[k]) - overflow[k] = n) ~> (Len(logged[k]) >= n \/ ~running)

AgedOut(t) ==
  attempts[t] # << >> /\ \A i \in DOMAIN attempts[t] : attempts[t][i] <= now - synAttemptWindow

(* A 4-tuple whose SYNs have all aged out of the window leaves the attempt   *)
(* cache, or sends another (synAttemptCache.prune).                          *)
StoppedForgotten == \A t \in Tuples : AgedOut(t) ~> (~AgedOut(t) \/ ~running)
=============================================================================
