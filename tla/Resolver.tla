------------------------------ MODULE Resolver ------------------------------
(***************************************************************************)
(* dns.Resolver: reverse lookups that never block the render loop.         *)
(* Lookup serves a two-generation cache and starts at most MaxConcurrent   *)
(* resolve goroutines; each runs the query on a goroutine of its own and   *)
(* abandons it when the query's context expires.                           *)
(*                                                                         *)
(* One step is one critical section of Resolver.mu, one outcome of         *)
(* resolve's select, or one send to or receive from the semaphore.  Names  *)
(* are abstracted to whether the address resolved.                         *)
(***************************************************************************)
EXTENDS Integers, FiniteSets

CONSTANTS
  Addrs,           \* the addresses on screen
  MaxConcurrent,   \* Resolver.maxConcurrent
  MaxCacheEntries, \* Resolver.maxCacheEntries
  MaxStrays        \* bound: abandoned queries are counted up to here

ASSUME ResolverAssumption ==
  /\ IsFiniteSet(Addrs)
  /\ MaxConcurrent \in Nat \ {0}    \* WithMaxConcurrent takes max(n, 1)
  /\ MaxCacheEntries \in Nat \ {0}  \* WithMaxCacheEntries takes max(n, 1)
  /\ MaxStrays \in Nat

VARIABLES
  cur, prev,  \* the two cache generations
  inflight,   \* addresses a query has been started for
  slots,      \* len(sem)
  task,       \* control state of the resolve goroutine of each address
  answer,     \* what done holds, then what resolve's select took
  expired,    \* addresses whose queryCtx has passed its deadline
  releasing,  \* resolve goroutines that have unlocked mu and still hold a slot
  strays,     \* abandoned queries still running
  ctxDone,    \* whether the program's context is cancelled
  touched     \* history: addresses found or recorded since the last rotation

cacheVars == <<cur, prev, touched>>
taskVars == <<inflight, slots, task, answer, expired, releasing, strays>>
vars == <<cacheVars, taskVars, ctxDone>>

(* result: whether the address resolved; Absent is a missing map entry. *)
Result == {"resolved", "unresolved"}
Absent == "absent"

(* resolve waits for the query, done holds an answer, select has got one. *)
Task == {"none", "query", "answered", "got"}

Entries(gen) == {a \in Addrs : gen[a] # Absent}
Cached == Entries(cur) \cup Entries(prev)

TypeOK ==
  /\ cur \in [Addrs -> Result \cup {Absent}]
  /\ prev \in [Addrs -> Result \cup {Absent}]
  /\ inflight \subseteq Addrs /\ expired \subseteq Addrs
  /\ slots \in Nat /\ releasing \in Nat
  /\ task \in [Addrs -> Task] /\ answer \in [Addrs -> Result]
  /\ strays \in 0 .. MaxStrays
  /\ ctxDone \in BOOLEAN
  /\ touched \subseteq Addrs

Init ==
  /\ cur = [a \in Addrs |-> Absent] /\ prev = [a \in Addrs |-> Absent]
  /\ inflight = {} /\ expired = {}
  /\ slots = 0 /\ releasing = 0 /\ strays = 0
  /\ task = [a \in Addrs |-> "none"] /\ answer = [a \in Addrs |-> "unresolved"]
  /\ ctxDone = FALSE
  /\ touched = {}

-----------------------------------------------------------------------------
(* Variant: a full cache is emptied. *)
putAndClear(a, res) ==
  IF Cardinality(Entries(cur)) >= MaxCacheEntries
  THEN /\ prev' = [b \in Addrs |-> Absent]
       /\ cur' = [b \in Addrs |-> IF b = a THEN res ELSE Absent]
       /\ touched' = {a}
  ELSE /\ cur' = [cur EXCEPT ![a] = res]
       /\ touched' = touched \cup {a}
       /\ UNCHANGED prev

(* put: rotate the generations when the current one is full. *)
put(a, res) ==
  IF Cardinality(Entries(cur)) >= MaxCacheEntries
  THEN /\ prev' = cur
       /\ cur' = [b \in Addrs |-> IF b = a THEN res ELSE Absent]
       /\ touched' = {a}
  ELSE /\ cur' = [cur EXCEPT ![a] = res]
       /\ touched' = touched \cup {a}
       /\ UNCHANGED prev

(* Variant: a hit in the outgoing generation is not promoted. *)
getWithoutPromotion(a) ==
  /\ a \in Cached
  /\ touched' = touched \cup {a}
  /\ UNCHANGED <<cur, prev>>

(* get finds the address, and promotes a hit in the outgoing generation. *)
get(a) ==
  \/ /\ cur[a] # Absent
     /\ touched' = touched \cup {a}
     /\ UNCHANGED <<cur, prev>>
  \/ /\ cur[a] = Absent /\ prev[a] # Absent
     /\ put(a, prev[a])

(* Lookup, on a cache hit. *)
LookupHit(a) ==
  /\ get(a)
  /\ UNCHANGED <<taskVars, ctxDone>>

(* Variant: the outgoing generation is not consulted. *)
LookupMissInCur(a) ==
  /\ cur[a] = Absent /\ a \notin inflight
  /\ slots < MaxConcurrent
  /\ slots' = slots + 1
  /\ inflight' = inflight \cup {a}
  /\ task' = [task EXCEPT ![a] = "query"]
  /\ UNCHANGED <<cacheVars, answer, expired, releasing, strays, ctxDone>>

(* Lookup, on a miss: with no query in flight and a slot free it starts one; *)
(* otherwise it returns and changes nothing.                                 *)
LookupMiss(a) ==
  /\ a \notin Cached /\ a \notin inflight
  /\ slots < MaxConcurrent
  /\ slots' = slots + 1
  /\ inflight' = inflight \cup {a}
  /\ task' = [task EXCEPT ![a] = "query"]
  /\ UNCHANGED <<cacheVars, answer, expired, releasing, strays, ctxDone>>

Lookup(a) == LookupHit(a) \/ LookupMiss(a)

-----------------------------------------------------------------------------
(* resolve. *)

(* The query's goroutine sends its answer; done is buffered. *)
Answer(a, res) ==
  /\ task[a] = "query"
  /\ task' = [task EXCEPT ![a] = "answered"]
  /\ answer' = [answer EXCEPT ![a] = res]
  /\ UNCHANGED <<cacheVars, inflight, slots, expired, releasing, strays, ctxDone>>

(* The query's deadline passes. *)
Expire(a) ==
  /\ a \in inflight \ expired
  /\ expired' = expired \cup {a}
  /\ UNCHANGED <<cacheVars, inflight, slots, task, answer, releasing, strays, ctxDone>>

(* The program's context is cancelled, and with it every queryCtx. *)
Cancel ==
  /\ ~ctxDone
  /\ ctxDone' = TRUE
  /\ UNCHANGED <<cacheVars, taskVars>>

(* resolve's select takes the answer ... *)
SelectAnswer(a) ==
  /\ task[a] = "answered"
  /\ task' = [task EXCEPT ![a] = "got"]
  /\ UNCHANGED <<cacheVars, inflight, slots, answer, expired, releasing, strays, ctxDone>>

(* ... or queryCtx.Done, abandoning a query that has not answered. *)
SelectDone(a) ==
  /\ a \in expired \/ ctxDone
  /\ task[a] \in {"query", "answered"}
  /\ task' = [task EXCEPT ![a] = "got"]
  /\ answer' = [answer EXCEPT ![a] = "unresolved"]
  /\ strays' = IF task[a] = "query" /\ strays < MaxStrays THEN strays + 1 ELSE strays
  /\ UNCHANGED <<cacheVars, inflight, slots, expired, releasing, ctxDone>>

(* Variant: a cancelled query keeps its mark. *)
RecordKeepsMark(a) ==
  /\ task[a] = "got"
  /\ task' = [task EXCEPT ![a] = "none"]
  /\ inflight' = IF ctxDone THEN inflight ELSE inflight \ {a}
  /\ releasing' = releasing + 1
  /\ IF ctxDone
     THEN UNCHANGED cacheVars
     ELSE put(a, answer[a])
  /\ answer' = [answer EXCEPT ![a] = "unresolved"] /\ expired' = expired \ {a}
  /\ UNCHANGED <<slots, strays, ctxDone>>

(* Variant: negative results are not recorded. *)
RecordPositiveOnly(a) ==
  /\ task[a] = "got"
  /\ task' = [task EXCEPT ![a] = "none"]
  /\ inflight' = inflight \ {a}
  /\ releasing' = releasing + 1
  /\ IF ctxDone \/ answer[a] = "unresolved"
     THEN UNCHANGED cacheVars
     ELSE put(a, answer[a])
  /\ answer' = [answer EXCEPT ![a] = "unresolved"] /\ expired' = expired \ {a}
  /\ UNCHANGED <<slots, strays, ctxDone>>

(* resolve's critical section.  A cancelled parent leaves the address        *)
(* unknown.  The slot is given back by a deferred receive after the unlock.  *)
(* The goroutine's locals go with it.                                        *)
Record(a) ==
  /\ task[a] = "got"
  /\ task' = [task EXCEPT ![a] = "none"]
  /\ inflight' = inflight \ {a}
  /\ releasing' = releasing + 1
  /\ IF ctxDone
     THEN UNCHANGED cacheVars
     ELSE put(a, answer[a])
  /\ answer' = [answer EXCEPT ![a] = "unresolved"] /\ expired' = expired \ {a}
  /\ UNCHANGED <<slots, strays, ctxDone>>

(* The deferred receive from sem. *)
Release ==
  /\ releasing > 0
  /\ releasing' = releasing - 1
  /\ slots' = slots - 1
  /\ UNCHANGED <<cacheVars, inflight, task, answer, expired, strays, ctxDone>>

(* An abandoned query returns at last; its answer is discarded. *)
StrayFinish ==
  /\ strays > 0
  /\ strays' = strays - 1
  /\ UNCHANGED <<cacheVars, inflight, slots, task, answer, expired, releasing, ctxDone>>

Next ==
  \/ \E a \in Addrs : \/ Lookup(a) \/ Expire(a)
                      \/ SelectAnswer(a) \/ SelectDone(a) \/ Record(a)
                      \/ \E res \in Result : Answer(a, res)
  \/ Release \/ Cancel \/ StrayFinish

Spec == Init /\ [][Next]_vars

(* The render loop offers every address again on every tick, deadlines pass, *)
(* and the resolve goroutines are scheduled.  No query need ever answer.     *)
FairTo(A) ==
  /\ \A a \in A : /\ WF_vars(Lookup(a)) /\ WF_vars(Expire(a))
                  /\ WF_vars(SelectAnswer(a) \/ SelectDone(a)) /\ WF_vars(Record(a))
  /\ WF_vars(Release)

FairSpec == Spec /\ FairTo(Addrs)

-----------------------------------------------------------------------------
(* The semaphore holds exactly one token per query in flight or just about   *)
(* to give its token back, and never more than maxConcurrent (Lookup,        *)
(* resolver.go:193-200, and resolve's deferred receive, 217): no order of    *)
(* answers, deadlines and cancellation leaks a slot or frees one twice.      *)
SlotsAccounted ==
  /\ slots = Cardinality(inflight) + releasing
  /\ slots <= MaxConcurrent
  /\ \A a \in Addrs : a \in inflight <=> task[a] # "none"

(* Neither generation outgrows maxCacheEntries, whatever mix of promotions   *)
(* and new results fills them: "Memory is bounded at twice maxCacheEntries"  *)
(* (resolver.go:281).                                                        *)
CacheBounded ==
  /\ Cardinality(Entries(cur)) <= MaxCacheEntries
  /\ Cardinality(Entries(prev)) <= MaxCacheEntries

(* No address is both cached and being asked about, so a query still in      *)
(* progress is never read as a failure (resolver.go:39-46).                  *)
InflightNotCached == inflight \cap Cached = {}

(* The two generations and the marks of one cache agree (get, put, resolve). *)
CacheConsistent == TypeOK /\ CacheBounded /\ InflightNotCached

(* Only addresses not looked up since the last rotation are ever lost        *)
(* (resolver.go:278-281).                                                    *)
OnlyColdAddressesLost == [][touched \cap Cached \subseteq Cached']_vars

(* What the caller sees of the cache, the marks and the context. *)
Names == INSTANCE ReverseNames WITH
  Answers <- Result, Unknown <- Absent, MaxAsked <- MaxConcurrent, Remembered <- MaxCacheEntries,
  known <- [a \in Addrs |-> IF cur[a] # Absent THEN cur[a] ELSE prev[a]],
  asked <- inflight, stopped <- ctxDone

(* The resolver implements ReverseNames: to its caller (resolver.go:39-46,    *)
(* 155-156, 278-281) an address is asked about once at a time, its answer     *)
(* does not change while it is remembered, maxCacheEntries answers are always *)
(* remembered, a query that was started is answered, if only negatively, and  *)
(* nothing is learnt from a cancelled one.                                    *)
ImplementsNames == Names!Spec

(* After the context is cancelled nothing more is learnt about any address   *)
(* (resolver.go:249-255), also when the cancellation falls between resolve's *)
(* select and its lock.                                                      *)
CancelTeachesNothing == [][ctxDone => Cached' \subseteq Cached]_vars

(* A query is always given up in the end, even if it never answers.          *)
Ends(A) == \A a \in A : a \in inflight ~> a \notin inflight

(* "the backlog drains without ever being materialised as a queue"           *)
(* (resolver.go:28-30): unless the program stops, every address of A gets an *)
(* answer, though slots are fewer than addresses.  It needs all of A to fit  *)
(* in the cache, or addresses asked about again may take every slot.         *)
Drains(A) == \A a \in A : <>(a \in Cached \/ ctxDone)

(* "maxConcurrent caps the queries in flight, and with them the goroutines"  *)
(* (resolver.go:23).                                                         *)
QueriesCapped ==
  Cardinality({a \in Addrs : task[a] = "query"}) + strays <= MaxConcurrent

(* "A negative result is cached permanently, so an address that does not     *)
(* resolve is asked about once" (resolver.go:155-156).                       *)
NegativeIsPermanent ==
  [][\A a \in Addrs : "unresolved" \in {cur[a], prev[a]} => a \in Cached']_vars
=============================================================================
