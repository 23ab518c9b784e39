--------------------------- MODULE ResolverProofs ---------------------------
(***************************************************************************)
(* Proofs about module Resolver, for any set of addresses, any number of   *)
(* slots and any size of the cache: the semaphore is accounted for, the    *)
(* two generations are bounded and consistent with the marks, only cold    *)
(* addresses are lost, and the resolver implements ReverseNames.           *)
(***************************************************************************)
EXTENDS Resolver, FiniteSetTheorems, TLAPS

(* What was used since the last rotation is exactly the current generation:  *)
(* get promotes a hit, put records into it, and a rotation starts it anew.   *)
TouchedIsCurrent == touched = Entries(cur)

(* The inductive invariant. *)
Inv ==
  /\ TypeOK
  /\ SlotsAccounted
  /\ CacheBounded
  /\ InflightNotCached
  /\ TouchedIsCurrent

-----------------------------------------------------------------------------
(* Sets of addresses, and with them both generations and the marks, are      *)
(* finite, so their cardinalities are numbers.                               *)
LEMMA AddrsFinite ==
  ASSUME NEW S, S \subseteq Addrs
  PROVE  IsFiniteSet(S) /\ Cardinality(S) \in Nat
BY ResolverAssumption, FS_Subset, FS_CardinalityType

(* One address more or less changes a cardinality by one, or not at all. *)
LEMMA OneMoreAddr ==
  ASSUME NEW S, S \subseteq Addrs, NEW a \in Addrs
  PROVE  /\ Cardinality(S \cup {a}) = IF a \in S THEN Cardinality(S) ELSE Cardinality(S) + 1
         /\ Cardinality(S \ {a}) = IF a \in S THEN Cardinality(S) - 1 ELSE Cardinality(S)
BY AddrsFinite, FS_AddElement, FS_RemoveElement

(* A generation without entries is empty (Init). *)
LEMMA NoEntries == Entries([a \in Addrs |-> Absent]) = {}
BY DEF Entries

(* put on a full generation: the outgoing generation is the full one, and    *)
(* the current one holds the new result alone.                               *)
LEMMA PutRotates ==
  ASSUME TypeOK, NEW a \in Addrs, NEW res \in Result, put(a, res),
         Cardinality(Entries(cur)) >= MaxCacheEntries
  PROVE  /\ cur' \in [Addrs -> Result \cup {Absent}] /\ prev' = cur
         /\ Entries(cur)' = {a} /\ Entries(prev)' = Entries(cur)
         /\ cur'[a] = res /\ touched' = {a}
BY DEF put, TypeOK, Entries, Result, Absent

(* put with room left: the result joins the current generation. *)
LEMMA PutAdds ==
  ASSUME TypeOK, NEW a \in Addrs, NEW res \in Result, put(a, res),
         ~(Cardinality(Entries(cur)) >= MaxCacheEntries)
  PROVE  /\ cur' = [cur EXCEPT ![a] = res] /\ prev' = prev
         /\ cur' \in [Addrs -> Result \cup {Absent}]
         /\ Entries(cur)' = Entries(cur) \cup {a} /\ Entries(prev)' = Entries(prev)
         /\ touched' = touched \cup {a}
BY DEF put, TypeOK, Entries, Result, Absent

(* put keeps both generations typed, within maxCacheEntries and matched by   *)
(* the addresses touched; it makes no address known but its own and loses    *)
(* none of the current generation (resolver.go, put).                        *)
LEMMA PutKeepsCache ==
  ASSUME TypeOK, CacheBounded, TouchedIsCurrent,
         NEW a \in Addrs, NEW res \in Result, put(a, res)
  PROVE  /\ cur' \in [Addrs -> Result \cup {Absent}]
         /\ prev' \in [Addrs -> Result \cup {Absent}]
         /\ touched' \subseteq Addrs
         /\ CacheBounded' /\ TouchedIsCurrent'
         /\ Cached' \subseteq Cached \cup {a}
         /\ Entries(cur) \cup {a} \subseteq Cached'
<1>1. Entries(cur) \subseteq Addrs /\ Entries(prev) \subseteq Addrs
  BY DEF Entries
<1>2. Cardinality(Entries(cur)) \in Nat /\ IsFiniteSet(Entries(cur))
  BY <1>1, AddrsFinite
<1>3. CASE Cardinality(Entries(cur)) >= MaxCacheEntries
  <2>1. Cardinality({a}) = 1
    BY FS_Singleton
  <2>2. Cardinality({a}) <= MaxCacheEntries
    BY <2>1, ResolverAssumption
  <2> QED
    BY <1>1, <1>3, <2>2, PutRotates, Zenon DEF TypeOK, CacheBounded, TouchedIsCurrent, Cached
<1>4. CASE ~(Cardinality(Entries(cur)) >= MaxCacheEntries)
  <2>1. Cardinality(Entries(cur) \cup {a})
          = IF a \in Entries(cur) THEN Cardinality(Entries(cur)) ELSE Cardinality(Entries(cur)) + 1
    BY <1>1, OneMoreAddr, Zenon
  <2>2. Cardinality(Entries(cur) \cup {a}) \in Nat
    BY <1>1, AddrsFinite
  <2>3. Cardinality(Entries(cur) \cup {a}) <= MaxCacheEntries
    BY <1>2, <1>4, <2>1, <2>2, ResolverAssumption
  <2> QED
    BY <1>1, <1>4, <2>3, PutAdds, Zenon DEF TypeOK, CacheBounded, TouchedIsCurrent, Cached
<1> QED BY <1>3, <1>4, Zenon
-----------------------------------------------------------------------------
(* Initially nothing is cached, in flight or touched (NewResolver). *)
LEMMA InitInv == ASSUME Init PROVE Inv
<1>1. Entries(cur) = {} /\ Entries(prev) = {}
  BY NoEntries DEF Init
<1>2. Cardinality({}) = 0
  BY FS_EmptySet
<1>3. TypeOK
  <2>1. ctxDone \in BOOLEAN
    BY Zenon DEF Init
  <2> QED BY <2>1, ResolverAssumption DEF Init, TypeOK, Result, Task, Absent
<1>4. SlotsAccounted
  BY <1>2, ResolverAssumption DEF Init, SlotsAccounted
<1> QED
  BY <1>1, <1>2, <1>3, <1>4, ResolverAssumption
  DEF Init, Inv, CacheBounded, InflightNotCached, TouchedIsCurrent, Cached

(* Lookup on a hit: get finds or promotes. *)
LEMMA LookupHitInv == ASSUME Inv, NEW a \in Addrs, LookupHit(a) PROVE Inv'
<1> USE DEF Inv
<1>1. CASE cur[a] # Absent /\ touched' = touched \cup {a} /\ UNCHANGED <<cur, prev>>
  <2>1. a \in Entries(cur)
    BY <1>1 DEF Entries
  <2> QED
    BY <1>1, <2>1, Zenon
    DEF LookupHit, taskVars, TypeOK, SlotsAccounted, CacheBounded, InflightNotCached,
        TouchedIsCurrent, Cached, Entries
<1>2. CASE cur[a] = Absent /\ prev[a] # Absent /\ put(a, prev[a])
  <2>1. prev[a] \in Result /\ a \in Cached
    BY <1>2 DEF TypeOK, Cached, Entries
  <2> QED
    BY <1>2, <2>1, PutKeepsCache
    DEF LookupHit, taskVars, TypeOK, SlotsAccounted, InflightNotCached
<1> QED BY <1>1, <1>2, Zenon DEF LookupHit, get

(* Lookup on a miss: the slot it takes is the one the new mark accounts for. *)
LEMMA LookupMissInv == ASSUME Inv, NEW a \in Addrs, LookupMiss(a) PROVE Inv'
<1> USE DEF Inv
<1>1. Cardinality(inflight') = Cardinality(inflight) + 1 /\ Cardinality(inflight) \in Nat
  BY OneMoreAddr, AddrsFinite, Zenon DEF LookupMiss, TypeOK
<1>2. SlotsAccounted'
  BY <1>1, ResolverAssumption DEF LookupMiss, TypeOK, SlotsAccounted, Task
<1> QED
  BY <1>2
  DEF LookupMiss, cacheVars, TypeOK, CacheBounded, InflightNotCached, TouchedIsCurrent,
      Cached, Entries, Task

(* The query's goroutine answers. *)
LEMMA AnswerInv == ASSUME Inv, NEW a \in Addrs, NEW res \in Result, Answer(a, res) PROVE Inv'
BY Zenon DEF Inv, Answer, cacheVars, TypeOK, SlotsAccounted, CacheBounded, InflightNotCached,
       TouchedIsCurrent, Cached, Entries, Task

(* resolve's select takes the answer. *)
LEMMA SelectAnswerInv == ASSUME Inv, NEW a \in Addrs, SelectAnswer(a) PROVE Inv'
BY Zenon DEF Inv, SelectAnswer, cacheVars, TypeOK, SlotsAccounted, CacheBounded, InflightNotCached,
       TouchedIsCurrent, Cached, Entries, Task

(* resolve's select takes the deadline. *)
LEMMA SelectDoneInv == ASSUME Inv, NEW a \in Addrs, SelectDone(a) PROVE Inv'
BY ResolverAssumption
   DEF Inv, SelectDone, cacheVars, TypeOK, SlotsAccounted, CacheBounded, InflightNotCached,
       TouchedIsCurrent, Cached, Entries, Task, Result

(* resolve's critical section: the mark goes, and its slot is accounted for  *)
(* by the goroutine that is about to give it back.                           *)
LEMMA RecordInv == ASSUME Inv, NEW a \in Addrs, Record(a) PROVE Inv'
<1> USE DEF Inv
<1>1. a \in inflight
  BY DEF Record, SlotsAccounted
<1>2. Cardinality(inflight') = Cardinality(inflight) - 1 /\ Cardinality(inflight) \in Nat
  BY <1>1, OneMoreAddr, AddrsFinite, Zenon DEF Record, TypeOK
<1>3. SlotsAccounted'
  BY <1>2 DEF Record, TypeOK, SlotsAccounted, Task
<1>4. CASE ctxDone
  BY <1>3, <1>4
  DEF Record, cacheVars, TypeOK, CacheBounded, InflightNotCached, TouchedIsCurrent, Cached,
      Entries, Task, Result
<1>5. CASE ~ctxDone
  <2>1. put(a, answer[a]) /\ answer[a] \in Result
    BY <1>5 DEF Record, TypeOK
  <2>2. CacheBounded' /\ TouchedIsCurrent' /\ Cached' \subseteq Cached \cup {a}
    BY <2>1, PutKeepsCache
  <2>3. TypeOK'
    BY <2>1, PutKeepsCache DEF Record, TypeOK, Task, Result
  <2>4. InflightNotCached'
    BY <2>2 DEF Record, InflightNotCached
  <2> QED BY <1>3, <2>2, <2>3, <2>4
<1> QED BY <1>4, <1>5

(* The deferred receive gives one slot back. *)
LEMMA ReleaseInv == ASSUME Inv, Release PROVE Inv'
<1> USE DEF Inv
<1>1. Cardinality(inflight) \in Nat
  BY AddrsFinite DEF TypeOK
<1> QED
  BY <1>1, ResolverAssumption
  DEF Release, cacheVars, TypeOK, SlotsAccounted, CacheBounded, InflightNotCached,
      TouchedIsCurrent, Cached, Entries

(* What neither moves a slot nor a result: a deadline, the cancellation, an  *)
(* abandoned query that returns.                                             *)
LEMMA QuietInv ==
  ASSUME Inv, (\E a \in Addrs : Expire(a)) \/ Cancel \/ StrayFinish \/ UNCHANGED vars
  PROVE  Inv'
<1>1. UNCHANGED <<cacheVars, inflight, slots, task, answer, releasing>>
  BY Zenon DEF Expire, Cancel, StrayFinish, vars, taskVars
<1>2. ctxDone' \in BOOLEAN
  BY Zenon DEF Inv, TypeOK, Expire, Cancel, StrayFinish, vars
<1>3. expired' \subseteq Addrs /\ strays' \in 0 .. MaxStrays
  BY ResolverAssumption DEF Inv, TypeOK, Expire, Cancel, StrayFinish, vars, taskVars
<1> QED
  BY <1>1, <1>2, <1>3, Zenon
  DEF Inv, cacheVars, TypeOK, SlotsAccounted, CacheBounded, InflightNotCached,
      TouchedIsCurrent, Cached, Entries

(* Inv is an invariant of the resolver. *)
THEOREM Invariance == Spec => []Inv
<1>1. Init => Inv
  BY InitInv
<1>2. Inv /\ [Next]_vars => Inv'
  BY LookupHitInv, LookupMissInv, AnswerInv, SelectAnswerInv, SelectDoneInv, RecordInv,
     ReleaseInv, QuietInv DEF Next, Lookup
<1> QED BY <1>1, <1>2, PTL DEF Spec

(* The semaphore never leaks a slot nor frees one twice, for any number of   *)
(* addresses and of slots (Lookup and resolve's deferred receive).           *)
THEOREM SlotsAreAccounted == Spec => []SlotsAccounted
<1>1. Inv => SlotsAccounted
  BY DEF Inv
<1> QED BY <1>1, Invariance, PTL

(* Both generations stay within maxCacheEntries and never hold an address    *)
(* that is being asked about (get, put, resolve).                            *)
THEOREM CacheIsConsistent == Spec => []CacheConsistent
<1>1. Inv => CacheConsistent
  BY DEF Inv, CacheConsistent
<1> QED BY <1>1, Invariance, PTL
-----------------------------------------------------------------------------
(* No step loses an address of the current generation: a hit and a result    *)
(* go through put, and no other action touches the cache.                    *)
LEMMA CurrentKept == ASSUME Inv, [Next]_vars PROVE Entries(cur) \subseteq Cached'
<1>1. CASE \E a \in Addrs : LookupHit(a) \/ Record(a)
  <2>1. PICK a \in Addrs : LookupHit(a) \/ Record(a)
    BY <1>1
  <2>2. \/ UNCHANGED cur
        \/ put(a, prev[a]) /\ prev[a] # Absent
        \/ put(a, answer[a])
    BY <2>1 DEF LookupHit, get, Record, cacheVars
  <2>3. prev[a] # Absent => prev[a] \in Result
    BY DEF Inv, TypeOK
  <2>4. answer[a] \in Result
    BY DEF Inv, TypeOK
  <2>5. CASE UNCHANGED cur
    BY <2>5 DEF Cached, Entries
  <2>6. CASE put(a, prev[a]) /\ prev[a] # Absent
    BY <2>3, <2>6, PutKeepsCache DEF Inv
  <2>7. CASE put(a, answer[a])
    BY <2>4, <2>7, PutKeepsCache DEF Inv
  <2> QED BY <2>2, <2>5, <2>6, <2>7
<1>2. CASE UNCHANGED cacheVars
  BY <1>2 DEF cacheVars, Cached, Entries
<1> QED
  BY <1>1, <1>2, Zenon
  DEF Next, Lookup, LookupMiss, Answer, Expire, Cancel, SelectAnswer, SelectDone, Release,
      StrayFinish, vars

(* Only addresses not looked up since the last rotation are lost, whatever   *)
(* mix of promotions and results rotates the generations (put).              *)
THEOREM ColdAddressesLost == Spec => OnlyColdAddressesLost
<1>1. Inv /\ [Next]_vars => [touched \cap Cached \subseteq Cached']_vars
  BY CurrentKept DEF Inv, TouchedIsCurrent
<1> QED BY <1>1, Invariance, PTL DEF Spec, OnlyColdAddressesLost

-----------------------------------------------------------------------------
(* The abstract view. *)
KnownAs == [a \in Addrs |-> IF cur[a] # Absent THEN cur[a] ELSE prev[a]]

(* ReverseNames counts as Resolver does. *)
LEMMA SameCardinality == ASSUME NEW S PROVE Names!Cardinality(S) = Cardinality(S)
BY DEF Cardinality, Names!Cardinality

(* The addresses known to the abstract resolver are those cached. *)
LEMMA KnownIsCached == Names!Known = Cached
BY DEF Names!Known, Cached, Entries

(* A rotation forgets only what ReverseNames allows to be forgotten: what    *)
(* was in the outgoing generation alone, while the current one, full, stays. *)
LEMMA RotationForgets ==
  ASSUME Inv, NEW a \in Addrs, Cardinality(Entries(cur)) >= MaxCacheEntries
  PROVE  Entries(prev) \ (Entries(cur) \cup {a}) \in Names!Forgettable(Cached)
<1> DEFINE F == Entries(prev) \ (Entries(cur) \cup {a})
<1>1. F \in SUBSET Cached
  BY DEF Cached
<1>2. Entries(cur) \subseteq Cached \ F /\ Cached \subseteq Addrs
  BY DEF Cached, Entries
<1>3. /\ Cardinality(Entries(cur)) \in Nat /\ Cardinality(Cached) \in Nat
      /\ Cardinality(Cached \ F) \in Nat
  BY <1>2, AddrsFinite
<1>4. /\ Cardinality(Entries(cur)) <= Cardinality(Cached \ F)
      /\ Cardinality(Entries(cur)) <= Cardinality(Cached)
      /\ Cardinality(Cached) = Cardinality(Entries(cur)) => Cached = Entries(cur)
  BY <1>2, AddrsFinite, FS_Subset
<1>5. F # {} => Cached # Entries(cur)
  BY DEF Cached
<1>6. F # {} => Cardinality(Cached) > MaxCacheEntries /\ Cardinality(Cached \ F) >= MaxCacheEntries
  BY <1>3, <1>4, <1>5, ResolverAssumption
<1>7. F \in Names!Forgettable(Cached)
  <2> HIDE DEF F
  <2> QED BY <1>1, <1>6, SameCardinality DEF Names!Forgettable
<1> QED BY <1>7

(* Nothing at all may always be forgotten. *)
LEMMA NothingForgotten == {} \in Names!Forgettable(Cached)
BY DEF Names!Forgettable

(* What put does to the abstract answers: its own address gets the result,   *)
(* and a forgettable set without it is forgotten.                            *)
LEMMA PutIsLearn ==
  ASSUME Inv, NEW a \in Addrs, NEW res \in Result, put(a, res)
  PROVE  \E F \in Names!Forgettable(Cached) :
           /\ a \notin F
           /\ KnownAs' = [b \in Addrs |-> IF b = a THEN res ELSE IF b \in F THEN Absent ELSE KnownAs[b]]
<1> USE DEF Inv
<1>1. CASE Cardinality(Entries(cur)) >= MaxCacheEntries
  <2> DEFINE F == Entries(prev) \ (Entries(cur) \cup {a})
  <2>1. F \in Names!Forgettable(Cached) /\ a \notin F
    BY <1>1, RotationForgets
  <2>2. prev' = cur /\ cur' = [b \in Addrs |-> IF b = a THEN res ELSE Absent]
    BY <1>1 DEF put
  <2>3. ASSUME NEW b \in Addrs
        PROVE  KnownAs'[b] = IF b = a THEN res ELSE IF b \in F THEN Absent ELSE KnownAs[b]
    BY <2>2 DEF KnownAs, Entries, TypeOK, Result, Absent
  <2>4. KnownAs' = [b \in Addrs |-> IF b = a THEN res ELSE IF b \in F THEN Absent ELSE KnownAs[b]]
    BY <2>3, Zenon DEF KnownAs
  <2> HIDE DEF F
  <2> QED BY <2>1, <2>4
<1>2. CASE ~(Cardinality(Entries(cur)) >= MaxCacheEntries)
  <2>1. cur' = [cur EXCEPT ![a] = res] /\ prev' = prev
    BY <1>2, PutAdds
  <2>2. ASSUME NEW b \in Addrs PROVE KnownAs'[b] = IF b = a THEN res ELSE KnownAs[b]
    BY <2>1 DEF KnownAs, TypeOK, Result, Absent
  <2>3. KnownAs' = [b \in Addrs |-> IF b = a THEN res ELSE IF b \in {} THEN Absent ELSE KnownAs[b]]
    BY <2>2 DEF KnownAs
  <2> QED BY <2>3, NothingForgotten
<1> QED BY <1>1, <1>2
(* A hit is a Use, or changes nothing the caller sees. *)
LEMMA LookupHitUses ==
  ASSUME Inv, NEW a \in Addrs, LookupHit(a)
  PROVE  Names!Use(a) \/ UNCHANGED Names!vars
<1>1. CASE UNCHANGED <<cur, prev>>
  BY <1>1 DEF LookupHit, taskVars, Names!vars
<1>2. CASE cur[a] = Absent /\ prev[a] # Absent /\ put(a, prev[a])
  <2>1. prev[a] \in Result /\ a \in Names!Known /\ KnownAs[a] = prev[a]
    BY <1>2, KnownIsCached DEF Inv, TypeOK, Cached, Entries, KnownAs
  <2>2. PICK F \in Names!Forgettable(Cached) :
          /\ a \notin F
          /\ KnownAs' = [b \in Addrs |-> IF b = a THEN prev[a]
                                         ELSE IF b \in F THEN Absent ELSE KnownAs[b]]
    BY <1>2, <2>1, PutIsLearn
  <2>3. KnownAs' = [b \in Addrs |-> IF b \in F THEN Absent ELSE KnownAs[b]]
    BY <2>1, <2>2
  <2>4. F \in Names!Forgettable(Names!Known)
    BY <2>2, KnownIsCached
  <2>5. UNCHANGED <<inflight, ctxDone>>
    BY DEF LookupHit, taskVars
  <2> QED BY <2>1, <2>2, <2>3, <2>4, <2>5, Zenon DEF Names!Use, KnownAs
<1> QED BY <1>1, <1>2 DEF LookupHit, get

(* A miss that starts a query is an Ask: a free slot means fewer than        *)
(* MaxConcurrent questions.                                                  *)
LEMMA LookupMissAsks == ASSUME Inv, NEW a \in Addrs, LookupMiss(a) PROVE Names!Ask(a)
<1>1. Cardinality(inflight) \in Nat
  BY AddrsFinite DEF Inv, TypeOK
<1>2. Cardinality(inflight) < MaxConcurrent
  BY <1>1, ResolverAssumption DEF Inv, TypeOK, SlotsAccounted, LookupMiss
<1> QED
  BY <1>2, KnownIsCached, SameCardinality DEF LookupMiss, cacheVars, Names!Ask

(* resolve's critical section is a Learn, or an Abandon after cancellation.  *)
LEMMA RecordLearns ==
  ASSUME Inv, NEW a \in Addrs, Record(a)
  PROVE  Names!Abandon(a) \/ \E ans \in Result : Names!Learn(a, ans)
<1>1. a \in inflight /\ inflight' = inflight \ {a} /\ UNCHANGED ctxDone
  BY DEF Inv, Record, SlotsAccounted
<1>2. CASE ctxDone
  <2>1. UNCHANGED KnownAs
    BY <1>2 DEF Record, cacheVars, KnownAs
  <2> QED BY <1>1, <1>2, <2>1, Zenon DEF Names!Abandon, KnownAs
<1>3. CASE ~ctxDone
  <2>1. put(a, answer[a]) /\ answer[a] \in Result
    BY <1>3 DEF Record, Inv, TypeOK
  <2>2. PICK F \in Names!Forgettable(Cached) :
          KnownAs' = [b \in Addrs |-> IF b = a THEN answer[a]
                                      ELSE IF b \in F THEN Absent ELSE KnownAs[b]]
    BY <2>1, PutIsLearn
  <2>3. F \in Names!Forgettable(Names!Known)
    BY <2>2, KnownIsCached
  <2>4. PICK ans \in Result : ans = answer[a]
    BY <2>1
  <2>5. Names!Learn(a, ans)
    BY <1>1, <1>3, <2>2, <2>3, <2>4 DEF Names!Learn, KnownAs
  <2> QED BY <2>5
<1> QED BY <1>2, <1>3

(* The resolver implements ReverseNames, whatever the number of addresses,   *)
(* slots and cache entries: an answer does not change while it is known,     *)
(* maxCacheEntries of them are always remembered, at most maxConcurrent      *)
(* questions are asked at once and none is dropped, and a cancelled resolver *)
(* learns nothing.                                                           *)
THEOREM ResolverImplementsNames == Spec => ImplementsNames
<1>1. Init => Names!Init
  BY DEF Init, Names!Init
<1>2. Inv /\ [Next]_vars => [Names!Next]_(Names!vars)
  <2> SUFFICES ASSUME Inv, [Next]_vars PROVE [Names!Next]_(Names!vars)
    OBVIOUS
  <2>1. ASSUME NEW a \in Addrs, Lookup(a) PROVE [Names!Next]_(Names!vars)
    BY <2>1, LookupHitUses, LookupMissAsks DEF Lookup, Names!Next
  <2>2. ASSUME NEW a \in Addrs, Record(a) PROVE [Names!Next]_(Names!vars)
    BY <2>2, RecordLearns DEF Names!Next
  <2>3. ASSUME Cancel PROVE Names!Stop
    <3>1. UNCHANGED <<cur, prev, inflight>>
      BY <2>3 DEF Cancel, cacheVars, taskVars
    <3>2. ctxDone' = TRUE
      BY <2>3, Zenon DEF Cancel
    <3>3. UNCHANGED KnownAs
      BY <3>1 DEF KnownAs
    <3> QED BY <3>1, <3>2, <3>3, Zenon DEF Names!Stop, KnownAs
  <2>4. ASSUME NEW a \in Addrs, NEW res \in Result,
               Answer(a, res) \/ Expire(a) \/ SelectAnswer(a) \/ SelectDone(a)
        PROVE  UNCHANGED Names!vars
    BY <2>4, Zenon DEF Answer, Expire, SelectAnswer, SelectDone, cacheVars, Names!vars
  <2>5. ASSUME Release \/ StrayFinish \/ UNCHANGED vars PROVE UNCHANGED Names!vars
    BY <2>5, Zenon DEF Release, StrayFinish, vars, cacheVars, taskVars, Names!vars
  <2> QED BY <2>1, <2>2, <2>3, <2>4, <2>5 DEF Next, Names!Next, Result
<1> QED BY <1>1, <1>2, Invariance, PTL DEF Spec, ImplementsNames, Names!Spec
=============================================================================
