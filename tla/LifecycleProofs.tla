-------------------------- MODULE LifecycleProofs ---------------------------
(***************************************************************************)
(* Proofs about the two programs that run the engine.  The receiver's      *)
(* engine lives as long as it is referenced, for either choice of signals, *)
(* wherever in the start the collector gives up and however its goroutines *)
(* are scheduled; a failure that ends a session of the terminal program is *)
(* reported, for any interfaces.  Then what the receiver draws from while  *)
(* it is up: the rings its ticks drain hold the latest events, for any     *)
(* capacity, and what its consumer last accepted of a series is current.   *)
(***************************************************************************)
EXTENDS MCLifecycle, Sequences, FiniteSetTheorems, TLAPS

-----------------------------------------------------------------------------
(* The receiver. *)

(* The signals whose Shutdown has given its reference back. *)
Entered == Cardinality(down) + (IF stopping = Idle THEN 0 ELSE 1)

(* The collector creates every signal before it starts one, and starts none  *)
(* once it has begun to shut down.                                           *)
Phased ==
  /\ phase # "create" => created = Signals
  /\ phase # "stop" => down = {} /\ stopping = Idle

(* refs counts the Starts that succeeded and the Shutdowns called, also      *)
(* those of signals that never started.                                      *)
RefsCounted ==
  /\ refs = Cardinality(up) - Entered
  /\ up # {} => cancel
  /\ stopping = Idle \/ (stopping.signal \in created \ down /\ stopping.at # "out")

(* With a reference left the engine works; without one nothing of it is      *)
(* left, except for a Shutdown that is waiting for it.                       *)
EngineMatchesRefs ==
  /\ refs > 0 => /\ ~cancelled /\ "collect" \in alive
                 /\ "logs" \in Signals => "forwardLogs" \in alive
  /\ alive = {} \/ refs > 0 \/ stopping.at = "wait"
  /\ {"capture", "source"} \cap alive # {} => "wait" \in alive

(* The inductive invariant. *)
Inv == TypeOK /\ Phased /\ RefsCounted /\ EngineMatchesRefs

LEMMA FiniteSignals ==
  /\ IsFiniteSet(Signals) /\ Cardinality(Signals) \in Nat
  /\ \A S \in SUBSET Signals : /\ IsFiniteSet(S) /\ Cardinality(S) \in Nat
                               /\ Cardinality(S) <= Cardinality(Signals)
<1>1. IsFiniteSet({"metrics", "logs"})
  <2>1. IsFiniteSet({} \cup {"metrics"})
    BY FS_EmptySet, FS_AddElement
  <2>2. IsFiniteSet(({} \cup {"metrics"}) \cup {"logs"})
    BY <2>1, FS_AddElement
  <2>3. ({} \cup {"metrics"}) \cup {"logs"} = {"metrics", "logs"}
    OBVIOUS
  <2> QED BY <2>2, <2>3
<1>2. IsFiniteSet(Signals)
  BY <1>1, FS_Subset, ReceiverAssumption, Zenon
<1> QED BY <1>2, FS_Subset, FS_CardinalityType

LEMMA AddSignal ==
  ASSUME NEW S \in SUBSET Signals, NEW s \in Signals
  PROVE  Cardinality(S \cup {s}) = IF s \in S THEN Cardinality(S) ELSE Cardinality(S) + 1
BY FiniteSignals, FS_AddElement

LEMMA NoSignals == Cardinality({}) = 0 /\ \A S \in SUBSET Signals : Cardinality(S) = 0 <=> S = {}
BY FiniteSignals, FS_EmptySet

LEMMA InitInv == ASSUME Init PROVE Inv
<1>1. TypeOK
  <2>1. {cancel, cancelled, failed, ticking} \subseteq BOOLEAN /\ instance \in BOOLEAN
    BY Zenon DEF Init
  <2>2. refs \in -Cardinality(Signals) .. Cardinality(Signals)
    BY FiniteSignals DEF Init
  <2> QED BY <2>1, <2>2 DEF Init, TypeOK, Idle, Nobody
<1>2. Phased /\ RefsCounted /\ EngineMatchesRefs
  BY NoSignals DEF Init, Phased, RefsCounted, EngineMatchesRefs, Entered
<1> QED BY <1>1, <1>2 DEF Inv

(* refs stays within the number of signals: no signal starts or shuts down   *)
(* twice.                                                                    *)
LEMMA RefsRange ==
  ASSUME NEW U \in SUBSET Signals, NEW D \in SUBSET Signals, NEW more \in {0, 1},
         more = 1 => \E s \in Signals : s \notin D
  PROVE  Cardinality(U) - (Cardinality(D) + more) \in -Cardinality(Signals) .. Cardinality(Signals)
<1>1. /\ Cardinality(U) \in Nat /\ Cardinality(U) <= Cardinality(Signals)
      /\ Cardinality(D) \in Nat /\ Cardinality(D) <= Cardinality(Signals)
      /\ Cardinality(Signals) \in Nat
  BY FiniteSignals
<1>2. ASSUME NEW s \in Signals, s \notin D PROVE Cardinality(D) + 1 <= Cardinality(Signals)
  <2>1. Cardinality(D \cup {s}) = Cardinality(D) + 1
    BY <1>2, AddSignal
  <2>2. D \cup {s} \in SUBSET Signals
    OBVIOUS
  <2> QED BY <2>1, <2>2, FiniteSignals
<1> QED BY <1>1, <1>2

(* The Boolean fields, which the steps below set or leave alone. *)
Flags == {cancel, cancelled, failed, ticking} \subseteq BOOLEAN /\ instance \in BOOLEAN

(* Everything else of TypeOK and of the invariant. *)
LEMMA InvFrom ==
  ASSUME phase' \in {"create", "start", "stop"},
         up' \subseteq attempted', attempted' \subseteq created', down' \subseteq created',
         created' \subseteq Signals, alive' \subseteq Goroutines,
         mu' \in {Nobody, "collect", "Shutdown"},
         stopping' \in [signal: Signals \cup {Nobody}, at: {"out", "wait", "forget"}],
         Flags', Phased', RefsCounted', EngineMatchesRefs'
  PROVE  Inv'
<1> DEFINE more == IF stopping' = Idle THEN 0 ELSE 1
<1>1. up' \in SUBSET Signals /\ down' \in SUBSET Signals
  OBVIOUS
<1>2. more \in {0, 1} /\ (more = 1 => \E s \in Signals : s \notin down')
  BY DEF RefsCounted, Idle
<1>3. refs' = Cardinality(up') - (Cardinality(down') + more)
  BY Zenon DEF RefsCounted, Entered, Idle
<1> HIDE DEF more
<1>4. refs' \in -Cardinality(Signals) .. Cardinality(Signals)
  BY <1>1, <1>2, <1>3, RefsRange
<1> QED BY <1>4, Zenon DEF Inv, TypeOK, Flags

LEMMA CreateInv == ASSUME Inv, NEW s \in Signals, create(s) PROVE Inv'
<1>1. Flags'
  BY Zenon DEF Inv, TypeOK, Flags, create
<1>2. Phased' /\ RefsCounted'
  BY Zenon DEF Inv, Phased, RefsCounted, Entered, create, Idle
<1>3. EngineMatchesRefs'
  BY Zenon DEF Inv, EngineMatchesRefs, create
<1> QED BY <1>1, <1>2, <1>3, InvFrom, Zenon DEF Inv, TypeOK, create

(* A Start in the start phase finds refs at the number of signals up. *)
LEMMA StartInv == ASSUME Inv, NEW s \in Signals, NEW ok \in BOOLEAN, Start(s, ok) PROVE Inv'
<1> USE DEF Inv
<1>1. /\ phase = "start" /\ s \notin attempted /\ attempted' = attempted \cup {s}
      /\ UNCHANGED <<created, down, instance, mu, ticking, stopping>>
      /\ created = Signals /\ down = {} /\ stopping = Idle
  BY Zenon DEF Start, Phased
<1>2. /\ up \in SUBSET Signals /\ s \notin up
      /\ refs = Cardinality(up) /\ Cardinality(up) \in Nat
      /\ Cardinality(up \cup {s}) = Cardinality(up) + 1
  BY <1>1, AddSignal, NoSignals, FiniteSignals DEF TypeOK, RefsCounted, Entered
<1>3. CASE refs + 1 > 1
  <2>1. /\ refs' = refs + 1 /\ up' = up \cup {s} /\ UNCHANGED <<phase, alive>>
        /\ UNCHANGED cancel /\ UNCHANGED cancelled /\ UNCHANGED failed
    BY <1>2, <1>3 DEF Start
  <2>2. Flags'
    BY <1>1, <2>1, Zenon DEF TypeOK, Flags
  <2>3. up # {}
    BY <1>2, <1>3, NoSignals
  <2>4. up' # {} => cancel'
    BY <2>1, <2>3, Zenon DEF RefsCounted
  <2>5. RefsCounted'
    BY <1>1, <1>2, <2>1, <2>4, NoSignals DEF RefsCounted, Entered, Idle
  <2>6. ~cancelled'
    BY <1>2, <1>3, <2>1 DEF EngineMatchesRefs
  <2>7. EngineMatchesRefs'
    BY <1>1, <1>2, <1>3, <2>1, <2>6 DEF EngineMatchesRefs
  <2>8. Phased'
    BY <1>1, <2>1, Zenon DEF Phased, Idle
  <2> QED BY <1>1, <2>1, <2>2, <2>5, <2>7, <2>8, InvFrom, Zenon DEF TypeOK
<1>4. CASE refs + 1 <= 1 /\ ~ok
  <2>1. /\ phase' = "stop" /\ UNCHANGED <<refs, up, alive>>
        /\ UNCHANGED cancel /\ UNCHANGED cancelled /\ UNCHANGED failed
    BY <1>2, <1>4 DEF Start
  <2>2. Flags'
    BY <1>1, <2>1, Zenon DEF TypeOK, Flags
  <2>3. RefsCounted' /\ EngineMatchesRefs'
    BY <1>1, <2>1, Zenon DEF RefsCounted, EngineMatchesRefs, Entered, Idle
  <2>4. Phased'
    BY <1>1, <2>1 DEF Phased
  <2> QED BY <1>1, <2>1, <2>2, <2>3, <2>4, InvFrom, Zenon DEF TypeOK
<1>5. CASE refs + 1 <= 1 /\ ok
  <2>1. /\ refs' = refs + 1 /\ up' = up \cup {s} /\ alive' = Launched /\ UNCHANGED phase
        /\ cancel' = TRUE /\ cancelled' = FALSE /\ failed' = FALSE
    BY <1>2, <1>5 DEF Start
  <2>2. Flags'
    BY <1>1, <2>1, Zenon DEF TypeOK, Flags
  <2>3. cancel' /\ ~cancelled'
    BY <2>1
  <2>4. RefsCounted'
    BY <1>1, <1>2, <2>1, <2>3, NoSignals DEF RefsCounted, Entered, Idle
  <2>5. EngineMatchesRefs'
    BY <1>1, <1>2, <2>1, <2>3 DEF EngineMatchesRefs, Launched
  <2>6. Phased'
    BY <1>1, <2>1, Zenon DEF Phased, Idle
  <2>7. alive' \subseteq Goroutines
    BY <2>1 DEF Launched, Goroutines
  <2> QED BY <1>1, <2>1, <2>2, <2>4, <2>5, <2>6, <2>7, InvFrom, Zenon DEF TypeOK
<1> QED BY <1>2, <1>3, <1>4, <1>5

(* The last reference cancels, and only the last: Shutdown waits for the     *)
(* engine exactly when it gives up the only reference left.                  *)
LEMMA ShutdownInv == ASSUME Inv, NEW s \in Signals, Shutdown(s) PROVE Inv'
<1> USE DEF Inv
<1>1. /\ phase = "stop" /\ stopping = Idle /\ s \in created \ down /\ refs' = refs - 1
      /\ UNCHANGED <<phase, created, attempted, up, down, alive, mu>>
      /\ created = Signals
  BY Zenon DEF Shutdown, Phased
<1>2. /\ refs \in Int /\ refs = Cardinality(up) - Cardinality(down)
      /\ Cardinality(up) \in Nat /\ Cardinality(down) \in Nat
  BY <1>1, FiniteSignals DEF TypeOK, RefsCounted, Entered
<1>3. alive = {} \/ refs > 0
  BY <1>1, Zenon DEF EngineMatchesRefs, Idle
<1>4. refs > 0 => cancel
  BY <1>2, NoSignals DEF RefsCounted
<1>5. UNCHANGED cancel /\ UNCHANGED instance /\ UNCHANGED ticking
  BY Zenon DEF Shutdown
<1>6. CASE refs - 1 = 0 /\ cancel
  <2>1. /\ stopping' = [signal |-> s, at |-> "wait"]
        /\ cancelled' = TRUE /\ failed' = TRUE
    BY <1>6, Zenon DEF Shutdown
  <2>2. Flags'
    BY <1>5, <2>1, Zenon DEF TypeOK, Flags
  <2>3. up' # {} => cancel'
    BY <1>1, <1>5, Zenon DEF RefsCounted
  <2>4. stopping' # Idle /\ stopping'.signal = s /\ stopping'.at = "wait"
    BY <2>1 DEF Idle
  <2>5. RefsCounted'
    BY <1>1, <1>2, <2>3, <2>4 DEF RefsCounted, Entered, Idle
  <2>6. EngineMatchesRefs'
    BY <1>1, <1>2, <1>6, <2>4 DEF EngineMatchesRefs
  <2>7. Phased'
    BY <1>1 DEF Phased
  <2>8. stopping' \in [signal: Signals \cup {Nobody}, at: {"out", "wait", "forget"}]
    BY <2>1
  <2> QED BY <1>1, <2>2, <2>5, <2>6, <2>7, <2>8, InvFrom, Zenon DEF TypeOK
<1>7. CASE ~(refs - 1 = 0 /\ cancel)
  <2>1. /\ stopping' = [signal |-> s, at |-> "forget"]
        /\ UNCHANGED cancelled /\ UNCHANGED failed
    BY <1>7, Zenon DEF Shutdown
  <2>2. Flags'
    BY <1>5, <2>1, Zenon DEF TypeOK, Flags
  <2>3. up' # {} => cancel'
    BY <1>1, <1>5, Zenon DEF RefsCounted
  <2>4. stopping' # Idle /\ stopping'.signal = s /\ stopping'.at = "forget"
    BY <2>1 DEF Idle
  <2>5. RefsCounted'
    BY <1>1, <1>2, <2>3, <2>4 DEF RefsCounted, Entered, Idle
  <2>6. refs # 1
    BY <1>2, <1>4, <1>7
  <2>7. refs' > 0 => ~cancelled'
    BY <1>1, <1>2, <2>1 DEF EngineMatchesRefs
  <2>8. EngineMatchesRefs'
    BY <1>1, <1>2, <1>3, <2>6, <2>7 DEF EngineMatchesRefs
  <2>9. Phased'
    BY <1>1 DEF Phased
  <2>10. stopping' \in [signal: Signals \cup {Nobody}, at: {"out", "wait", "forget"}]
    BY <2>1
  <2> QED BY <1>1, <2>2, <2>5, <2>8, <2>9, <2>10, InvFrom, Zenon DEF TypeOK
<1> QED BY <1>6, <1>7

(* wg.Wait returns when the last goroutine is gone: capture and source went  *)
(* before the goroutine that waits for them.                                 *)
LEMMA WaitInv == ASSUME Inv, wait PROVE Inv'
<1> USE DEF Inv
<1>1. /\ stopping.at = "wait" /\ stopping' = [stopping EXCEPT !.at = "forget"]
      /\ UNCHANGED <<phase, created, attempted, up, down, refs, alive, mu>>
      /\ {"wait", "collect", "forwardLogs"} \cap alive = {}
  BY DEF wait
<1>2. Flags'
  BY Zenon DEF TypeOK, Flags, wait
<1>3. UNCHANGED cancel /\ UNCHANGED cancelled
  BY DEF wait
<1>4. alive = {}
  BY <1>1 DEF EngineMatchesRefs, TypeOK, Goroutines
<1>5. ~(refs > 0)
  BY <1>4 DEF EngineMatchesRefs
<1>6. stopping # Idle /\ stopping' # Idle /\ stopping'.signal = stopping.signal
      /\ stopping'.at = "forget"
      /\ stopping' \in [signal: Signals \cup {Nobody}, at: {"out", "wait", "forget"}]
  BY <1>1 DEF Idle, TypeOK
<1>7. up' # {} => cancel'
  BY <1>1, <1>3, Zenon DEF RefsCounted
<1>8. RefsCounted'
  BY <1>1, <1>6, <1>7 DEF RefsCounted, Entered, Idle
<1>9. EngineMatchesRefs'
  BY <1>1, <1>4, <1>5 DEF EngineMatchesRefs
<1>10. Phased'
  BY <1>1, <1>6 DEF Phased
<1> QED BY <1>1, <1>2, <1>6, <1>8, <1>9, <1>10, InvFrom, Zenon DEF TypeOK

LEMMA ForgetInv == ASSUME Inv, forget PROVE Inv'
<1> USE DEF Inv
<1>1. /\ stopping.at = "forget" /\ down' = down \cup {stopping.signal} /\ stopping' = Idle
      /\ mu' = Nobody /\ UNCHANGED <<phase, created, attempted, up, refs, alive>>
  BY Zenon DEF forget
<1>2. instance' \in BOOLEAN
  BY Zenon DEF forget
<1>3. Flags'
  BY <1>2, Zenon DEF TypeOK, Flags, forget
<1>4. UNCHANGED cancel /\ UNCHANGED cancelled
  BY DEF forget
<1>5. stopping # Idle /\ stopping.signal \in created \ down
  BY <1>1 DEF RefsCounted, Idle
<1>6. Cardinality(down') = Cardinality(down) + 1
  BY <1>1, <1>5, AddSignal, Zenon DEF TypeOK
<1>7. up' # {} => cancel'
  BY <1>1, <1>4, Zenon DEF RefsCounted
<1>8. RefsCounted'
  BY <1>1, <1>5, <1>6, <1>7, FiniteSignals DEF RefsCounted, Entered, Idle, TypeOK
<1>9. EngineMatchesRefs'
  BY <1>1, <1>4, Zenon DEF EngineMatchesRefs, Idle
<1>10. Phased'
  BY <1>1, <1>5 DEF Phased
<1>11. stopping' \in [signal: Signals \cup {Nobody}, at: {"out", "wait", "forget"}]
  BY <1>1 DEF Idle
<1> QED BY <1>1, <1>3, <1>5, <1>8, <1>9, <1>10, <1>11, InvFrom, Zenon DEF TypeOK

(* The goroutines of the engine return in the order that Shutdown relies on. *)
LEMMA GoroutineInv ==
  ASSUME Inv, \/ WaitReturns \/ collect
              \/ \E g \in Goroutines : RunReturns(g) \/ Done(g)
  PROVE  Inv'
<1> USE DEF Inv
<1>1. /\ UNCHANGED <<phase, created, attempted, up, down, refs, stopping>>
      /\ UNCHANGED cancel /\ UNCHANGED cancelled /\ UNCHANGED instance
      /\ alive' \subseteq alive /\ mu' \in {mu, Nobody, "collect"}
  BY Zenon DEF WaitReturns, collect, RunReturns, Done, engine
<1>2. failed' \in BOOLEAN /\ ticking' \in BOOLEAN
  <2>1. failed \in BOOLEAN /\ ticking \in BOOLEAN
    BY Zenon DEF TypeOK
  <2>2. (failed' = failed \/ failed' = TRUE) /\ (ticking' = ticking \/ ticking' = TRUE \/ ticking' = FALSE)
    BY Zenon DEF WaitReturns, collect, RunReturns, Done, engine
  <2> QED BY <2>1, <2>2, Zenon
<1>3. Flags'
  BY <1>1, <1>2, Zenon DEF TypeOK, Flags
<1>4. up' # {} => cancel'
  BY <1>1, Zenon DEF RefsCounted
<1>5. RefsCounted' /\ Phased'
  BY <1>1, <1>4, Zenon DEF RefsCounted, Entered, Phased, Idle
<1>6. refs > 0 =>
        "collect" \in alive' /\ ("logs" \in Signals => "forwardLogs" \in alive')
  BY Zenon DEF EngineMatchesRefs, WaitReturns, collect, RunReturns, Done
<1>7. {"capture", "source"} \cap alive' # {} => "wait" \in alive'
  BY Zenon DEF EngineMatchesRefs, WaitReturns, collect, RunReturns, Done
<1>8. EngineMatchesRefs'
  BY <1>1, <1>6, <1>7 DEF EngineMatchesRefs
<1> QED BY <1>1, <1>3, <1>5, <1>8, InvFrom, Zenon DEF TypeOK

LEMMA NextInv == ASSUME Inv, [Next]_vars PROVE Inv'
<1>1. CASE Stop \/ UNCHANGED vars
  <2>1. /\ UNCHANGED <<created, attempted, up, down, refs, alive, mu, stopping>>
        /\ UNCHANGED cancel /\ UNCHANGED cancelled
        /\ phase' \in {"create", "start", "stop"} /\ (phase' # phase => phase = "start")
    BY <1>1, Zenon DEF Stop, vars, Inv, TypeOK
  <2>2. Flags'
    BY <1>1, Zenon DEF Inv, TypeOK, Flags, Stop, vars
  <2>3. up' # {} => cancel'
    BY <2>1, Zenon DEF Inv, RefsCounted
  <2>4. RefsCounted' /\ EngineMatchesRefs'
    BY <2>1, <2>3, Zenon DEF Inv, RefsCounted, Entered, EngineMatchesRefs, Idle
  <2>5. Phased'
    BY <1>1, Zenon DEF Stop, vars, Inv, Phased, Idle
  <2> QED BY <2>1, <2>2, <2>4, <2>5, InvFrom, Zenon DEF Inv, TypeOK
<1> QED BY <1>1, CreateInv, StartInv, ShutdownInv, WaitInv, ForgetInv, GoroutineInv DEF Next

(* The invariant of the receiver. *)
THEOREM Invariance == Spec => []Inv
BY InitInv, NextInv, PTL DEF Spec

(* The shared engine lives exactly as long as it is referenced: while more   *)
(* signals have started than were shut down it collects, and once all were   *)
(* shut down nothing of it runs, also when a signal never started (Start,    *)
(* Shutdown, refs).                                                          *)
THEOREM EngineIsReferenced == Spec => []EngineLifetime
<1>1. Inv => EngineLifetime
  <2> SUFFICES ASSUME Inv PROVE EngineLifetime
    OBVIOUS
  <2>1. EngineWhileReferenced
    BY FiniteSignals DEF Inv, TypeOK, RefsCounted, Entered, EngineMatchesRefs, EngineWhileReferenced
  <2>2. NothingAfterShutdown
    <3> SUFFICES ASSUME phase = "stop", down = Signals PROVE alive = {}
      BY DEF NothingAfterShutdown
    <3>1. stopping = Idle
      BY Zenon DEF Inv, RefsCounted, TypeOK
    <3>2. refs <= 0
      BY <3>1, FiniteSignals DEF Inv, RefsCounted, Entered, TypeOK
    <3>3. refs \in Int
      BY FiniteSignals DEF Inv, TypeOK
    <3> QED BY <3>1, <3>2, <3>3 DEF Inv, EngineMatchesRefs, Idle
  <2> QED BY <2>1, <2>2 DEF EngineLifetime, Inv
<1> QED BY <1>1, Invariance, PTL

(* An engine is launched only when nothing is left of an earlier one         *)
(* (Start).                                                                  *)
THEOREM NeverTwoEngines == Spec => OneEngine
<1>1. Inv /\ [Next]_vars => [alive' \subseteq alive \/ alive = {}]_vars
  <2> SUFFICES ASSUME Inv, Next PROVE alive' \subseteq alive \/ alive = {}
    OBVIOUS
  <2>1. ASSUME NEW s \in Signals, NEW ok \in BOOLEAN, Start(s, ok)
        PROVE  alive' \subseteq alive \/ alive = {}
    <3>1. refs \in Int /\ stopping = Idle
      BY <2>1, FiniteSignals DEF Start, Inv, TypeOK, Phased
    <3> QED BY <2>1, <3>1 DEF Start, Inv, EngineMatchesRefs, Idle
  <2>2. CASE \E s \in Signals : create(s) \/ Shutdown(s)
    BY <2>2, Zenon DEF create, Shutdown
  <2>3. CASE Stop \/ wait \/ forget \/ WaitReturns \/ collect
    BY <2>3, Zenon DEF Stop, wait, forget, WaitReturns, collect
  <2>4. CASE \E g \in Goroutines : RunReturns(g) \/ Done(g)
    BY <2>4 DEF RunReturns, Done
  <2> QED BY <2>1, <2>2, <2>3, <2>4 DEF Next
<1> QED BY <1>1, Invariance, PTL DEF Spec, OneEngine

-----------------------------------------------------------------------------
(* The terminal program. *)

(* Before the start nothing has run and nothing has ended. *)
Unstarted ==
  /\ stage = "start" => ret = [p \in Session!Parts |-> "off"] /\ ~ctxDone /\ leaving = "none"
  /\ ret["capture"] = "off" => ifaces = {}

(* The errors with which the terminal interface ends the context itself. *)
TuiOwn == {"tuiFailed", "interrupted"}

(* The errgroup's first error is what ended the context, or came after it,   *)
(* and some part returned it.                                                *)
FirstErrorKept ==
  /\ ctxDone \/ (first = Nil /\ cause = "none")
  /\ cause \in Session!Errors \ TuiOwn => first = cause
  /\ first # Nil => \E p \in Session!Parts : ret[p] = first

(* The terminal interface ends the context before its error reaches the      *)
(* group; once it has, the group has a first error.                          *)
LeavingKept ==
  /\ leaving # "none" => ctxDone /\ ret["tui"] \in {"running", leaving}
  /\ cause \in TuiOwn => leaving = cause
  /\ leaving \in Session!Errors /\ ret["tui"] # "running" => first # Nil

(* After run has returned nothing runs, and its result is the first error,   *)
(* unless that is how a session is meant to end.                             *)
ExitReports ==
  stage = "exited" =>
    /\ \A p \in Session!Parts : ret[p] # "running"
    /\ \/ result = "startFailed"
       \/ result = IF first \in Session!Shutdowns THEN Nil ELSE first

(* The end of Capturer.Run on a single interface ends the context. *)
SingleEnds ==
  ret["capture"] \notin {"running", "off"} /\ Cardinality(ifaces) = 1 => ctxDone

(* The inductive invariant. *)
SessionInv ==
  /\ Session!TypeOK /\ Session!HandlesReleased
  /\ Unstarted /\ FirstErrorKept /\ LeavingKept /\ ExitReports /\ SingleEnds

LEMMA NilIsNoError ==
  /\ Nil \notin Session!Errors /\ Nil # "off" /\ Nil # "running" /\ Nil # "none"
  /\ Nil # "startFailed"
  /\ "none" \notin Session!Errors /\ "running" \notin Session!Errors /\ "off" \notin Session!Errors
  /\ TuiOwn \subseteq Session!Errors
BY SessionAssumption DEF Session!ProgramAssumption, Session!Errors, Session!Shutdowns, TuiOwn

LEMMA SessionInitInv == ASSUME Session!Init PROVE SessionInv
<1>1. ctxDone \in BOOLEAN /\ ~ctxDone
  BY Zenon DEF Session!Init
<1>2. Session!TypeOK
  BY <1>1 DEF Session!Init, Session!TypeOK
<1>3. /\ Session!HandlesReleased /\ Unstarted /\ FirstErrorKept /\ LeavingKept
      /\ ExitReports /\ SingleEnds
  BY <1>1, NilIsNoError DEF Session!Init, Session!HandlesReleased, Unstarted, FirstErrorKept,
     LeavingKept, ExitReports, SingleEnds, Session!Parts
<1> QED BY <1>2, <1>3 DEF SessionInv

(* A goroutine of the errgroup returns: its error is kept if it is the first, *)
(* and then it is what ended the context.                                     *)
LEMMA ReturnsInv ==
  ASSUME SessionInv, NEW p \in Session!Parts, NEW e \in Session!Errors \cup {Nil},
         Session!Returns(p, e), UNCHANGED handle,
         p = "capture" => /\ \A i \in ifaces : Session!Ended(i)
                          /\ Cardinality(ifaces) = 1 => e # Nil,
         p = "tui" => leaving # "none" /\ e = leaving,
         p # "tui" => e \notin TuiOwn
  PROVE  SessionInv'
<1> USE NilIsNoError DEF SessionInv
<1>1. /\ ret[p] = "running" /\ ret' = [ret EXCEPT ![p] = e]
      /\ first' = IF first = Nil THEN e ELSE first
      /\ UNCHANGED <<stage, ifaces, leaving, result, handle>>
  BY Zenon DEF Session!Returns
<1>2. ctxDone' = (ctxDone \/ e # Nil)
  BY Zenon DEF Session!Returns
<1>3. /\ ctxDone' \in BOOLEAN /\ (ctxDone => ctxDone') /\ (e # Nil => ctxDone')
      /\ (ctxDone' => ctxDone \/ e # Nil)
  BY <1>2, Zenon
<1>4. /\ ctxDone => cause' = cause
      /\ ~ctxDone /\ e = Nil => cause' = cause
      /\ ~ctxDone /\ e # Nil => cause' = e
  BY Zenon DEF Session!Returns
<1>5. /\ ret \in [Session!Parts -> {"off", "running", Nil} \cup Session!Errors]
      /\ first \in Session!Errors \cup {Nil} /\ stage \in {"start", "wait", "exited"}
      /\ ret' \in [Session!Parts -> {"off", "running", Nil} \cup Session!Errors]
      /\ ret'[p] = e /\ \A q \in Session!Parts : q # p => ret'[q] = ret[q]
  BY <1>1, Zenon DEF Session!TypeOK
<1>6. stage = "wait"
  BY <1>1, <1>5, Zenon DEF Unstarted, ExitReports
<1>7. Session!TypeOK'
  BY <1>1, <1>3, <1>4, <1>5, Zenon DEF Session!TypeOK
<1>8. FirstErrorKept'
  <2>1. CASE ctxDone
    <3>1. ctxDone' /\ cause' = cause
      BY <1>3, <1>4, <2>1
    <3>2. cause' \in Session!Errors \ TuiOwn => first' = cause'
      BY <1>1, <3>1, Zenon DEF FirstErrorKept
    <3>3. first' # Nil => \E q \in Session!Parts : ret'[q] = first'
      BY <1>1, <1>5, Zenon DEF FirstErrorKept
    <3> QED BY <3>1, <3>2, <3>3 DEF FirstErrorKept
  <2>2. CASE ~ctxDone
    <3>1. first = Nil /\ cause = "none" /\ first' = e
      BY <1>1, <2>2, Zenon DEF FirstErrorKept
    <3>2. CASE e = Nil
      BY <1>4, <2>2, <3>1, <3>2 DEF FirstErrorKept
    <3>3. CASE e # Nil
      BY <1>3, <1>4, <1>5, <2>2, <3>1, <3>3 DEF FirstErrorKept
    <3> QED BY <3>2, <3>3
  <2> QED BY <2>1, <2>2
<1>9. Session!HandlesReleased'
  BY <1>1, <1>5, Zenon DEF Session!HandlesReleased, Session!Ended, Session!Parts
<1>10. Unstarted'
  BY <1>1, <1>5, <1>6, Zenon DEF Unstarted, Session!Parts
<1>11. ExitReports'
  BY <1>1, <1>6, Zenon DEF ExitReports
<1>12. SingleEnds'
  BY <1>1, <1>3, <1>5, Zenon DEF SingleEnds, Session!Parts
<1>13. LeavingKept'
  <2>1. "tui" \in Session!Parts
    BY DEF Session!Parts
  <2>2. leaving' # "none" => ctxDone' /\ ret'["tui"] \in {"running", leaving'}
    BY <1>1, <1>3, <1>5, <2>1, Zenon DEF LeavingKept
  <2>3. p = "tui" => ctxDone
    BY Zenon DEF LeavingKept
  <2>4. cause' \in TuiOwn => leaving' = cause'
    BY <1>1, <1>4, <2>3, Zenon DEF LeavingKept
  <2>5. leaving' \in Session!Errors /\ ret'["tui"] # "running" => first' # Nil
    BY <1>1, <1>5, <2>1, Zenon DEF LeavingKept
  <2> QED BY <2>2, <2>4, <2>5, Zenon DEF LeavingKept
<1> QED BY <1>7, <1>8, <1>9, <1>10, <1>11, <1>12, <1>13

LEMMA SameCardinality == ASSUME NEW S PROVE Session!Cardinality(S) = Cardinality(S)
BY DEF Cardinality, Session!Cardinality

(* Capturer.Run returns an error unless it was best-effort. *)
LEMMA RunInv == ASSUME SessionInv, Session!Run PROVE SessionInv'
<1>1. Session!Outcome \in Session!Errors \cup {Nil}
  BY DEF Session!Outcome, Session!Errors, Session!Shutdowns
<1>2. Cardinality(ifaces) = 1 => Session!Outcome # Nil
  BY SameCardinality, NilIsNoError
  DEF Session!Outcome, Session!bestEffort, Session!Errors, Session!Shutdowns
<1>3. PICK e \in Session!Errors \cup {Nil} : e = Session!Outcome
  BY <1>1
<1>4. /\ Session!Returns("capture", e) /\ UNCHANGED handle
      /\ \A i \in ifaces : Session!Ended(i)
  BY <1>3 DEF Session!Run, Session!Returns
<1>5. "capture" \in Session!Parts /\ "capture" # "tui"
  BY DEF Session!Parts
<1>6. e \notin TuiOwn
  BY <1>3, NilIsNoError DEF Session!Outcome, TuiOwn
<1> QED BY <1>2, <1>3, <1>4, <1>5, <1>6, ReturnsInv

(* The other parts return, and Capturer.Run before it opens an interface. *)
LEMMA PartInv ==
  ASSUME SessionInv, NEW e \in Session!Errors \cup {Nil},
         Session!RunEarly(e) \/ Session!Source(e) \/ Session!capturePprof(e)
  PROVE  SessionInv'
<1>1. e \notin TuiOwn
  BY NilIsNoError DEF Session!RunEarly, Session!Source, Session!capturePprof, TuiOwn
<1>2. CASE Session!RunEarly(e)
  <2>1. ifaces = {} /\ Session!Returns("capture", e) /\ UNCHANGED handle
    BY <1>2, Zenon DEF Session!RunEarly
  <2>2. Cardinality(ifaces) # 1
    BY <2>1, FS_EmptySet
  <2>3. "capture" \in Session!Parts /\ "capture" # "tui"
    BY DEF Session!Parts
  <2> QED BY <1>1, <2>1, <2>2, <2>3, ReturnsInv
<1>3. CASE Session!Source(e) \/ Session!capturePprof(e)
  <2>1. \E p \in Session!Parts : p \notin {"capture", "tui"} /\ Session!Returns(p, e) /\ UNCHANGED handle
    BY <1>3 DEF Session!Source, Session!capturePprof, Session!Parts
  <2> QED BY <1>1, <2>1, ReturnsInv
<1> QED BY <1>2, <1>3

(* The terminal interface's error reaches the group. *)
LEMMA TuiReturnsInv == ASSUME SessionInv, Session!TuiReturns PROVE SessionInv'
<1>1. leaving # "none" /\ Session!Returns("tui", leaving) /\ UNCHANGED handle
  BY Zenon DEF Session!TuiReturns
<1>2. leaving \in Session!Errors \cup {Nil}
  BY <1>1, Zenon DEF SessionInv, Session!TypeOK
<1>3. "tui" \in Session!Parts /\ "tui" # "capture"
  BY DEF Session!Parts
<1>4. PICK e \in Session!Errors \cup {Nil} : e = leaving
  BY <1>2
<1> QED BY <1>1, <1>3, <1>4, ReturnsInv

LEMMA LaunchInv ==
  ASSUME SessionInv, NEW b \in BOOLEAN, Session!Launch(b)
  PROVE  SessionInv'
<1> USE NilIsNoError DEF SessionInv
<1>1. /\ stage = "start" /\ stage' = "wait"
      /\ ret' = [p \in Session!Parts |-> IF p = "pprof" /\ ~b THEN Nil ELSE "running"]
      /\ UNCHANGED <<ifaces, handle, leaving, first, result, cause>> /\ UNCHANGED ctxDone
  BY Zenon DEF Session!Launch
<1>2. ctxDone' \in BOOLEAN /\ ~ctxDone /\ leaving = "none"
  BY <1>1, Zenon DEF Session!TypeOK, Unstarted
<1>3. Session!TypeOK'
  BY <1>1, <1>2, Zenon DEF Session!TypeOK
<1>4. ret'["capture"] = "running"
  BY <1>1 DEF Session!Parts
<1>5. FirstErrorKept' /\ LeavingKept'
  BY <1>1, <1>2 DEF FirstErrorKept, LeavingKept, TuiOwn
<1> QED BY <1>1, <1>3, <1>4, <1>5, Zenon
  DEF Session!HandlesReleased, Unstarted, ExitReports, SingleEnds

(* Capturer.Run has its interfaces, and none of them is open yet. *)
LEMMA ResolveInv == ASSUME SessionInv, NEW I \in SUBSET Interfaces, Session!Resolve(I) PROVE SessionInv'
<1> USE NilIsNoError DEF SessionInv
<1>1. /\ UNCHANGED <<stage, handle, ret, leaving, first, result, cause>> /\ UNCHANGED ctxDone
      /\ ifaces' = I /\ ret["capture"] = "running"
  BY Zenon DEF Session!Resolve, Session!parts
<1>2. ctxDone' \in BOOLEAN /\ ctxDone' = ctxDone
  BY <1>1, Zenon DEF Session!TypeOK
<1>3. Session!TypeOK'
  BY <1>1, <1>2, Zenon DEF Session!TypeOK
<1> QED BY <1>1, <1>2, <1>3
  DEF Session!HandlesReleased, Unstarted, FirstErrorKept, LeavingKept, ExitReports, SingleEnds

(* A handle of a running capture is opened, or an open one ends. *)
LEMMA HandleInv ==
  ASSUME SessionInv, NEW i \in Interfaces, NEW ok \in BOOLEAN,
         Session!Open(i, ok) \/ Session!captureOn(i, ok)
  PROVE  SessionInv'
<1> USE NilIsNoError DEF SessionInv
<1>1. UNCHANGED <<stage, ifaces, ret, leaving, first, result, cause>> /\ UNCHANGED ctxDone
  BY Zenon DEF Session!Open, Session!captureOn, Session!parts
<1>2. ctxDone' \in BOOLEAN /\ ctxDone' = ctxDone
  BY <1>1, Zenon DEF Session!TypeOK
<1>3. /\ handle' \in [Interfaces -> {"closed", "reading", "unopened", "failed", "canceled"}]
      /\ \A j \in Interfaces : j # i => handle'[j] = handle[j]
      /\ ret["capture"] = "running" \/ handle[i] = "reading"
  BY Zenon DEF Session!Open, Session!captureOn, Session!TypeOK
<1>4. Session!TypeOK'
  BY <1>1, <1>2, <1>3, Zenon DEF Session!TypeOK
<1>5. Session!HandlesReleased'
  BY <1>1, <1>3, Zenon DEF Session!HandlesReleased, Session!Ended, Session!TypeOK
<1> QED BY <1>1, <1>2, <1>4, <1>5
  DEF Unstarted, FirstErrorKept, LeavingKept, ExitReports, SingleEnds

(* The signal and the terminal interface end the context before any error is *)
(* recorded for it.                                                          *)
LEMMA EndInv ==
  ASSUME SessionInv, Session!Signal \/ \E e \in Session!Errors \cup {Nil} : Session!TuiEnds(e)
  PROVE  SessionInv'
<1> USE NilIsNoError DEF SessionInv
<1>1. ctxDone' = TRUE /\ UNCHANGED <<stage, ifaces, handle, ret, first, result>>
  BY Zenon DEF Session!TuiEnds, Session!Signal
<1>2. ctxDone' \in BOOLEAN /\ ctxDone'
  BY <1>1, Zenon
<1>3. "tui" \in Session!Parts
  BY DEF Session!Parts
<1>4. \/ leaving' = leaving /\ cause' = "signal" /\ ~ctxDone
      \/ /\ leaving = "none" /\ ret["tui"] = "running" /\ leaving' \in Session!Errors \cup {Nil}
         /\ ctxDone => cause' = cause
         /\ ~ctxDone => cause' = "quit" \/ (cause' \in TuiOwn /\ leaving' = cause')
  <2>1. CASE Session!Signal
    BY <2>1, Zenon DEF Session!Signal
  <2>2. ASSUME NEW e \in Session!Errors \cup {Nil}, Session!TuiEnds(e)
        PROVE  /\ leaving = "none" /\ ret["tui"] = "running" /\ leaving' \in Session!Errors \cup {Nil}
               /\ ctxDone => cause' = cause
               /\ ~ctxDone => cause' = "quit" \/ (cause' \in TuiOwn /\ leaving' = cause')
    BY <2>2, Zenon DEF Session!TuiEnds, TuiOwn
  <2> QED BY <2>1, <2>2, Zenon
<1>5. "quit" \notin Session!Errors /\ "signal" \notin Session!Errors
  BY DEF Session!Errors, Session!Shutdowns
<1>6. stage = "wait"
  BY <1>3, Zenon DEF Session!TuiEnds, Session!Signal, Unstarted, ExitReports, Session!TypeOK
<1>7. Session!TypeOK'
  BY <1>1, <1>2, <1>4, Zenon DEF Session!TypeOK
<1>8. FirstErrorKept'
  <2>1. cause' \in Session!Errors \ TuiOwn => cause' = cause
    BY <1>4, <1>5, Zenon
  <2> QED BY <1>1, <1>2, <2>1, Zenon DEF FirstErrorKept
<1>9. LeavingKept'
  <2>1. CASE leaving' = leaving /\ cause' = "signal" /\ ~ctxDone
    BY <1>1, <1>2, <1>5, <2>1, Zenon DEF LeavingKept
  <2>2. CASE leaving = "none" /\ ret["tui"] = "running"
    BY <1>1, <1>2, <1>4, <1>5, <2>2, Zenon DEF LeavingKept
  <2> QED BY <1>4, <2>1, <2>2, Zenon
<1> QED BY <1>1, <1>2, <1>6, <1>7, <1>8, <1>9
  DEF Session!HandlesReleased, Session!Ended, Unstarted, ExitReports, SingleEnds

(* run returns, before it has launched anything or after all has returned. *)
LEMMA ExitInv == ASSUME SessionInv, Session!StartFails \/ Session!Exit PROVE SessionInv'
<1> USE NilIsNoError DEF SessionInv
<1>1. stage' = "exited" /\ UNCHANGED <<ifaces, handle, ret, leaving, first, cause>> /\ UNCHANGED ctxDone
  BY Zenon DEF Session!StartFails, Session!Exit
<1>2. ctxDone' \in BOOLEAN /\ ctxDone' = ctxDone
  BY <1>1, Zenon DEF Session!TypeOK
<1>3. \A p \in Session!Parts : ret[p] # "running"
  BY Zenon DEF Session!StartFails, Session!Exit, Unstarted
<1>4. \/ result' = "startFailed"
      \/ result' = IF first \in Session!Shutdowns THEN Nil ELSE first
  BY Zenon DEF Session!StartFails, Session!Exit, Session!isShutdown
<1>5. Session!TypeOK'
  BY <1>1, <1>2, <1>4, Zenon DEF Session!TypeOK
<1> QED BY <1>1, <1>2, <1>3, <1>4, <1>5
  DEF Session!HandlesReleased, Session!Ended, Unstarted, FirstErrorKept, LeavingKept, ExitReports,
      SingleEnds

LEMMA SessionNextInv == ASSUME SessionInv, [Session!Next]_(Session!vars) PROVE SessionInv'
<1>1. CASE UNCHANGED Session!vars
  <2>1. UNCHANGED <<stage, ifaces, handle, ret, leaving, first, result, cause>> /\ UNCHANGED ctxDone
    BY <1>1 DEF Session!vars
  <2>2. ctxDone' \in BOOLEAN /\ ctxDone' = ctxDone
    BY <2>1, Zenon DEF SessionInv, Session!TypeOK
  <2>3. Session!TypeOK'
    BY <2>1, <2>2, Zenon DEF SessionInv, Session!TypeOK
  <2> QED BY <2>1, <2>2, <2>3 DEF SessionInv, Session!HandlesReleased, Session!Ended,
          Unstarted, FirstErrorKept, LeavingKept, ExitReports, SingleEnds
<1>2. ASSUME NEW e \in Session!Errors \cup {Nil},
             \/ Session!RunEarly(e) \/ Session!Source(e)
             \/ Session!capturePprof(e) \/ Session!TuiEnds(e)
      PROVE  SessionInv'
  BY <1>2, PartInv, EndInv, Zenon
<1>3. CASE \E b \in BOOLEAN : Session!Launch(b)
  BY <1>3, LaunchInv
<1>4. CASE \E i \in Interfaces, ok \in BOOLEAN : Session!Open(i, ok) \/ Session!captureOn(i, ok)
  BY <1>4, HandleInv
<1>5. CASE \E I \in SUBSET Interfaces : Session!Resolve(I)
  BY <1>5, ResolveInv
<1> QED BY <1>1, <1>2, <1>3, <1>4, <1>5, RunInv, TuiReturnsInv, EndInv, ExitInv DEF Session!Next

(* The invariant of a session of the terminal program (run, Capturer.Run). *)
THEOREM SessionInvariance == Session!Spec => []SessionInv
BY SessionInitInv, SessionNextInv, PTL DEF Session!Spec

(* run reports the failure that ended the session (the errgroup,             *)
(* isShutdown), the terminal interface's own unless another part's error was *)
(* recorded first, the failure of the only interface ends it (bestEffort),   *)
(* and Capturer.Run returns only once no handle is read.                     *)
THEOREM FailuresAreReported == Session!Spec => []FailuresSurface
<1>1. SessionInv => FailuresSurface
  <2> SUFFICES ASSUME SessionInv PROVE FailuresSurface
    OBVIOUS
  <2>1. Session!FailureReported
    <3> SUFFICES ASSUME stage = "exited", result # "startFailed"
                 PROVE  /\ cause \in Session!Errors \ (Session!Shutdowns \cup {"tuiFailed"}) => result = cause
                        /\ cause = "tuiFailed" =>
                             \/ result = cause
                             \/ \E p \in Session!Parts \ {"tui"} : ret[p] = first /\ first # Nil
                        /\ result # Nil => \E p \in Session!Parts : ret[p] = result
      BY Zenon DEF Session!FailureReported
    <3>1. result = IF first \in Session!Shutdowns THEN Nil ELSE first
      BY Zenon DEF SessionInv, ExitReports
    <3>2. cause \in Session!Errors \ (Session!Shutdowns \cup {"tuiFailed"}) => result = cause
      BY <3>1 DEF SessionInv, FirstErrorKept, TuiOwn, Session!Shutdowns
    <3>3. ASSUME cause = "tuiFailed"
          PROVE  result = cause \/ \E p \in Session!Parts \ {"tui"} : ret[p] = first /\ first # Nil
      <4>1. "tui" \in Session!Parts /\ "tuiFailed" \in Session!Errors /\ "tuiFailed" \notin Session!Shutdowns
        BY DEF Session!Parts, Session!Errors, Session!Shutdowns
      <4>2. leaving = "tuiFailed" /\ leaving # "none"
        BY <3>3 DEF SessionInv, LeavingKept, TuiOwn
      <4>3. ret["tui"] # "running"
        BY <4>1, Zenon DEF SessionInv, ExitReports
      <4>4. ret["tui"] = "tuiFailed" /\ first # Nil
        BY <4>1, <4>2, <4>3, Zenon DEF SessionInv, LeavingKept
      <4>5. PICK p \in Session!Parts : ret[p] = first
        BY <4>4, Zenon DEF SessionInv, FirstErrorKept
      <4> QED BY <3>1, <3>3, <4>1, <4>4, <4>5
    <3>4. result # Nil => \E p \in Session!Parts : ret[p] = result
      BY <3>1, Zenon DEF SessionInv, FirstErrorKept
    <3> QED BY <3>2, <3>3, <3>4
  <2>2. Session!SingleFailureEnds
    BY SameCardinality DEF SessionInv, SingleEnds, Unstarted, Session!SingleFailureEnds
  <2> QED BY <2>1, <2>2 DEF SessionInv, FailuresSurface
<1> QED BY <1>1, SessionInvariance, PTL

-----------------------------------------------------------------------------
(* The event rings. *)

(* What a ring of capacity cap holds of the events c, drained after the d-th. *)
Latest(c, d, cap) == SubSeq(c, (IF Len(c) - d > cap THEN Len(c) - cap ELSE d) + 1, Len(c))

(* The ring r after push. *)
Pushed(r, e, cap) == Append(IF Len(r) >= cap THEN Tail(r) ELSE r, e)

(* The end of a sequence, element by element. *)
LEMMA EndOf ==
  ASSUME NEW S, NEW c \in Seq(S), NEW n, n = Len(c), NEW a \in Nat, a <= n,
         NEW r, r = SubSeq(c, a + 1, n)
  PROVE  r \in Seq(S) /\ Len(r) = n - a /\ \A i \in 1 .. n - a : r[i] = c[a + i]
OBVIOUS

LEMMA AppendIs ==
  ASSUME NEW S, NEW c \in Seq(S), NEW e \in S, NEW n, n = Len(c), NEW x, x = Append(c, e)
  PROVE  x \in Seq(S) /\ Len(x) = n + 1 /\ x[n + 1] = e /\ \A i \in 1 .. n : x[i] = c[i]
OBVIOUS

LEMMA SameElements ==
  ASSUME NEW S, NEW s \in Seq(S), NEW t \in Seq(S), NEW n, Len(s) = n, Len(t) = n,
         \A i \in 1 .. n : s[i] = t[i]
  PROVE  s = t
OBVIOUS

(* A push onto a full ring drops the oldest event, and only that one. *)
LEMMA PushKeepsLatest ==
  ASSUME NEW S, NEW c \in Seq(S), NEW e \in S, NEW d \in Nat, d <= Len(c), NEW cap \in Nat \ {0}
  PROVE  Pushed(Latest(c, d, cap), e, cap) = Latest(Append(c, e), d, cap)
<1>0. PICK r : r = Latest(c, d, cap)
  BY Zenon
<1>1. PICK n \in Nat : n = Len(c)
  OBVIOUS
<1>2. PICK a \in Nat : a = (IF n - d > cap THEN n - cap ELSE d) /\ a <= n
  <2>1. (IF n - d > cap THEN n - cap ELSE d) \in Nat /\ (IF n - d > cap THEN n - cap ELSE d) <= n
    BY <1>1
  <2> QED BY <2>1, Zenon
<1>3. r \in Seq(S) /\ Len(r) = n - a /\ \A i \in 1 .. n - a : r[i] = c[a + i]
  <2>1. r = SubSeq(c, a + 1, n)
    BY <1>0, <1>1, <1>2, Zenon DEF Latest
  <2>2. a <= n
    BY <1>2, Zenon
  <2> QED BY <1>1, <2>1, <2>2, EndOf
<1>4. PICK x : x = Append(c, e)
  OBVIOUS
<1>5. x \in Seq(S) /\ Len(x) = n + 1 /\ x[n + 1] = e /\ \A i \in 1 .. n : x[i] = c[i]
  BY <1>1, <1>4, AppendIs
<1>6. PICK b \in Nat : b = (IF (n + 1) - d > cap THEN (n + 1) - cap ELSE d) /\ b <= n
  <2> DEFINE w == IF (n + 1) - d > cap THEN (n + 1) - cap ELSE d
  <2>1. w \in Nat /\ w <= n
    BY <1>1
  <2> QED BY <2>1, Zenon
<1>7. PICK y : y = Latest(x, d, cap)
  OBVIOUS
<1>8. y \in Seq(S) /\ Len(y) = (n + 1) - b /\ \A i \in 1 .. (n + 1) - b : y[i] = x[b + i]
  <2>1. PICK m : m = n + 1
    BY Zenon
  <2>2. x \in Seq(S) /\ m = Len(x)
    BY <1>5, <2>1, Zenon
  <2>3. y = SubSeq(x, b + 1, m)
    BY <1>5, <1>6, <1>7, <2>1, Zenon DEF Latest
  <2>4. b <= m
    BY <1>6, <2>1
  <2>5. y \in Seq(S) /\ Len(y) = m - b /\ \A i \in 1 .. m - b : y[i] = x[b + i]
    BY <2>2, <2>3, <2>4
  <2> QED BY <2>1, <2>5, Zenon
<1>9. CASE Len(r) >= cap
  <2>1. b = a + 1 /\ r # << >>
    BY <1>2, <1>3, <1>6, <1>9
  <2>2. PICK q : q = Tail(r)
    OBVIOUS
  <2>3. q \in Seq(S) /\ Len(q) = n - b /\ \A i \in 1 .. n - b : q[i] = c[b + i]
    <3>1. q \in Seq(S) /\ Len(q) = n - b /\ \A i \in 1 .. n - b : q[i] = r[i + 1]
      BY <1>3, <2>1, <2>2
    <3>2. ASSUME NEW i \in 1 .. n - b PROVE q[i] = c[b + i]
      <4>1. i + 1 \in 1 .. n - a /\ a + (i + 1) = b + i
        BY <2>1
      <4> QED BY <1>3, <3>1, <4>1, Zenon
    <3> QED BY <3>1, <3>2
  <2>4. Append(q, e) = y
    <3>0. PICK z : z = Append(q, e)
      BY Zenon
    <3>1. z \in Seq(S) /\ Len(z) = (n - b) + 1 /\ z[(n - b) + 1] = e /\ \A i \in 1 .. n - b : z[i] = q[i]
      BY <2>3, <3>0, AppendIs
    <3>a. (n - b) + 1 = (n + 1) - b
      BY <1>6
    <3>2. ASSUME NEW i \in 1 .. (n + 1) - b PROVE z[i] = y[i]
      <4>1. CASE i = (n + 1) - b
        <5>1. b + i = n + 1
          BY <4>1
        <5> QED BY <1>5, <1>8, <3>1, <3>a, <4>1, <5>1, Zenon
      <4>2. CASE i # (n + 1) - b
        <5>1. i \in 1 .. n - b /\ b + i \in 1 .. n
          BY <3>2, <4>2
        <5> QED BY <1>5, <1>8, <2>3, <3>1, <5>1, Zenon
      <4> QED BY <4>1, <4>2, Zenon
    <3>3. z = y
      <4>1. Len(z) = (n + 1) - b
        BY <3>1, <3>a, Zenon
      <4> QED BY <1>8, <3>1, <3>2, <4>1, SameElements
    <3> QED BY <3>0, <3>3, Zenon
  <2> QED BY <1>0, <1>4, <1>7, <1>9, <2>2, <2>4, Zenon DEF Pushed
<1>10. CASE ~(Len(r) >= cap)
  <2>1. b = a
    BY <1>2, <1>3, <1>6, <1>10
  <2>2. Append(r, e) = y
    <3>0. PICK z : z = Append(r, e)
      BY Zenon
    <3>1. z \in Seq(S) /\ Len(z) = (n - a) + 1 /\ z[(n - a) + 1] = e /\ \A i \in 1 .. n - a : z[i] = r[i]
      BY <1>3, <3>0, AppendIs
    <3>a. (n - a) + 1 = (n + 1) - b
      BY <2>1
    <3>2. ASSUME NEW i \in 1 .. (n + 1) - b PROVE z[i] = y[i]
      <4>1. CASE i = (n + 1) - b
        <5>1. b + i = n + 1
          BY <4>1
        <5> QED BY <1>5, <1>8, <3>1, <3>a, <4>1, <5>1, Zenon
      <4>2. CASE i # (n + 1) - b
        <5>1. i \in 1 .. n - a /\ b + i \in 1 .. n
          BY <2>1, <3>2, <4>2
        <5> QED BY <1>3, <1>5, <1>8, <2>1, <3>1, <5>1, Zenon
      <4> QED BY <4>1, <4>2, Zenon
    <3>3. z = y
      <4>1. Len(z) = (n + 1) - b
        BY <3>1, <3>a, Zenon
      <4> QED BY <1>8, <3>1, <3>2, <4>1, SameElements
    <3> QED BY <3>0, <3>3, Zenon
  <2> QED BY <1>0, <1>4, <1>7, <1>10, <2>2, Zenon DEF Pushed
<1> QED BY <1>9, <1>10, Zenon

(* Nothing is left of what was drained. *)
LEMMA DrainedIsEmpty ==
  ASSUME NEW S, NEW c \in Seq(S), NEW cap \in Nat
  PROVE  Latest(c, Len(c), cap) = << >>
<1>1. PICK n \in Nat : n = Len(c)
  OBVIOUS
<1>2. Latest(c, Len(c), cap) = SubSeq(c, n + 1, n)
  <2>1. (IF n - n > cap THEN n - cap ELSE n) = n
    OBVIOUS
  <2>2. Latest(c, Len(c), cap) = SubSeq(c, (IF n - n > cap THEN n - cap ELSE n) + 1, n)
    BY <1>1, Zenon DEF Latest
  <2> QED BY <2>1, <2>2, Zenon
<1>3. n <= n /\ n - n = 0
  BY <1>1
<1>4. PICK r : r = SubSeq(c, n + 1, n)
  BY Zenon
<1>5. r \in Seq(S) /\ Len(r) = n - n
  BY <1>1, <1>3, <1>4, EndOf
<1>6. r = << >>
  BY <1>3, <1>5
<1> QED BY <1>2, <1>4, <1>6, Zenon

CONSTANTS Tuples, Unlogged, ringCapacity, logFeedCapacity, logBatchCap,
          synAttemptWindow, MaxLag, MaxTime, MaxEvents

VARIABLES now, ring, feed, overflow, running, pending, reported, attempts,
          logged, captured, drainedTo

Log == INSTANCE EventLog

(* The inductive invariant: RingHoldsLatest, and that no drain is of events  *)
(* that were not captured.                                                   *)
LogInv ==
  /\ now \in Int /\ DOMAIN ring = Log!Rings
  /\ captured \in [Log!Rings -> Seq([of: Tuples \cup {Log!Query}, at: Int])]
  /\ drainedTo \in [Log!Rings -> Nat]
  /\ \A k \in Log!Rings : drainedTo[k] <= Len(captured[k])
  /\ \A k \in Log!Rings : ring[k] = Latest(captured[k], drainedTo[k], ringCapacity)

LEMMA LogInitInv == ASSUME Log!EventLogAssumption, Log!Init PROVE LogInv
<1>1. ringCapacity \in Nat /\ << >> \in Seq([of: Tuples \cup {Log!Query}, at: Int]) /\ Len(<< >>) = 0
  BY DEF Log!EventLogAssumption
<1>2. Latest(<< >>, 0, ringCapacity) = << >>
  BY <1>1, DrainedIsEmpty, Zenon
<1> QED BY <1>1, <1>2 DEF LogInv, Log!Init, Log!EmptyRings

LEMMA CaptureLogInv ==
  ASSUME Log!EventLogAssumption, LogInv, NEW k \in Log!Rings, NEW s \in Log!Subjects(k),
         NEW ts \in 0 .. MaxTime, Log!Capture(k, s, ts)
  PROVE  LogInv'
<1> DEFINE E == [of: Tuples \cup {Log!Query}, at: Int]
<1>1. ringCapacity \in Nat \ {0}
  BY DEF Log!EventLogAssumption
<1>2. PICK e : e = [of |-> s, at |-> ts]
  OBVIOUS
<1>3. e \in E
  BY <1>2 DEF Log!Subjects
<1>4. /\ ring' = [ring EXCEPT ![k] = Append(IF Len(@) >= ringCapacity THEN Tail(@) ELSE @, e)]
      /\ captured' = [captured EXCEPT ![k] = Append(@, e)]
      /\ now' = now /\ drainedTo' = drainedTo
  BY <1>2, Zenon DEF Log!Capture, Log!push
<1> HIDE DEF E
<1>5. captured \in [Log!Rings -> Seq(E)]
  BY DEF LogInv, E
<1>6. captured[k] \in Seq(E) /\ drainedTo[k] \in Nat /\ drainedTo[k] <= Len(captured[k])
      /\ ring[k] = Latest(captured[k], drainedTo[k], ringCapacity)
  BY <1>5, Zenon DEF LogInv
<1>7. PICK c \in Seq(E) : c = captured[k]
  BY <1>6
<1>8. Append(c, e) \in Seq(E) /\ Len(Append(c, e)) = Len(c) + 1 /\ Len(c) \in Nat
  BY <1>3, <1>7
<1>9. Append(IF Len(ring[k]) >= ringCapacity THEN Tail(ring[k]) ELSE ring[k], e)
        = Latest(Append(c, e), drainedTo[k], ringCapacity)
  <2>0. drainedTo[k] \in Nat /\ drainedTo[k] <= Len(c)
    BY <1>6, <1>7, Zenon
  <2>1. Pushed(Latest(c, drainedTo[k], ringCapacity), e, ringCapacity) = Latest(Append(c, e), drainedTo[k], ringCapacity)
    BY <1>1, <1>3, <2>0, PushKeepsLatest, Zenon
  <2>2. ring[k] = Latest(c, drainedTo[k], ringCapacity)
    BY <1>6, <1>7, Zenon
  <2> QED BY <2>1, <2>2, Zenon DEF Pushed
<1>10. captured' \in [Log!Rings -> Seq(E)] /\ captured'[k] = Append(c, e)
       /\ \A j \in Log!Rings : j # k => captured'[j] = captured[j]
  <2>1. Append(captured[k], e) \in Seq(E) /\ captured[k] = c
    BY <1>7, <1>8, Zenon
  <2> QED BY <1>4, <1>5, <2>1
<1>11. DOMAIN ring' = Log!Rings /\ ring'[k] = Latest(Append(c, e), drainedTo[k], ringCapacity)
       /\ \A j \in Log!Rings : j # k => ring'[j] = ring[j]
  <2>1. PICK v : v = Append(IF Len(ring[k]) >= ringCapacity THEN Tail(ring[k]) ELSE ring[k], e)
    BY Zenon
  <2>2. ring' = [ring EXCEPT ![k] = v]
    BY <1>4, <2>1, Zenon
  <2>3. DOMAIN ring = Log!Rings
    BY Zenon DEF LogInv
  <2>4. DOMAIN ring' = Log!Rings /\ ring'[k] = v /\ \A j \in Log!Rings : j # k => ring'[j] = ring[j]
    BY <2>2, <2>3
  <2> QED BY <1>9, <2>1, <2>4, Zenon
<1>12. drainedTo[k] <= Len(captured'[k])
  BY <1>6, <1>7, <1>8, <1>10
<1>13. \A j \in Log!Rings : drainedTo'[j] <= Len(captured'[j])
  BY <1>4, <1>10, <1>12, Zenon DEF LogInv
<1>14. \A j \in Log!Rings : ring'[j] = Latest(captured'[j], drainedTo'[j], ringCapacity)
  BY <1>4, <1>10, <1>11, Zenon DEF LogInv
<1>15. captured' \in [Log!Rings -> Seq([of: Tuples \cup {Log!Query}, at: Int])]
  BY <1>10 DEF E
<1> QED BY <1>4, <1>11, <1>13, <1>14, <1>15, Zenon DEF LogInv

LEMMA DrainLogInv ==
  ASSUME Log!EventLogAssumption, LogInv, NEW k \in Log!Rings, Log!drain(k)
  PROVE  LogInv'
<1> DEFINE E == [of: Tuples \cup {Log!Query}, at: Int]
<1>1. ringCapacity \in Nat
  BY DEF Log!EventLogAssumption
<1>2. /\ ring' = [ring EXCEPT ![k] = << >>] /\ drainedTo' = [drainedTo EXCEPT ![k] = Len(captured[k])]
      /\ now' = now /\ captured' = captured
  BY Zenon DEF Log!drain
<1>3. captured[k] \in Seq(E)
  BY Zenon DEF LogInv
<1> HIDE DEF E
<1>4. Len(captured[k]) \in Nat /\ Len(captured[k]) <= Len(captured[k])
  BY <1>3
<1>5. Latest(captured[k], Len(captured[k]), ringCapacity) = << >>
  BY <1>1, <1>3, DrainedIsEmpty, Zenon
<1>6. drainedTo' \in [Log!Rings -> Nat] /\ drainedTo'[k] = Len(captured[k])
      /\ \A j \in Log!Rings : j # k => drainedTo'[j] = drainedTo[j]
  BY <1>2, <1>4, Zenon DEF LogInv
<1>7. DOMAIN ring' = Log!Rings /\ ring'[k] = << >> /\ \A j \in Log!Rings : j # k => ring'[j] = ring[j]
  BY <1>2, Zenon DEF LogInv
<1>8. \A j \in Log!Rings : drainedTo'[j] <= Len(captured'[j])
  BY <1>2, <1>4, <1>6, Zenon DEF LogInv
<1>9. \A j \in Log!Rings : ring'[j] = Latest(captured'[j], drainedTo'[j], ringCapacity)
  BY <1>2, <1>5, <1>6, <1>7, Zenon DEF LogInv
<1> QED BY <1>2, <1>6, <1>7, <1>8, <1>9, Zenon DEF LogInv

(* The rings hold the latest events, whatever forwardLogs does meanwhile:    *)
(* each ring has what was captured of its kind since it was last drained,    *)
(* and all of it up to its capacity (push, drain).                           *)
THEOREM RingsHoldTheLatest == Log!EventLogAssumption /\ Log!Spec => []Log!RingHoldsLatest
<1> SUFFICES ASSUME Log!EventLogAssumption PROVE Log!Spec => []Log!RingHoldsLatest
  OBVIOUS
<1>1. Log!Init => LogInv
  BY LogInitInv
<1>2. LogInv /\ [Log!Next]_(Log!vars) => LogInv'
  <2> SUFFICES ASSUME LogInv, [Log!Next]_(Log!vars) PROVE LogInv'
    OBVIOUS
  <2>1. ASSUME now' \in Int, ring' = ring, captured' = captured, drainedTo' = drainedTo PROVE LogInv'
    BY <2>1, Zenon DEF LogInv
  <2>2. CASE UNCHANGED Log!vars
    <3>1. now' = now /\ ring' = ring /\ captured' = captured /\ drainedTo' = drainedTo
      BY <2>2, Zenon DEF Log!vars
    <3> QED BY <2>1, <3>1, Zenon DEF LogInv
  <2>3. CASE (\E k \in Log!Kinds : Log!Receive(k)) \/ Log!FlushTick \/ Log!Return
    <3>1. now' = now /\ ring' = ring /\ captured' = captured /\ drainedTo' = drainedTo
      BY <2>3, Zenon DEF Log!Receive, Log!FlushTick, Log!Return
    <3> QED BY <2>1, <3>1, Zenon DEF LogInv
  <2>4. CASE Log!Clock
    <3>1. now' = now + 1 /\ ring' = ring /\ captured' = captured /\ drainedTo' = drainedTo
      BY <2>4, Zenon DEF Log!Clock
    <3>2. now' \in Int
      BY <3>1 DEF LogInv
    <3> QED BY <2>1, <3>1, <3>2, Zenon
  <2> QED BY <2>2, <2>3, <2>4, CaptureLogInv, DrainLogInv, Zenon DEF Log!Next
<1>3. LogInv => Log!RingHoldsLatest
  BY Zenon DEF LogInv, Latest, Log!RingHoldsLatest
<1> QED BY <1>1, <1>2, <1>3, PTL DEF Log!Spec

-----------------------------------------------------------------------------
(* The metrics. *)

CONSTANTS Flows, Keys, PeerOf, MaxPeerCardinality, MaxBytes, MaxCloses

VARIABLES open, total, events, counts, overflowBytesIn, lastIO, batch, exported,
          carried, drained, closes, missed, rejoined, ever

Metrics == INSTANCE MetricsState

(* The inductive invariant: ExportedIsCurrent, over series that count.       *)
MetricsInv ==
  /\ events \in [Metrics!Kinds -> Seq(Keys)]
  /\ counts \in [Metrics!Kinds -> [Metrics!Series -> Nat]]
  /\ Metrics!ExportedIsCurrent

LEMMA MetricsCount == \A S : Metrics!Cardinality(S) = Cardinality(S)
BY Zenon DEF Metrics!Cardinality, Cardinality, Metrics!IsFiniteSet, IsFiniteSet

(* Some of the positions in a sequence. *)
LEMMA SomeOf ==
  ASSUME NEW s \in Seq(Keys), NEW I, I \subseteq DOMAIN s
  PROVE  Cardinality(I) \in Nat
<1>1. DOMAIN s = 1 .. Len(s) /\ 1 \in Int /\ Len(s) \in Int
  OBVIOUS
<1>2. IsFiniteSet(1 .. Len(s))
  BY <1>1, FS_Interval
<1> QED BY <1>1, <1>2, FS_Subset, FS_CardinalityType

(* What a tick does to a series. *)
LEMMA SeriesAdvance ==
  ASSUME MetricsInv, NEW k \in Metrics!Kinds
  PROVE  /\ Metrics!Counted(k) \in [Metrics!Series -> Nat]
         /\ \A s \in Metrics!Series : s \notin Metrics!Touched(k) => Metrics!Counted(k)[s] = counts[k][s]
<1>1. events[k] \in Seq(Keys) /\ counts[k] \in [Metrics!Series -> Nat]
  BY Zenon DEF MetricsInv
<1> DEFINE At(s) == {i \in DOMAIN events[k] : Metrics!SeriesOf(k, events[k][i]) = s}
<1>2. Metrics!Counted(k) = [s \in Metrics!Series |-> counts[k][s] + Cardinality(At(s))]
  BY MetricsCount, Zenon DEF Metrics!Counted
<1>3. \A s : Cardinality(At(s)) \in Nat
  <2> TAKE s
  <2>1. At(s) \subseteq DOMAIN events[k]
    BY Zenon
  <2> QED BY <1>1, <2>1, SomeOf, Zenon
<1>4. ASSUME NEW s \in Metrics!Series, s \notin Metrics!Touched(k) PROVE At(s) = {}
  BY <1>4, Zenon DEF Metrics!Touched
<1> HIDE DEF At
<1>5. Metrics!Counted(k) \in [Metrics!Series -> Nat]
  BY <1>1, <1>2, <1>3
<1>6. ASSUME NEW s \in Metrics!Series, s \notin Metrics!Touched(k) PROVE Metrics!Counted(k)[s] = counts[k][s]
  <2>1. Cardinality(At(s)) = 0
    BY <1>4, <1>6, FS_EmptySet, Zenon
  <2>2. counts[k][s] \in Nat /\ Metrics!Counted(k)[s] = counts[k][s] + Cardinality(At(s))
    BY <1>1, <1>2, <1>6, Zenon
  <2> QED BY <2>1, <2>2
<1> QED BY <1>5, <1>6

LEMMA CollectMetricsInv ==
  ASSUME MetricsInv, NEW ok \in BOOLEAN, Metrics!collect(ok)
  PROVE  MetricsInv'
<1> DEFINE metrics == [dns |-> Metrics!addDNSQueryMetric, dnsError |-> Metrics!addDNSErrorMetric,
                       syn |-> Metrics!addSYNMetric, rst |-> Metrics!addRSTMetric]
<1>1. /\ counts' = [k \in Metrics!Kinds |-> metrics[k].counts]
      /\ exported' = [k \in Metrics!Kinds |-> [s \in Metrics!Series |->
                        IF ok /\ s \in [j \in Metrics!Kinds |-> metrics[j].touched][k]
                        THEN metrics[k].counts[s] ELSE exported[k][s]]]
      /\ missed' = [k \in Metrics!Kinds |->
                      IF ok THEN missed[k] \ [j \in Metrics!Kinds |-> metrics[j].touched][k]
                      ELSE missed[k] \cup [j \in Metrics!Kinds |-> metrics[j].touched][k]]
      /\ events' = [k \in Metrics!Kinds |-> << >>]
  BY Zenon DEF Metrics!collect
<1>2. ASSUME NEW k \in Metrics!Kinds PROVE metrics[k] = Metrics!CumulativeSum(k)
  BY DEF Metrics!Kinds, Metrics!addDNSQueryMetric, Metrics!addDNSErrorMetric,
         Metrics!addSYNMetric, Metrics!addRSTMetric
<1>3. ASSUME NEW k \in Metrics!Kinds
      PROVE  metrics[k].counts = Metrics!Counted(k) /\ metrics[k].touched = Metrics!Touched(k)
  <2>1. PICK C, T : C = Metrics!Counted(k) /\ T = Metrics!Touched(k)
    OBVIOUS
  <2>2. metrics[k] = [counts |-> C, touched |-> T]
    BY <1>2, <2>1, Zenon DEF Metrics!CumulativeSum
  <2> HIDE DEF metrics
  <2> QED BY <2>1, <2>2
<1> HIDE DEF metrics
<1>4. counts' \in [Metrics!Kinds -> [Metrics!Series -> Nat]]
  BY <1>1, <1>3, SeriesAdvance, Zenon
<1>5. events' \in [Metrics!Kinds -> Seq(Keys)]
  <2>1. << >> \in Seq(Keys)
    OBVIOUS
  <2> QED BY <1>1, <2>1, Zenon
<1>6. ASSUME NEW k \in Metrics!Kinds, NEW s \in Metrics!Series
      PROVE  s \in missed'[k] \/ exported'[k][s] = counts'[k][s]
  <2>1. /\ counts'[k][s] = Metrics!Counted(k)[s]
        /\ exported'[k][s] = IF ok /\ s \in Metrics!Touched(k) THEN Metrics!Counted(k)[s] ELSE exported[k][s]
        /\ missed'[k] = IF ok THEN missed[k] \ Metrics!Touched(k) ELSE missed[k] \cup Metrics!Touched(k)
    BY <1>1, <1>3, <1>6, Zenon
  <2>2. s \in missed[k] \/ exported[k][s] = counts[k][s]
    BY <1>6, Zenon DEF MetricsInv, Metrics!ExportedIsCurrent
  <2>3. s \notin Metrics!Touched(k) => Metrics!Counted(k)[s] = counts[k][s]
    BY <1>6, SeriesAdvance, Zenon
  <2> QED BY <2>1, <2>2, <2>3, Zenon
<1> QED BY <1>4, <1>5, <1>6, Zenon DEF MetricsInv, Metrics!ExportedIsCurrent

(* What the consumer last accepted of an event series is its current count,  *)
(* unless it refused the points of the series' last change, over any ticks   *)
(* and any endpoints the limiter lets through (collect, buildMetrics).       *)
THEOREM ExportStaysCurrent == Metrics!Spec => []Metrics!ExportedIsCurrent
<1>1. Metrics!Init => MetricsInv
  <2> SUFFICES ASSUME Metrics!Init PROVE MetricsInv
    OBVIOUS
  <2>1. events = [k \in Metrics!Kinds |-> << >>] /\ counts = Metrics!Zero /\ exported = Metrics!Zero
    BY Zenon DEF Metrics!Init
  <2>2. 0 \in Nat /\ << >> \in Seq(Keys)
    OBVIOUS
  <2> QED BY <2>1, <2>2, Zenon DEF MetricsInv, Metrics!Zero, Metrics!ExportedIsCurrent
<1>2. MetricsInv /\ [Metrics!Next]_(Metrics!vars) => MetricsInv'
  <2> SUFFICES ASSUME MetricsInv, [Metrics!Next]_(Metrics!vars) PROVE MetricsInv'
    OBVIOUS
  <2>1. ASSUME events' \in [Metrics!Kinds -> Seq(Keys)], UNCHANGED <<counts, exported, missed>>
        PROVE  MetricsInv'
    BY <2>1, Zenon DEF MetricsInv, Metrics!ExportedIsCurrent
  <2>2. CASE UNCHANGED Metrics!vars
    BY <2>1, <2>2, Zenon DEF Metrics!vars, MetricsInv
  <2>3. ASSUME NEW f \in Flows, Metrics!Open(f) \/ Metrics!Carry(f) \/ Metrics!Close(f) PROVE MetricsInv'
    BY <2>1, <2>3, Zenon DEF Metrics!Open, Metrics!Carry, Metrics!Close, Metrics!state, MetricsInv
  <2>4. ASSUME NEW k \in Metrics!Kinds, NEW x \in Keys, Metrics!Event(k, x) PROVE MetricsInv'
    <3>1. /\ events' = [events EXCEPT ![k] = Append(@, x)]
          /\ UNCHANGED <<counts, exported, missed>>
      BY <2>4, Zenon DEF Metrics!Event, Metrics!state
    <3>2. events[k] \in Seq(Keys)
      BY <2>4, Zenon DEF MetricsInv
    <3>3. Append(events[k], x) \in Seq(Keys)
      BY <2>4, <3>2
    <3>4. events' \in [Metrics!Kinds -> Seq(Keys)]
      BY <3>1, <3>3 DEF MetricsInv
    <3> QED BY <2>1, <3>1, <3>4, Zenon
  <2> QED BY <2>2, <2>3, <2>4, CollectMetricsInv, Zenon DEF Metrics!Next
<1>3. MetricsInv => Metrics!ExportedIsCurrent
  BY Zenon DEF MetricsInv
<1> QED BY <1>1, <1>2, <1>3, PTL DEF Metrics!Spec
=============================================================================
