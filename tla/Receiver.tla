------------------------------ MODULE Receiver ------------------------------
(***************************************************************************)
(* The OpenTelemetry receiver's life: factory.go's instances shared by the *)
(* signals of one configuration, trafficmonReceiver.Start and Shutdown,    *)
(* and the goroutines in between.  The collector, external, creates every  *)
(* signal, then starts them one by one, then shuts every one of them down, *)
(* also those it did not get to start.                                     *)
(***************************************************************************)
EXTENDS Integers, FiniteSets

CONSTANT Signals \* the signals of the configuration

ASSUME ReceiverAssumption == Signals \subseteq {"metrics", "logs"} /\ Signals # {}

(* capturer.Run and source.Run in an errgroup, g.Wait, collect, forwardLogs. *)
Goroutines == {"capture", "source", "wait", "collect", "forwardLogs"}

VARIABLES
  phase,      \* the collector: "create", "start", "stop"
  created, attempted, up, \* signals created, whose Start was called, whose Start returned nil
  down,       \* signals whose Shutdown has returned
  instance,   \* instances[cfg] is set
  refs, cancel,           \* trafficmonReceiver: refs; cancel is set
  cancelled, failed,      \* ctx is done; gctx is done
  alive,      \* goroutines that have not returned
  mu,         \* who holds trafficmonReceiver.mu
  ticking,    \* collect is past its select
  stopping    \* the signal inside Shutdown, past its unlock, and where

vars == <<phase, created, attempted, up, down, instance, refs, cancel, cancelled, failed,
          alive, mu, ticking, stopping>>

Nobody == "nobody"
Idle == [signal |-> Nobody, at |-> "out"]

TypeOK ==
  /\ phase \in {"create", "start", "stop"}
  /\ up \subseteq attempted /\ attempted \subseteq created /\ down \subseteq created
  /\ created \subseteq Signals /\ instance \in BOOLEAN
  /\ refs \in -Cardinality(Signals) .. Cardinality(Signals)
  /\ {cancel, cancelled, failed, ticking} \subseteq BOOLEAN
  /\ alive \subseteq Goroutines
  /\ mu \in {Nobody, "collect", "Shutdown"}
  /\ stopping \in [signal: Signals \cup {Nobody}, at: {"out", "wait", "forget"}]

Init ==
  /\ phase = "create" /\ created = {} /\ attempted = {} /\ up = {} /\ down = {}
  /\ instance = FALSE /\ refs = 0 /\ cancel = FALSE /\ cancelled = FALSE /\ failed = FALSE
  /\ alive = {} /\ mu = Nobody /\ ticking = FALSE /\ stopping = Idle

(* createMetricsReceiver, createLogsReceiver and sharedReceiver. *)
create(s) ==
  /\ phase = "create" /\ s \notin created
  /\ created' = created \cup {s} /\ instance' = TRUE
  /\ phase' = IF created' = Signals THEN "start" ELSE phase
  /\ UNCHANGED <<attempted, up, down, refs, cancel, cancelled, failed, alive, mu, ticking, stopping>>

Launched ==
  {"capture", "source", "wait", "collect"} \cup (IF "logs" \in created THEN {"forwardLogs"} ELSE {})

(* Start: the first reference launches the engine, unless the interfaces do  *)
(* not resolve; the collector then gives up.  The lock is held throughout.   *)
Start(s, resolves) ==
  /\ phase = "start" /\ s \notin attempted /\ mu = Nobody
  /\ attempted' = attempted \cup {s}
  /\ \/ /\ refs + 1 > 1
        /\ refs' = refs + 1 /\ up' = up \cup {s}
        /\ UNCHANGED <<phase, cancel, cancelled, failed, alive>>
     \/ /\ refs + 1 <= 1 /\ ~resolves
        /\ phase' = "stop"
        /\ UNCHANGED <<refs, up, cancel, cancelled, failed, alive>>
     \/ /\ refs + 1 <= 1 /\ resolves
        /\ refs' = refs + 1 /\ up' = up \cup {s}
        /\ cancel' = TRUE /\ cancelled' = FALSE /\ failed' = FALSE /\ alive' = Launched
        /\ UNCHANGED phase
  /\ UNCHANGED <<created, down, instance, mu, ticking, stopping>>

(* The collector stops, or another component failed to start. *)
Stop ==
  /\ phase = "start" /\ phase' = "stop"
  /\ UNCHANGED <<created, attempted, up, down, instance, refs, cancel, cancelled, failed, alive, mu, ticking, stopping>>

engine == <<phase, created, attempted, up, down, instance, refs, cancel, cancelled, stopping>>

(* capturer.Run or source.Run returns: when gctx is done, or with an error,  *)
(* which cancels gctx.                                                       *)
RunReturns(g) ==
  /\ g \in alive \cap {"capture", "source"}
  /\ alive' = alive \ {g}
  /\ failed' = TRUE
  /\ UNCHANGED <<engine, mu, ticking>>

(* g.Wait returns in the goroutine that logs an error. *)
WaitReturns ==
  /\ "wait" \in alive /\ {"capture", "source"} \cap alive = {}
  /\ alive' = alive \ {"wait"}
  /\ UNCHANGED <<engine, failed, mu, ticking>>

(* collect takes a tick, then reads metricsConsumer under the lock. *)
collect ==
  /\ "collect" \in alive
  /\ \/ ~ticking /\ ticking' = TRUE /\ UNCHANGED mu
     \/ ticking /\ mu = Nobody /\ mu' = "collect" /\ UNCHANGED ticking
     \/ ticking /\ mu = "collect" /\ mu' = Nobody /\ ticking' = FALSE
  /\ UNCHANGED <<engine, failed, alive>>

(* collect's and forwardLogs' selects see ctx.Done. *)
Done(g) ==
  /\ g \in alive \cap {"collect", "forwardLogs"} /\ cancelled /\ ~(g = "collect" /\ ticking)
  /\ alive' = alive \ {g}
  /\ UNCHANGED <<engine, failed, mu, ticking>>

(* Variant: the first signal to shut down stops the engine. *)
ShutdownFirst(s) ==
  /\ phase = "stop" /\ stopping = Idle /\ s \in created \ down /\ mu = Nobody
  /\ refs' = refs - 1
  /\ stopping' = [signal |-> s, at |-> IF cancel THEN "wait" ELSE "forget"]
  /\ IF cancel THEN cancelled' = TRUE /\ failed' = TRUE ELSE UNCHANGED <<cancelled, failed>>
  /\ UNCHANGED <<phase, created, attempted, up, down, instance, cancel, alive, mu, ticking>>

(* Variant: the lock is kept while the goroutines are waited for. *)
ShutdownLocked(s) ==
  /\ phase = "stop" /\ stopping = Idle /\ s \in created \ down /\ mu = Nobody
  /\ refs' = refs - 1 /\ mu' = "Shutdown"
  /\ stopping' = [signal |-> s, at |-> IF refs - 1 = 0 /\ cancel THEN "wait" ELSE "forget"]
  /\ IF refs - 1 = 0 /\ cancel THEN cancelled' = TRUE /\ failed' = TRUE
     ELSE UNCHANGED <<cancelled, failed>>
  /\ UNCHANGED <<phase, created, attempted, up, down, instance, cancel, alive, ticking>>

(* trafficmonReceiver.Shutdown, up to wg.Wait: the last reference cancels.   *)
Shutdown(s) ==
  /\ phase = "stop" /\ stopping = Idle /\ s \in created \ down /\ mu = Nobody
  /\ refs' = refs - 1
  /\ stopping' = [signal |-> s, at |-> IF refs - 1 = 0 /\ cancel THEN "wait" ELSE "forget"]
  /\ IF refs - 1 = 0 /\ cancel THEN cancelled' = TRUE /\ failed' = TRUE
     ELSE UNCHANGED <<cancelled, failed>>
  /\ UNCHANGED <<phase, created, attempted, up, down, instance, cancel, alive, mu, ticking>>

(* wg.Wait; capture and source are waited for through g.Wait. *)
wait ==
  /\ stopping.at = "wait" /\ {"wait", "collect", "forwardLogs"} \cap alive = {}
  /\ stopping' = [stopping EXCEPT !.at = "forget"]
  /\ UNCHANGED <<phase, created, attempted, up, down, instance, refs, cancel, cancelled, failed, alive, mu, ticking>>

(* sharedComponent.Shutdown, after the receiver's. *)
forget ==
  /\ stopping.at = "forget" /\ mu # "collect"
  /\ instance' = (instance /\ refs # 0)
  /\ down' = down \cup {stopping.signal} /\ stopping' = Idle /\ mu' = Nobody
  /\ UNCHANGED <<phase, created, attempted, up, refs, cancel, cancelled, failed, alive, ticking>>

Next ==
  \/ \E s \in Signals : create(s) \/ (\E ok \in BOOLEAN : Start(s, ok)) \/ Shutdown(s)
  \/ Stop \/ wait \/ forget \/ WaitReturns \/ collect
  \/ \E g \in Goroutines : RunReturns(g) \/ Done(g)

(* Goroutines are scheduled and sync.Mutex starves nobody; a Run returns     *)
(* once its context is done (captureOn polls it every read timeout); a       *)
(* select does not pass over ctx.Done for ever; the collector shuts down     *)
(* every signal.                                                             *)
Fairness ==
  /\ WF_vars(wait) /\ SF_vars(forget) /\ WF_vars(WaitReturns) /\ WF_vars(collect)
  /\ \A g \in Goroutines : WF_vars(failed /\ RunReturns(g)) /\ SF_vars(Done(g))
  /\ \A s \in Signals : SF_vars(Shutdown(s))

Spec == Init /\ [][Next]_vars
FairSpec == Spec /\ Fairness
-----------------------------------------------------------------------------
(* While a signal that started has not been shut down and no signal's        *)
(* Shutdown outnumbers its Start, the shared engine is not cancelled and     *)
(* collects (Start and Shutdown count references).                           *)
EngineWhileReferenced ==
  Cardinality(up) > Cardinality(down) + (IF stopping = Idle THEN 0 ELSE 1)
    => ~cancelled /\ "collect" \in alive /\ ("logs" \in Signals => "forwardLogs" \in alive)

(* Once every signal has been shut down no goroutine is left to call a       *)
(* consumer (Shutdown waits for them).                                       *)
NothingAfterShutdown == phase = "stop" /\ down = Signals => alive = {}

(* The shared engine lives exactly as long as it is referenced (refs). *)
EngineLifetime == TypeOK /\ EngineWhileReferenced /\ NothingAfterShutdown

(* An engine is only launched when none is running.                          *)
OneEngine == [][alive' \subseteq alive \/ alive = {}]_vars

(* Shutdown never hangs: once the collector stops, every Shutdown returns    *)
(* (collect can take the lock while Shutdown waits for it).                  *)
ShutdownReturns == phase = "stop" ~> down = created

(* Once every signal has been shut down the factory has dropped the instance.*)
InstanceDropped == phase = "stop" /\ down = Signals => ~instance
=============================================================================
