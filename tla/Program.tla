------------------------------ MODULE Program -------------------------------
(***************************************************************************)
(* cmd/trafficmon's run and capture.Capturer.Run: the goroutines of one    *)
(* session, how a failure, a key or a signal winds them up, and what the   *)
(* program reports.  pcap, bubbletea and signals are external.             *)
(***************************************************************************)
EXTENDS Integers, FiniteSets

CONSTANTS Interfaces, \* the interfaces there are
          Nil

Parts == {"capture", "source", "pprof", "tui"}
Shutdowns == {"canceled", "killed", "interrupted"} \* context.Canceled, tea.ErrProgramKilled, tea.ErrInterrupted
Errors == Shutdowns \cup {"captureFailed", "sourceFailed", "pprofFailed", "tuiFailed"}

ProgramAssumption ==
  /\ Interfaces # {} /\ IsFiniteSet(Interfaces)
  /\ Nil \notin Errors \cup {"off", "running", "none", "startFailed"}

VARIABLES
  stage,    \* of run: "start", "wait", "exited"
  ifaces,   \* ResolveInterfaces' result in Capturer.Run; none yet
  handle,   \* captureOn, per interface
  ret,      \* what each goroutine of the errgroup returned; "running"
  leaving,  \* what tea's p.Run returned, before the errgroup has it; "none"
  ctxDone,
  first,    \* the errgroup's first error
  result,   \* what run returned
  cause     \* history: what ended the context

vars == <<stage, ifaces, handle, ret, leaving, ctxDone, first, result, cause>>

TypeOK ==
  /\ stage \in {"start", "wait", "exited"} /\ ifaces \subseteq Interfaces
  /\ handle \in [Interfaces -> {"closed", "reading", "unopened", "failed", "canceled"}]
  /\ ret \in [Parts -> {"off", "running", Nil} \cup Errors]
  /\ leaving \in {"none", Nil} \cup Errors
  /\ ctxDone \in BOOLEAN
  /\ first \in Errors \cup {Nil}
  /\ result \in {"none", "startFailed", Nil} \cup (Errors \ Shutdowns)
  /\ cause \in {"none", "quit", "signal"} \cup Errors

Init ==
  /\ stage = "start" /\ ifaces = {} /\ handle = [i \in Interfaces |-> "closed"]
  /\ ret = [p \in Parts |-> "off"] /\ leaving = "none" /\ ctxDone = FALSE /\ first = Nil
  /\ result = "none" /\ cause = "none"

(* run, up to g.Wait: privileges, libpcap and the interfaces are checked,    *)
(* then every part is launched, with or without --pprof.                     *)
Launch(pprof) ==
  /\ stage = "start" /\ stage' = "wait"
  /\ ret' = [p \in Parts |-> IF p = "pprof" /\ ~pprof THEN Nil ELSE "running"]
  /\ UNCHANGED <<ifaces, handle, leaving, ctxDone, first, result, cause>>

StartFails ==
  /\ stage = "start" /\ stage' = "exited" /\ result' = "startFailed"
  /\ UNCHANGED <<ifaces, handle, ret, leaving, ctxDone, first, cause>>

(* A goroutine of the group returns; its first error ends the context.       *)
Returns(p, e) ==
  /\ ret[p] = "running" /\ ret' = [ret EXCEPT ![p] = e]
  /\ first' = IF first = Nil THEN e ELSE first
  /\ ctxDone' = (ctxDone \/ e # Nil)
  /\ cause' = IF e # Nil /\ ~ctxDone THEN e ELSE cause
  /\ UNCHANGED <<stage, ifaces, leaving, result>>

parts == <<stage, ret, leaving, ctxDone, first, result, cause>>

(* Capturer.Run resolves the interfaces again, *)
Resolve(I) ==
  /\ ret["capture"] = "running" /\ ifaces = {}
  /\ I # {} /\ ifaces' = I
  /\ UNCHANGED <<handle, parts>>

(* or returns before it has opened any: SnapLen, the interfaces or their     *)
(* addresses gave an error, or the list of interfaces is empty.              *)
RunEarly(e) ==
  /\ ifaces = {} /\ e \in {"captureFailed", Nil}
  /\ Returns("capture", e) /\ UNCHANGED handle

(* captureOn: the handle is opened, filtered and given a decoder, or not. *)
Open(i, ok) ==
  /\ ret["capture"] = "running" /\ i \in ifaces /\ handle[i] = "closed"
  /\ handle' = [handle EXCEPT ![i] = IF ok THEN "reading" ELSE "unopened"]
  /\ UNCHANGED <<ifaces, parts>>

(* Variant: the context is not looked at between reads. *)
captureOnBlocking(i, ok) ==
  /\ handle[i] = "reading" /\ ~ok
  /\ handle' = [handle EXCEPT ![i] = "failed"]
  /\ UNCHANGED <<ifaces, parts>>

(* captureOn's loop: the context is looked at before every read, which times *)
(* out; end of file or a read error ends it.                                 *)
captureOn(i, ok) ==
  /\ handle[i] = "reading"
  /\ \/ ctxDone /\ ok /\ handle' = [handle EXCEPT ![i] = "canceled"]
     \/ ~ok /\ handle' = [handle EXCEPT ![i] = "failed"]
  /\ UNCHANGED <<ifaces, parts>>

(* Variant: a single interface is best-effort too. *)
bestEffortAny == Cardinality(ifaces) >= 1

bestEffort == Cardinality(ifaces) > 1
Ended(i) == handle[i] \in {"unopened", "failed", "canceled"}
Outcome == IF bestEffort THEN Nil
           ELSE IF \E i \in ifaces : handle[i] = "canceled" THEN "canceled" ELSE "captureFailed"

(* Capturer.Run: waits for every interface. *)
Run ==
  /\ ifaces # {} /\ \A i \in ifaces : Ended(i)
  /\ Returns("capture", Outcome) /\ UNCHANGED handle

(* Poller.Run, EBPFSource.Run. *)
Source(e) ==
  /\ e = "sourceFailed" \/ (ctxDone /\ e = "canceled")
  /\ Returns("source", e) /\ UNCHANGED handle

(* capturePprof: time, or the context, runs out, and the files are written.  *)
capturePprof(e) == e \in {Nil, "pprofFailed"} /\ Returns("pprof", e) /\ UNCHANGED handle

(* The terminal interface ends, by q, an interrupt, an error of its own or   *)
(* the end of the context, and the deferred stop ends the context,           *)
TuiEnds(e) ==
  /\ ret["tui"] = "running" /\ leaving = "none"
  /\ e \in {Nil, "interrupted", "tuiFailed"} \/ (ctxDone /\ e = "killed")
  /\ leaving' = e /\ ctxDone' = TRUE
  /\ cause' = IF ctxDone THEN cause ELSE IF e = Nil THEN "quit" ELSE e
  /\ UNCHANGED <<stage, ifaces, handle, ret, first, result>>

(* before the goroutine gives the error to the group. *)
TuiReturns == leaving # "none" /\ Returns("tui", leaving) /\ UNCHANGED handle

(* SIGINT or SIGTERM: signal.NotifyContext. *)
Signal ==
  /\ stage = "wait" /\ ~ctxDone /\ ctxDone' = TRUE /\ cause' = "signal"
  /\ UNCHANGED <<stage, ifaces, handle, ret, leaving, first, result>>

(* Variant: an error after the context's end counts as its consequence. *)
isShutdownAny(e) == e \in Shutdowns \/ ctxDone

isShutdown(e) == e \in Shutdowns

(* g.Wait returns in run. *)
Exit ==
  /\ stage = "wait" /\ \A p \in Parts : ret[p] # "running"
  /\ stage' = "exited" /\ result' = IF isShutdown(first) THEN Nil ELSE first
  /\ UNCHANGED <<ifaces, handle, ret, leaving, ctxDone, first, cause>>

Next ==
  \/ StartFails \/ (\E b \in BOOLEAN : Launch(b))
  \/ \E I \in SUBSET Interfaces : Resolve(I)
  \/ \E i \in Interfaces, ok \in BOOLEAN : Open(i, ok) \/ captureOn(i, ok)
  \/ Run \/ TuiReturns \/ Signal \/ Exit
  \/ \E e \in Errors \cup {Nil} : RunEarly(e) \/ Source(e) \/ capturePprof(e) \/ TuiEnds(e)

(* Once the context is done the parts are scheduled until they return; the   *)
(* interfaces are resolved in bounded time (ResolveInterfaces has its own    *)
(* timeout), and each is opened or fails to open.                            *)
Fairness ==
  /\ WF_vars(Run) /\ WF_vars(Exit) /\ WF_vars(TuiReturns)
  /\ WF_vars((\E I \in SUBSET Interfaces : Resolve(I)) \/ \E e \in Errors \cup {Nil} : RunEarly(e))
  /\ \A i \in Interfaces : WF_vars(\E ok \in BOOLEAN : Open(i, ok)) /\ WF_vars(captureOn(i, TRUE))
  /\ WF_vars(\E e \in Errors : ctxDone /\ Source(e))
  /\ WF_vars(\E e \in Errors \cup {Nil} : ctxDone /\ TuiEnds(e))
  /\ WF_vars(\E e \in Errors \cup {Nil} : ctxDone /\ capturePprof(e))

Spec == Init /\ [][Next]_vars
FairSpec == Spec /\ Fairness
-----------------------------------------------------------------------------
(* run reports the failure that ended the session, whatever the other parts  *)
(* return on the way out, and reports nothing after a quit, a signal or an   *)
(* interrupt unless a part then fails (the errgroup, isShutdown).  The       *)
(* terminal interface's own failure reaches the group only after stop has    *)
(* ended the context for the others (main.go:122-127): it is reported unless *)
(* another part's error came first.                                          *)
FailureReported ==
  stage = "exited" /\ result # "startFailed" =>
    /\ cause \in Errors \ (Shutdowns \cup {"tuiFailed"}) => result = cause
    /\ cause = "tuiFailed" =>
         result = cause \/ \E p \in Parts \ {"tui"} : ret[p] = first /\ first # Nil
    /\ result # Nil => \E p \in Parts : ret[p] = result

(* isShutdown tells an orderly end from "something the user needs to be told *)
(* about" (main.go:179-180): a failure of the terminal interface that ends   *)
(* the session is reported.                                                  *)
TuiFailureReported ==
  stage = "exited" /\ cause = "tuiFailed" => result = "tuiFailed"

(* When the interface under capture fails, run reports it or ends for a      *)
(* reason that came before: a single interface's failure is never lost while *)
(* the program goes on (bestEffort).  With several, or none, capture may end *)
(* and the program go on.                                                    *)
SingleFailureEnds ==
  ret["capture"] # "running" /\ Cardinality(ifaces) = 1
    /\ (\E i \in ifaces : handle[i] \in {"unopened", "failed"}) => ctxDone

(* Run returns only once no handle is read, and run after Run: no packet is  *)
(* decoded after the session ended.                                          *)
HandlesReleased == ret["capture"] \notin {"running", "off"} => \A i \in ifaces : Ended(i)

(* The end of the context, by a failure, a key or a signal, ends the program.*)
ExitsWhenDone == ctxDone ~> stage = "exited"

(* The end of the terminal interface ends the program.                       *)
QuitEnds == (leaving # "none") ~> stage = "exited"

(* Run returns ctx.Err() when the context ends it.                           *)
RunReturnsCtxErr ==
  ret["capture"] # "running" /\ ifaces # {} /\ (\A i \in ifaces : handle[i] = "canceled")
    => ret["capture"] = "canceled"

(* A handle that cannot be opened stops the program before its interface.    *)
OpenFailsBeforeUI == (\E i \in Interfaces : handle[i] = "unopened") => ret["tui"] = "off"
=============================================================================
