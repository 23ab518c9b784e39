---------------------------- MODULE MCLifecycle -----------------------------
(***************************************************************************)
(* The two programs that run the engine: the OpenTelemetry receiver, and   *)
(* the terminal program.  The one that is not running stays in its initial *)
(* state, where its fairness asks for nothing.                             *)
(***************************************************************************)
EXTENDS Receiver

CONSTANTS Interfaces, Nil

VARIABLES
  host, \* the program that runs
  stage, ifaces, handle, ret, leaving, ctxDone, first, result, cause

Session == INSTANCE Program

ASSUME SessionAssumption == Session!ProgramAssumption

sessionVars == <<stage, ifaces, handle, ret, leaving, ctxDone, first, result, cause>>

MCInit == host \in {"collector", "terminal"} /\ Init /\ Session!Init

MCNext ==
  /\ UNCHANGED host
  /\ \/ host = "collector" /\ Next /\ UNCHANGED sessionVars
     \/ host = "terminal" /\ Session!Next /\ UNCHANGED vars

MCSpec ==
  /\ MCInit /\ [][MCNext]_<<host, vars, sessionVars>>
  /\ Fairness /\ Session!Fairness

-----------------------------------------------------------------------------
(* run reports the failure that ended the session (the errgroup, isShutdown), *)
(* the terminal interface's own unless another part's error came first, the   *)
(* failure of the only interface ends it (bestEffort), and Capturer.Run       *)
(* returns only once no handle is read.                                       *)
FailuresSurface ==
  /\ Session!TypeOK /\ Session!FailureReported
  /\ Session!SingleFailureEnds /\ Session!HandlesReleased

(* The end of the context, by a failure, a key or a signal, ends the program, *)
(* and so does the end of the terminal interface (run, stop, g.Wait).         *)
SessionEnds == Session!ExitsWhenDone /\ Session!QuitEnds

(* Whatever ends, ends completely: Shutdown returns although it waits for a   *)
(* goroutine that wants its mutex, and the program exits.                     *)
EverythingReturns == ShutdownReturns /\ SessionEnds
=============================================================================
