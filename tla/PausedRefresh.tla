--------------------------- MODULE PausedRefresh ----------------------------
(***************************************************************************)
(* The terminal interface as the caller of Refresh.  The user's pause      *)
(* stops the refreshes and with them everything Refresh does on the side:  *)
(* the flow table is not evicted from while capture goes on filling it.    *)
(* Keys and ticks are handled by one goroutine, so a refresh that has      *)
(* begun is finished before a pause takes effect.                          *)
(***************************************************************************)
EXTENDS Aggregator

VARIABLES
  paused,
  ticking   \* whether another tick is scheduled

pausedVars == <<allVars, paused, ticking>>

PauseInit == AggInit /\ paused = FALSE /\ ticking = TRUE

TogglePause ==
  /\ rpc = "idle"
  /\ paused' = ~paused
  /\ UNCHANGED <<allVars, ticking>>

(* Variant: a tick that finds the model paused schedules no other. *)
TickLost ==
  /\ ticking /\ paused /\ rpc = "idle"
  /\ ticking' = FALSE /\ UNCHANGED <<allVars, paused>>

(* A paused model only waits for the next tick. *)
TickPaused ==
  /\ ticking /\ paused /\ rpc = "idle"
  /\ ticking' = TRUE /\ UNCHANGED <<allVars, paused>>

(* The tick refreshes otherwise, one step of Refresh at a time. *)
TickRefresh ==
  /\ ticking /\ (paused => rpc # "idle")
  /\ Refresh /\ UNCHANGED <<paused, ticking>>

PauseNext ==
  \/ TogglePause \/ TickPaused \/ TickRefresh
  \/ UNCHANGED <<paused, ticking>>
     /\ \/ Tick /\ UNCHANGED aggVars
        \/ \E i \in Ifaces : Capture(i) /\ UNCHANGED aggVars
        \/ \E c \in Connection : SocketOpen(c) \/ SocketClose(c)
        \/ Poll

(* The clock, the poll loop and the ticks never stop, and a capture goroutine *)
(* finishes the packet it has started.  Packets, sockets and the user promise *)
(* nothing.                                                                  *)
PauseFairness ==
  /\ WF_pausedVars(Tick /\ UNCHANGED <<aggVars, paused, ticking>>)
  /\ WF_pausedVars(Poll /\ UNCHANGED <<paused, ticking>>)
  /\ WF_pausedVars(TickRefresh)
  /\ \A i \in Ifaces :
       WF_pausedVars((Lookup(i) \/ Create(i) \/ Add(i)) /\ UNCHANGED <<aggVars, paused, ticking>>)

PauseSpec == PauseInit /\ [][PauseNext]_pausedVars /\ PauseFairness

-----------------------------------------------------------------------------
(* Evict keeps the table from growing for ever (pcap.go:415-418), pauses      *)
(* included (model.go:354): once the last pause is over, a flow with no open  *)
(* connection behind it that stays quiet for the grace period is removed,     *)
(* however much was left lying while nothing was refreshed.                   *)
EvictedAfterPause == <>[]~paused => QuietFlowsEvicted

(* The table catches up with the sockets, pauses included (model.go:354,      *)
(* aggregator.go:286-331): once the last pause is over, a socket that stays   *)
(* open gets its row, and the row of a socket that is gone for good is        *)
(* dropped by the first refresh after its grace period, although it was last  *)
(* reported before any length of pause.                                       *)
RowsFollowSockets == <>[]~paused => OpenRowsAppear /\ ClosedRowsLeave
=============================================================================
