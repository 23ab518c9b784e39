----------------------------- MODULE MCSources ------------------------------
(***************************************************************************)
(* The connection source of a session: NewBestSource takes EBPFSource when *)
(* its hooks attach and Poller otherwise, and only the one taken runs.     *)
(***************************************************************************)
EXTENDS EBPFSource, TLC

CONSTANTS
  t1, t2, h1, h2,
  Names, Ports, Unknown, MaxSpawns

VARIABLES
  source,  \* what NewBestSource returned
  proc, held, spawned, pc, todo, socks, wNames, wPorts, wConns, names, ports, polled,
  carried, during, lastDuring

Polling == INSTANCE Poller WITH conns <- polled

ASSUME PollingAssumption == Polling!PollerAssumption

pollerVars == <<proc, held, spawned, pc, todo, socks, wNames, wPorts, wConns, names, ports, polled,
                carried, during, lastDuring>>

(* Two connections, to different servers. *)
TwoServers == t1 :> h1 @@ t2 :> h2

MCInit ==
  /\ source \in {"ebpf", "poller"}
  /\ Init /\ Polling!Init
  /\ source = "poller" => nborn = 0

MCNext ==
  /\ UNCHANGED source
  /\ \/ source = "ebpf" /\ Next /\ UNCHANGED pollerVars
     \/ source = "poller" /\ Polling!Next /\ UNCHANGED vars

MCSpec == MCInit /\ [][MCNext]_<<source, vars, pollerVars>>

Symmetry ==
  UNION {Permutations(S) : S \in {SkAddrs, Pids, Names}}

-----------------------------------------------------------------------------
(* What Lookup and Connections serve is one walk over the processes (poll): *)
(* the owner of a port held it during the walk, both name the same owner,   *)
(* and a cached name is one its PID had since a walk last missed the PID.   *)
PollIsOneWalk ==
  /\ Polling!TypeOK /\ Polling!PortsAreFresh
  /\ Polling!LookupMatchesConnections /\ Polling!NamesPruned

(* With both rings drained, and no event lost or consumed late, the table     *)
(* lists exactly the open connections (Upsert, Remove), each as the property  *)
(* of the process that connected it (handleEvent).                            *)
TableIsExact == DrainedTableIsExact /\ ConnectorOwnsConnection
=============================================================================
