------------------------------- MODULE Poller -------------------------------
(***************************************************************************)
(* procinfo.Poller: once a second it walks every process's sockets and     *)
(* rebuilds the port map, the process-name cache and the list of open      *)
(* connections.  The walk takes no lock: processes exit, PIDs are reused   *)
(* and ports change hands between any two of its system calls.             *)
(***************************************************************************)
EXTENDS Integers, FiniteSets

CONSTANTS
  Pids,
  Names,     \* executable names
  Ports,     \* local port and transport protocol: portKey
  None,      \* no process, no owner, no entry
  Unknown,   \* "?"
  MaxSpawns  \* bound: processes started in one behaviour

Process == [pid: Pids, name: Names \cup {Unknown}]
Connection == [pid: Pids, name: Names \cup {Unknown}, port: Ports]

PollerAssumption ==
  /\ None \notin Pids \cup Names \cup Process
  /\ Unknown \notin Names \cup {None}
  /\ MaxSpawns \in Nat

VARIABLES
  proc,     \* the kernel: proc[p], the name of the process with PID p, or None
  held,     \* the kernel: the ports each process holds
  spawned,  \* processes started so far
  pc,       \* the poller: "idle", "walk", "name" or "stopped"
  todo,     \* pids still to walk
  socks,    \* the pid whose sockets were just read, and its ports
  wNames, wPorts, wConns, \* the maps this walk is building
  names, ports, conns,    \* Poller.names, Poller.ports, Poller.conns
  carried,  \* history: the names p had since the last complete walk without p
  during,   \* history: pairs of port and name, per pid, seen since the walk began
  lastDuring \* history: the same for the last complete walk

kernelVars == <<proc, held, spawned>>
walkVars == <<todo, socks, wNames, wPorts, wConns>>
pubVars == <<names, ports, conns>>
vars == <<kernelVars, pc, walkVars, pubVars, carried, during, lastDuring>>

NoSocks == [pid |-> None, ports |-> {}]
NoNames == [p \in Pids |-> None]

TypeOK ==
  /\ proc \in [Pids -> Names \cup {None}]
  /\ held \in [Pids -> SUBSET Ports]
  /\ spawned \in 0 .. MaxSpawns
  /\ pc \in {"idle", "walk", "name", "stopped"}
  /\ todo \subseteq Pids
  /\ socks \in [pid: Pids \cup {None}, ports: SUBSET Ports]
  /\ {wNames, names} \subseteq [Pids -> Names \cup {None}]
  /\ {wPorts, ports} \subseteq [Ports -> Process \cup {None}]
  /\ {wConns, conns} \subseteq SUBSET Connection
  /\ {during, lastDuring} \subseteq [names: [Pids -> SUBSET Names], holders: [Ports -> SUBSET Pids]]
  /\ carried \in [Pids -> SUBSET Names]

Now == [names |-> [p \in Pids |-> {proc[p]} \ {None}],
        holders |-> [k \in Ports |-> {p \in Pids : k \in held[p]}]]

Init ==
  /\ proc = NoNames /\ held = [p \in Pids |-> {}] /\ spawned = 0
  /\ pc = "idle" /\ todo = {} /\ socks = NoSocks
  /\ wNames = NoNames /\ wPorts = [k \in Ports |-> None] /\ wConns = {}
  /\ names = NoNames /\ ports = [k \in Ports |-> None] /\ conns = {}
  /\ carried = [p \in Pids |-> {}]
  /\ during = Now /\ lastDuring = Now

-----------------------------------------------------------------------------
(* The kernel.  The history variables see every change. *)

Observe ==
  /\ carried' = [p \in Pids |-> carried[p] \cup ({proc'[p]} \ {None})]
  /\ during' = [names |-> [p \in Pids |-> during.names[p] \cup Now'.names[p]],
                holders |-> [k \in Ports |-> during.holders[k] \cup Now'.holders[k]]]
  /\ UNCHANGED <<pc, walkVars, pubVars, lastDuring>>

Spawn(p, n) ==
  /\ proc[p] = None /\ spawned < MaxSpawns
  /\ proc' = [proc EXCEPT ![p] = n]
  /\ spawned' = spawned + 1
  /\ UNCHANGED held
  /\ Observe

Exit(p) ==
  /\ proc[p] # None
  /\ proc' = [proc EXCEPT ![p] = None]
  /\ held' = [held EXCEPT ![p] = {}]
  /\ UNCHANGED spawned
  /\ Observe

(* SO_REUSEPORT lets several processes hold one port. *)
Bind(p, k) ==
  /\ proc[p] # None /\ k \notin held[p]
  /\ held' = [held EXCEPT ![p] = @ \cup {k}]
  /\ UNCHANGED <<proc, spawned>>
  /\ Observe

Unbind(p, k) ==
  /\ k \in held[p]
  /\ held' = [held EXCEPT ![p] = @ \ {k}]
  /\ UNCHANGED <<proc, spawned>>
  /\ Observe

Kernel == \E p \in Pids : \/ \E n \in Names : Spawn(p, n)
                          \/ Exit(p)
                          \/ \E k \in Ports : Bind(p, k) \/ Unbind(p, k)

-----------------------------------------------------------------------------
(* poll. *)

(* Variant: the walk patches the maps of the walk before it. *)
ListPIDsPatching ==
  /\ pc = "idle"
  /\ pc' = "walk"
  /\ todo' = {p \in Pids : proc[p] # None}
  /\ wNames' = NoNames /\ wPorts' = ports /\ wConns' = conns
  /\ during' = Now
  /\ UNCHANGED <<kernelVars, socks, pubVars, carried, lastDuring>>

(* poll lists the pids and starts from empty maps. *)
ListPIDs ==
  /\ pc = "idle"
  /\ pc' = "walk"
  /\ todo' = {p \in Pids : proc[p] # None}
  /\ wNames' = NoNames /\ wPorts' = [k \in Ports |-> None] /\ wConns' = {}
  /\ during' = Now
  /\ UNCHANGED <<kernelVars, socks, pubVars, carried, lastDuring>>

(* ListPIDs fails: poll returns the error and Run ends, and so it does when *)
(* the context is cancelled between two polls.                              *)
Stop ==
  /\ pc = "idle"
  /\ pc' = "stopped"
  /\ UNCHANGED <<kernelVars, walkVars, pubVars, carried, during, lastDuring>>

(* SocketsForPID: the process may be gone, may refuse inspection, or may    *)
(* hold no socket, and is skipped.                                          *)
SocketsForPID(p) ==
  /\ pc = "walk" /\ p \in todo
  /\ todo' = todo \ {p}
  /\ \/ /\ held[p] # {}
        /\ socks' = [pid |-> p, ports |-> held[p]]
        /\ pc' = "name"
     \/ UNCHANGED <<socks, pc>>
  /\ UNCHANGED <<kernelVars, wNames, wPorts, wConns, pubVars, carried, during, lastDuring>>

(* The name comes from the last poll's cache, else from the kernel, which   *)
(* knows whatever process has the PID by now and may fail to tell; the      *)
(* process's sockets are then recorded, over those of a process walked      *)
(* earlier that holds the same port.  Only a resolved name is cached.       *)
ProcessName ==
  /\ pc = "name"
  /\ pc' = "walk"
  /\ socks' = NoSocks
  /\ \E name \in IF names[socks.pid] # None THEN {names[socks.pid]}
                 ELSE {Unknown} \cup ({proc[socks.pid]} \ {None}) :
       /\ wNames' = IF name # Unknown THEN [wNames EXCEPT ![socks.pid] = name] ELSE wNames
       /\ wPorts' = [k \in Ports |-> IF k \in socks.ports THEN [pid |-> socks.pid, name |-> name] ELSE wPorts[k]]
       /\ wConns' = wConns \cup {[pid |-> socks.pid, name |-> name, port |-> k] : k \in socks.ports}
  /\ UNCHANGED <<kernelVars, todo, pubVars, carried, during, lastDuring>>

(* The three maps are swapped in under the lock. *)
Publish ==
  /\ pc = "walk" /\ todo = {}
  /\ pc' = "idle"
  /\ names' = wNames /\ ports' = wPorts /\ conns' = wConns
  /\ wNames' = NoNames /\ wPorts' = [k \in Ports |-> None] /\ wConns' = {}
  /\ carried' = [p \in Pids |-> IF \E c \in wConns : c.pid = p THEN carried[p] ELSE during.names[p]]
  /\ lastDuring' = during
  /\ UNCHANGED <<kernelVars, todo, socks, during>>

Next == \/ Kernel \/ ListPIDs \/ Stop \/ \E p \in Pids : SocketsForPID(p)
        \/ ProcessName \/ Publish

Spec == Init /\ [][Next]_vars

-----------------------------------------------------------------------------
(* "a recycled port always resolves to its current owner" (poller.go:89-90): *)
(* Lookup and Connections name, for a port, a process that held it at some   *)
(* moment of the last complete walk, never one that had let go of it before. *)
PortsAreFresh ==
  /\ \A k \in Ports : ports[k] # None => ports[k].pid \in lastDuring.holders[k]
  /\ \A c \in conns : c.pid \in lastDuring.holders[c.port]

(* Lookup and Connections never disagree: the owner Lookup gives for a port  *)
(* is one Connections lists, and a port Connections lists has an owner.      *)
LookupMatchesConnections ==
  \A k \in Ports :
    LET listed == {[pid |-> c.pid, name |-> c.name] : c \in {x \in conns : x.port = k}}
    IN IF listed = {} THEN ports[k] = None ELSE ports[k] \in listed

(* A name is only lent to a PID that has been in every walk since the        *)
(* process of that name was alive: a PID missing from one complete walk is   *)
(* looked up afresh (the name cache is rebuilt by each poll).                *)
NamesPruned ==
  \A c \in conns : c.name # Unknown => c.name \in carried[c.pid]

(* "so a PID that has since exited does not go on lending its old name to    *)
(* whatever reuses that number next" (poller.go:92-93): a published name is  *)
(* one that a process with that PID had during the walk.                     *)
NoLentNames ==
  \A c \in conns : c.name # Unknown => c.name \in lastDuring.names[c.pid]
=============================================================================
