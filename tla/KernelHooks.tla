---------------------------- MODULE KernelHooks -----------------------------
(***************************************************************************)
(* The kernel programs of procinfo/bpf and the code that attaches them.    *)
(*                                                                         *)
(* Threads call connect(2), which calls tcp_v4_connect or tcp_v6_connect;  *)
(* the latter calls the former for an IPv4 address in an IPv6 socket.      *)
(* Meanwhile NewBestSource loads programs and attaches hooks one at a      *)
(* time, backs out of a step that fails, and Run drains the ring buffers   *)
(* and lets everything go.  A hook fires on the return of a function only  *)
(* when it was attached as the function was entered and still is.          *)
(***************************************************************************)
EXTENDS Integers, Sequences, FiniteSets, Functions

CONSTANTS
  Tids,      \* thread ids
  Pids,
  Socks,     \* struct sock addresses
  Layouts,   \* what the sockets may be: functions from Socks to Socket
  Stale,     \* what earlier events left in the memory of a ring buffer
  Nil,
  MapSize,   \* max_entries of connect_args_map
  RingSize,  \* events a ring buffer holds
  MaxCalls   \* bound: calls in one behaviour

VARIABLES
  owner,            \* owner[t]: the process thread t belongs to
  socket,           \* the sockets, by address
  state,            \* their TCP states
  call,             \* call[t]: the connect call t is in, or Nil
  ncalls,
  connect_args_map, \* the kprobe variant's scratch map
  ring,             \* the events map of each object
  pc, stage,        \* where NewBestSource and Run are; the attach function
  open,             \* programs, links and readers that are open
  acquired,         \* the current attach function's locals
  closers,          \* EBPFSource.closers
  rings,            \* EBPFSource.rings
  todo,             \* what is being closed
  consumers,        \* consume goroutines
  done,             \* history: successful calls
  unpaired          \* history: threads a hook of whose last call did not fire

kernelVars == <<owner, socket, state, call, ncalls, connect_args_map, ring>>
attachVars == <<pc, stage, open, acquired, closers, rings, todo, consumers>>
historyVars == <<done, unpaired>>
vars == <<kernelVars, attachVars, historyVars>>

-----------------------------------------------------------------------------
(* Addresses and events. *)

(* The sixteen bytes of an address are the first four and the other twelve. *)
V4(a) == [ver |-> 4, head |-> a, tail |-> << >>]
V6(a, b) == [ver |-> 6, head |-> a, tail |-> <<"native", b>>]

(* A socket of any family holds its IPv6 form, ::ffff:a.b.c.d for an IPv4    *)
(* address.                                                                 *)
Bytes(addr) ==
  IF addr.ver = 4 THEN [head |-> 0, tail |-> <<"mapped", addr.head>>]
                  ELSE [head |-> addr.head, tail |-> addr.tail]

(* The address and port a peer would use, in the byte order of the host. *)
ntohs(port) == (port % 256) * 256 + port \div 256

(* netip.Addr.Unmap. *)
Unmap(raw) ==
  IF raw.head = 0 /\ raw.tail[1] = "mapped"
  THEN V4(raw.tail[2])
  ELSE [ver |-> 6, head |-> raw.head, tail |-> raw.tail]

(* Variant: the length of the address is not looked at. *)
addrFromAllBytes(ipVer, raw) == Unmap(raw)

addrFromEventBytes(ipVer, raw) == IF ipVer = 4 THEN V4(raw.head) ELSE Unmap(raw)

(* A socket's key: skc_num is 0 until connect has bound a local port. *)
KeyOf(sk, bound) ==
  [local |-> socket[sk].local, local_port |-> IF bound THEN socket[sk].num ELSE 0,
   remote |-> socket[sk].remote, remote_port |-> ntohs(socket[sk].dport)]

(* The key handleEvent decodes from an event. *)
keyFrom(ev) ==
  [local |-> addrFromEventBytes(ev.ip_ver, ev.local_addr), local_port |-> ev.local_port,
   remote |-> addrFromEventBytes(ev.ip_ver, ev.remote_addr), remote_port |-> ev.remote_port]

(* Four bytes of each address are written; the rest of the reserved memory  *)
(* keeps what it held.                                                      *)
fill_addrs_v4(sk) ==
  {[ip_ver |-> 4, local |-> [head |-> socket[sk].local.head, tail |-> s],
                  remote |-> [head |-> socket[sk].remote.head, tail |-> s]] : s \in Stale}

fill_addrs_v6(sk) ==
  {[ip_ver |-> 6, local |-> Bytes(socket[sk].local), remote |-> Bytes(socket[sk].remote)]}

(* The fields an event is read for; the others are never decoded. *)
Event(sk, pid, new_state, local_port, remote_port, addrs) ==
  [skaddr |-> sk, pid |-> pid, new_state |-> new_state, local_port |-> local_port,
   remote_port |-> remote_port, ip_ver |-> addrs.ip_ver,
   local_addr |-> addrs.local, remote_addr |-> addrs.remote]

(* bpf_ringbuf_reserve and bpf_ringbuf_submit: a full ring drops the event. *)
HasRoom(r) == Len(r) < RingSize
Submit(r, ev) == IF HasRoom(r) THEN Append(r, ev) ELSE r

-----------------------------------------------------------------------------
(* The hooks. *)

Fns == {"tcp_v4_connect", "tcp_v6_connect"}
IpVer(fn) == IF fn = "tcp_v4_connect" THEN 4 ELSE 6
ReturnHooks(fn) == {<<"fexit", fn>>, <<"kretprobe", fn>>}

(* A connect call in flight: the functions it is in, innermost first, each    *)
(* with the return hooks that were armed as it was entered.                  *)
Frames == {f \in [fn : Fns, armed : SUBSET UNION {ReturnHooks(fn) : fn \in Fns}] :
             f.armed \subseteq ReturnHooks(f.fn)}
ConnectCalls == [sk : Socks, ret : {0, -1, Nil}, missed : BOOLEAN, dropped : BOOLEAN,
                 events : Int, stack : Seq(Frames) \ {<< >>}]

(* A socket has two addresses of one version, 4 when its family is AF_INET.   *)
IsAddr(a) == a = V4(a.head) \/ a = V6(a.head, a.tail[2])
IsSocket(s) ==
  /\ IsAddr(s.local) /\ IsAddr(s.remote) /\ s.local.ver = s.remote.ver
  /\ s.family = "AF_INET" => s.remote.ver = 4

ASSUME HooksAssumption ==
  /\ MapSize \in Nat /\ RingSize \in Nat /\ MaxCalls \in Nat
  /\ Nil \notin Tids \cup Pids \cup Socks \cup ConnectCalls \cup {0, -1}
  /\ Stale # {}
  /\ \A L \in Layouts : \A sk \in Socks : IsSocket(L[sk])

RingOf(hook) == IF hook[1] = "fexit" THEN "fentry" ELSE "kprobe"

(* The events a connect hook may submit for a socket it found. *)
ConnectEvents(sk, pid, ip_ver) ==
  {Event(sk, pid, state[sk], socket[sk].num, ntohs(socket[sk].dport), addrs) :
     addrs \in IF ip_ver = 4 THEN fill_addrs_v4(sk) ELSE fill_addrs_v6(sk)}

(* Variant: an entry that is there is kept. *)
kprobe_connect_entry_noexist(t, sk) ==
  connect_args_map' = [connect_args_map EXCEPT ![t] = IF @ = Nil THEN sk ELSE @]

(* BPF_ANY: an existing entry is replaced, a new one needs room. *)
ScratchFull(t) ==
  connect_args_map[t] = Nil /\ Cardinality({x \in Tids : connect_args_map[x] # Nil}) >= MapSize

kprobe_connect_entry(t, sk) ==
  connect_args_map' = IF ScratchFull(t) THEN connect_args_map
                                        ELSE [connect_args_map EXCEPT ![t] = sk]

(* Variant: the entry is looked up after it is deleted. *)
FoundAfterDelete(t, hook) == IF hook[1] = "fexit" THEN call[t].sk ELSE Nil

(* The socket a return hook reports, or Nil: fexit has the argument, the      *)
(* kretprobe what the entry stored.                                          *)
Found(t, hook) == IF hook[1] = "fexit" THEN call[t].sk ELSE connect_args_map[t]

(* Variant: the entry is deleted once the call is known to have succeeded. *)
deletedOnSuccess(t, hook, ret) ==
  IF hook[1] = "kretprobe" /\ ret = 0 THEN [connect_args_map EXCEPT ![t] = Nil] ELSE connect_args_map

(* kretprobe_connect_exit deletes the entry whatever the call returned. *)
deleted(t, hook, ret) ==
  IF hook[1] = "kretprobe" THEN [connect_args_map EXCEPT ![t] = Nil] ELSE connect_args_map

(* emit_connect_event and kretprobe_connect_exit. *)
ReturnHook(t, hook, ret) ==
  LET sk == Found(t, hook)
      r == RingOf(hook)
  IN /\ connect_args_map' = deleted(t, hook, ret)
     /\ IF ret = 0 /\ sk # Nil
        THEN \E ev \in ConnectEvents(sk, owner[t], IpVer(hook[2])) :
               ring' = [ring EXCEPT ![r] = Submit(@, ev)]
        ELSE UNCHANGED ring

(* The tracepoint passes both ports in host order. *)
tracepoint_inet_sock_set_state(sk, cur, newstate, bound) ==
  \E addrs \in IF socket[sk].family = "AF_INET" THEN fill_addrs_v4(sk) ELSE fill_addrs_v6(sk) :
    ring' = IF <<"tracepoint", "inet_sock_set_state">> \in open /\ socket[sk].protocol = "IPPROTO_TCP"
            THEN [ring EXCEPT !["sockstate"] =
                    Submit(@, Event(sk, cur, newstate, KeyOf(sk, bound).local_port,
                                    ntohs(socket[sk].dport), addrs))]
            ELSE ring

-----------------------------------------------------------------------------
(* The kernel's side of a connection. *)

Top(t) == Head(call[t].stack)

(* A function is entered: its entry hook fires and its return hooks are      *)
(* armed.  A kretprobe that has no free instance misses the call.            *)
Enter(t, sk, fn, frames, missed) ==
  \E armed \in SUBSET (ReturnHooks(fn) \cap open) :
    LET recorded == <<"kprobe", fn>> \in open
        unseen == \/ armed = {}
                  \/ <<"kretprobe", fn>> \in armed /\ (~recorded \/ ScratchFull(t))
    IN /\ <<"fexit", fn>> \in open => <<"fexit", fn>> \in armed
       /\ IF recorded THEN kprobe_connect_entry(t, sk) ELSE UNCHANGED connect_args_map
       /\ call' = [call EXCEPT ![t] =
                     [sk |-> sk, ret |-> Nil, missed |-> missed \/ unseen, dropped |-> FALSE, events |-> 0,
                      stack |-> <<[fn |-> fn, armed |-> armed]>> \o frames]]

Connect(t, sk) ==
  /\ ncalls < MaxCalls /\ ncalls' = ncalls + 1
  /\ call[t] = Nil /\ state[sk] = "CLOSE" /\ socket[sk].protocol = "IPPROTO_TCP"
  /\ \A u \in Tids : call[u] # Nil => call[u].sk # sk
  /\ Enter(t, sk, IF socket[sk].family = "AF_INET" THEN "tcp_v4_connect" ELSE "tcp_v6_connect",
           << >>, FALSE)
  /\ UNCHANGED <<owner, socket, state, ring, attachVars, historyVars>>

(* tcp_v6_connect hands an IPv4 address to tcp_v4_connect. *)
Innermost(t) ==
  Top(t).fn = IF socket[call[t].sk].remote.ver = 4 THEN "tcp_v4_connect" ELSE "tcp_v6_connect"

Deciding(t) == call[t] # Nil /\ call[t].ret = Nil

Nest(t) ==
  /\ Deciding(t) /\ ~Innermost(t)
  /\ Enter(t, call[t].sk, "tcp_v4_connect", call[t].stack, call[t].missed)
  /\ UNCHANGED <<owner, socket, state, ncalls, ring, attachVars, historyVars>>

(* TCP_SYN_SENT, before a local port is bound. *)
Syn(t) ==
  /\ Deciding(t) /\ Innermost(t) /\ state[call[t].sk] = "CLOSE"
  /\ state' = [state EXCEPT ![call[t].sk] = "SYN_SENT"]
  /\ tracepoint_inet_sock_set_state(call[t].sk, owner[t], "SYN_SENT", FALSE)
  /\ UNCHANGED <<owner, socket, call, ncalls, connect_args_map, attachVars, historyVars>>

(* The function gives up after that. *)
GiveUp(t) ==
  /\ Deciding(t) /\ state[call[t].sk] = "SYN_SENT"
  /\ state' = [state EXCEPT ![call[t].sk] = "CLOSE"]
  /\ call' = [call EXCEPT ![t].ret = -1]
  /\ tracepoint_inet_sock_set_state(call[t].sk, owner[t], "CLOSE", FALSE)
  /\ UNCHANGED <<owner, socket, ncalls, connect_args_map, attachVars, historyVars>>

Report(t) == [sk |-> call[t].sk, pid |-> owner[t], key |-> KeyOf(call[t].sk, TRUE)]

(* What a function returns: what its callee did, an error before TCP_SYN_SENT *)
(* or after giving up, else 0.                                               *)
MayReturn(t, ret) ==
  /\ call[t] # Nil
  /\ IF call[t].ret # Nil THEN ret = call[t].ret
     ELSE Innermost(t) /\ ret = IF state[call[t].sk] = "SYN_SENT" THEN 0 ELSE -1

(* A function returns: an armed hook that is still attached fires. *)
Return(t, ret) ==
  LET fired == Top(t).armed \cap open
      outer == Tail(call[t].stack)
      missed == call[t].missed \/ fired # Top(t).armed
      dropped == call[t].dropped \/ \E h \in fired : ~HasRoom(ring[RingOf(h)])
      events == call[t].events + (Len(ring'["fentry"]) + Len(ring'["kprobe"])
                                  - Len(ring["fentry"]) - Len(ring["kprobe"]))
  IN /\ MayReturn(t, ret)
     /\ IF fired = {} THEN UNCHANGED <<ring, connect_args_map>>
                      ELSE \E h \in fired : ReturnHook(t, h, ret)
     /\ IF outer = << >>
        THEN /\ call' = [call EXCEPT ![t] = Nil]
             /\ unpaired' = IF missed THEN unpaired \cup {t} ELSE unpaired \ {t}
             /\ done' = IF ret # 0 THEN done
                        ELSE done \cup {[report |-> Report(t), missed |-> missed,
                                         dropped |-> dropped, events |-> events]}
        ELSE /\ call' = [call EXCEPT ![t] = [sk |-> @.sk, ret |-> ret, missed |-> missed,
                           dropped |-> dropped, events |-> events, stack |-> outer]]
             /\ UNCHANGED <<unpaired, done>>
     /\ UNCHANGED <<owner, socket, state, ncalls, attachVars>>

(* A later transition, in the context of whatever process is running.  The   *)
(* tracepoint also fires for sockets of other protocols.                     *)
SetState(sk, cur, newstate) ==
  /\ \A t \in Tids : call[t] # Nil => call[t].sk # sk
  /\ <<state[sk], newstate>> \in {<<"SYN_SENT", "ESTABLISHED">>, <<"SYN_SENT", "CLOSE">>,
                                   <<"ESTABLISHED", "CLOSE">>}
  /\ state' = [state EXCEPT ![sk] = newstate]
  /\ tracepoint_inet_sock_set_state(sk, cur, newstate, TRUE)
  /\ UNCHANGED <<owner, socket, call, ncalls, connect_args_map, attachVars, historyVars>>

(* A thread ends and its id is given to a thread of another process. *)
Recycle(t, p) ==
  /\ call[t] = Nil /\ owner[t] # p
  /\ owner' = [owner EXCEPT ![t] = p]
  /\ UNCHANGED <<socket, state, call, ncalls, connect_args_map, ring, attachVars, historyVars>>

Kernel ==
  \/ \E t \in Tids : \/ \E sk \in Socks : Connect(t, sk)
                     \/ Nest(t) \/ Syn(t) \/ GiveUp(t)
                     \/ \E ret \in {0, -1} : Return(t, ret)
                     \/ \E p \in Pids : Recycle(t, p)
  \/ \E sk \in Socks, cur \in Pids, st \in {"ESTABLISHED", "CLOSE"} : SetState(sk, cur, st)

-----------------------------------------------------------------------------
(* NewBestSource and Run. *)

(* What each attach function opens, in order: the collection, its links and   *)
(* the reader of its ring.                                                   *)
attachFentry ==
  << <<"objs", "fentry">>, <<"fexit", "tcp_v4_connect">>, <<"fexit", "tcp_v6_connect">>,
     <<"reader", "fentry">> >>

attachKprobeConnect ==
  << <<"objs", "kprobe">>, <<"kprobe", "tcp_v4_connect">>, <<"kprobe", "tcp_v6_connect">>,
     <<"kretprobe", "tcp_v4_connect">>, <<"kretprobe", "tcp_v6_connect">>, <<"reader", "kprobe">> >>

attachSockstate ==
  << <<"objs", "sockstate">>, <<"tracepoint", "inet_sock_set_state">>, <<"reader", "sockstate">> >>

Plan == [fentry |-> attachFentry, kprobe |-> attachKprobeConnect, sockstate |-> attachSockstate]

Resources == UNION {Range(Plan[m]) : m \in DOMAIN Plan}

(* The links in attach order, then the collection. *)
linksThenObjs(s) == IF s = << >> THEN << >> ELSE Append(Tail(s), Head(s))

(* The closers, last opened first (closeAll). *)
LastFirst(s) == [i \in 1 .. Len(s) |-> s[(Len(s) - i) + 1]]

(* NewEBPFSource raises the memlock limit first; attach starts with fentry    *)
(* where the kernel has BTF.                                                 *)
RemoveMemlock ==
  /\ pc = "start"
  /\ \/ pc' = "poller" /\ UNCHANGED stage
     \/ pc' = "attach" /\ stage' \in {"fentry", "kprobe"}
  /\ UNCHANGED <<kernelVars, open, acquired, closers, rings, todo, consumers, historyVars>>

(* One load, attach or open succeeds.  Loading a collection creates its maps; *)
(* a reader is the last step, after which the source keeps what was opened.   *)
AcquireNext ==
  LET item == Plan[stage][Len(acquired) + 1]
      last == Len(acquired) + 1 = Len(Plan[stage])
  IN /\ pc = "attach"
     /\ open' = open \cup {item}
     /\ ring' = IF item[1] = "objs" THEN [ring EXCEPT ![stage] = << >>] ELSE ring
     /\ connect_args_map' = IF item = <<"objs", "kprobe">> THEN [t \in Tids |-> Nil] ELSE connect_args_map
     /\ unpaired' = IF item = <<"objs", "kprobe">> THEN {} ELSE unpaired
     /\ acquired' = IF last THEN << >> ELSE Append(acquired, item)
     /\ closers' = IF last THEN closers \o linksThenObjs(acquired) ELSE closers
     /\ rings' = IF last THEN Append(rings, item) ELSE rings
     /\ stage' = IF last /\ stage # "sockstate" THEN "sockstate" ELSE stage
     /\ pc' = IF last /\ stage = "sockstate" THEN "bootstrap" ELSE pc
     /\ UNCHANGED <<owner, socket, state, call, ncalls, todo, consumers, done>>

(* Variant: what was opened before the failure is kept open. *)
AcquireFailsOpen ==
  /\ pc = "attach" /\ pc' = "unwind" /\ todo' = << >> /\ acquired' = << >>
  /\ UNCHANGED <<kernelVars, stage, open, closers, rings, consumers, historyVars>>

(* One fails: the attach function closes what it has opened. *)
AcquireFails ==
  /\ pc = "attach" /\ pc' = "unwind"
  /\ todo' = linksThenObjs(acquired) /\ acquired' = << >>
  /\ UNCHANGED <<kernelVars, stage, open, closers, rings, consumers, historyVars>>

CloseNext ==
  /\ pc \in {"unwind", "abandon", "closeAll"} /\ todo # << >>
  /\ open' = open \ {Head(todo)} /\ todo' = Tail(todo)
  /\ UNCHANGED <<kernelVars, pc, stage, acquired, closers, rings, consumers, historyVars>>

(* attach: kprobes after fentry; any other failure is NewEBPFSource's, which  *)
(* calls closeAll.                                                           *)
Unwound ==
  /\ pc = "unwind" /\ todo = << >>
  /\ IF stage = "fentry"
     THEN pc' = "attach" /\ stage' = "kprobe" /\ UNCHANGED todo
     ELSE pc' = "abandon" /\ todo' = LastFirst(closers) /\ UNCHANGED stage
  /\ UNCHANGED <<kernelVars, open, acquired, closers, rings, consumers, historyVars>>

(* NewBestSource falls back. *)
NewPoller ==
  /\ pc = "abandon" /\ todo = << >> /\ pc' = "poller"
  /\ UNCHANGED <<kernelVars, stage, open, acquired, closers, rings, todo, consumers, historyVars>>

(* bootstrap is over and Run starts a consumer per ring. *)
RunStarts ==
  /\ pc = "bootstrap" /\ pc' = "running"
  /\ consumers' = Range(rings)
  /\ UNCHANGED <<kernelVars, stage, open, acquired, closers, rings, todo, historyVars>>

(* One turn of consume: an event is read and given to handleEvent. *)
consume(r) ==
  /\ r \in consumers \cap open /\ ring[r[2]] # << >>
  /\ ring' = [ring EXCEPT ![r[2]] = Tail(@)]
  /\ UNCHANGED <<owner, socket, state, call, ncalls, connect_args_map, attachVars, historyVars>>

(* ErrClosed ends a consumer. *)
consumeEnds(r) ==
  /\ r \in consumers \ open
  /\ consumers' = consumers \ {r}
  /\ UNCHANGED <<kernelVars, pc, stage, open, acquired, closers, rings, todo, historyVars>>

(* The context is done: Run closes the readers in order. *)
CloseReader ==
  /\ pc = "running"
  /\ \E i \in DOMAIN rings : /\ rings[i] \in open /\ \A j \in 1 .. i - 1 : rings[j] \notin open
                             /\ open' = open \ {rings[i]}
  /\ UNCHANGED <<kernelVars, pc, stage, acquired, closers, rings, todo, consumers, historyVars>>

(* wg.Wait, then closeAll. *)
RunCloses ==
  /\ pc = "running" /\ consumers = {}
  /\ pc' = "closeAll" /\ todo' = LastFirst(closers)
  /\ UNCHANGED <<kernelVars, stage, open, acquired, closers, rings, consumers, historyVars>>

RunReturns ==
  /\ pc = "closeAll" /\ todo = << >> /\ pc' = "returned"
  /\ UNCHANGED <<kernelVars, stage, open, acquired, closers, rings, todo, consumers, historyVars>>

Source ==
  \/ RemoveMemlock \/ AcquireNext \/ AcquireFails \/ CloseNext \/ Unwound \/ NewPoller
  \/ RunStarts \/ CloseReader \/ RunCloses \/ RunReturns
  \/ \E r \in consumers : consume(r) \/ consumeEnds(r)

Init ==
  /\ owner \in [Tids -> Pids] /\ socket \in Layouts
  /\ state = [sk \in Socks |-> IF socket[sk].protocol = "IPPROTO_TCP" THEN "CLOSE" ELSE "SYN_SENT"]
  /\ call = [t \in Tids |-> Nil] /\ ncalls = 0
  /\ connect_args_map = [t \in Tids |-> Nil]
  /\ ring = [m \in DOMAIN Plan |-> << >>]
  /\ pc = "start" /\ stage = "fentry" /\ open = {}
  /\ acquired = << >> /\ closers = << >> /\ rings = << >> /\ todo = << >> /\ consumers = {}
  /\ done = {} /\ unpaired = {}

Next == Kernel \/ Source

Spec == Init /\ [][Next]_vars

-----------------------------------------------------------------------------
(* Socket addresses, threads and keys stay in their sets, and rings within    *)
(* their size.                                                               *)
TypeOK ==
  /\ owner \in [Tids -> Pids] /\ connect_args_map \in [Tids -> Socks \cup {Nil}]
  /\ socket \in Layouts /\ state \in [Socks -> {"CLOSE", "SYN_SENT", "ESTABLISHED"}]
  /\ open \subseteq Resources /\ consumers \subseteq Resources /\ unpaired \subseteq Tids
  /\ call \in [Tids -> ConnectCalls \cup {Nil}]
  /\ \A m \in DOMAIN Plan : Len(ring[m]) <= RingSize

Calls(t) == IF call[t] # Nil /\ call[t].ret = 0 THEN {Report(t)} ELSE {}
Reports == {d.report : d \in done} \cup UNION {Calls(t) : t \in Tids}

(* "both attach modes emit identical struct event values downstream"          *)
(* (connect_kprobe.c:11-13), and a connect event's PID is trustworthy         *)
(* (ebpf_linux.go:357): whatever connect event waits for handleEvent names the *)
(* socket, the process and the whole tuple of one successful call, also when  *)
(* hooks came and went during calls, returns were missed, thread ids were     *)
(* reused, or the memory of the ring held other events.  A state event        *)
(* decodes to the same tuple, so that both find one entry of the table.       *)
EventsAreTrue ==
  \A r \in Range(rings) \cap open : \A i \in DOMAIN ring[r[2]] :
    LET ev == ring[r[2]][i]
    IN IF r[2] = "sockstate"
       THEN /\ socket[ev.skaddr].protocol = "IPPROTO_TCP"
            /\ \E bound \in BOOLEAN : keyFrom(ev) = KeyOf(ev.skaddr, bound)
       ELSE /\ [sk |-> ev.skaddr, pid |-> ev.pid, key |-> keyFrom(ev)] \in Reports
            /\ ev.new_state = "SYN_SENT"

(* A successful call none of whose hooks was missing, missed or out of room   *)
(* is reported: once, or twice where fexit fires on the nested function too.  *)
CallsAreReported ==
  \A d \in done : ~d.missed /\ ~d.dropped => d.events \in 1 .. 2

(* The connect events are exactly the successful calls: every event is that   *)
(* of one (kprobe_connect_entry, kretprobe_connect_exit, emit_connect_event), *)
(* and every one that no hook missed and no ring dropped has its event.       *)
EventsMatchCalls == EventsAreTrue /\ CallsAreReported

(* The scratch map holds what a call in flight stored, or what was left by a  *)
(* thread whose last call met no return hook: nothing else fills it up.       *)
ScratchAccounted ==
  \A t \in Tids : connect_args_map[t] # Nil =>
    t \in unpaired \/ (call[t] # Nil /\ connect_args_map[t] = call[t].sk)

(* "falling back to the procfs Poller on any error" (source_linux.go:8) and   *)
(* closeAll "releases every attached link and loaded collection"              *)
(* (ebpf_linux.go:506): neither a failed start nor a finished Run leaves a    *)
(* hook in the kernel; no consumer outlives Run, and only after an attach     *)
(* that failed late is a reader left.                                         *)
NothingStaysAttached ==
  /\ pc = "poller" => open \subseteq {<<"reader", "fentry">>, <<"reader", "kprobe">>}
  /\ pc = "returned" => open = {} /\ consumers = {}
=============================================================================
