# A TLA+ model of trafficmon

trafficmon shows, for every open socket of a host, the process that owns it, the
traffic it carries and the name of the other end; as an OpenTelemetry receiver it
exports the same as metrics and logs. This directory models the concurrent and
stateful parts of the program in TLA+, checks them with TLC on small instances,
and proves the central invariants with TLAPS for instances of any size. Source
paths below are relative to `src/`.

## 1. The system

| Part | Source | State | Operations | What is hard |
| --- | --- | --- | --- | --- |
| Capture: flow table | `capture/pcap.go`, `capture/flow.go` | `Capturer.flows`, one `ByteCounter` per flow | `record`, `Add`, `Snapshot`, `Evict` | several locks; a counter is used after the map's lock is released |
| Capture: rates | `capture/flow.go` | a ring of one-second buckets | `advance`, `Add`, `Rates` | timestamps out of order, two clocks, idle gaps |
| Capture: decoding | `capture/decode.go`, `capture/flow.go` | layer structs reused for every packet | `decode`, `normalise`, `handlePacket` | what an earlier packet left behind |
| Capture: hostnames | `capture/dpi_dispatch.go`, `dpi/reassemble.go` | a flow's hostname, budget and assembler | `inspect`, `Feed` | segments lost, repeated, reordered; sequence numbers wrap |
| Hostname cache | `dpi/hostname_cache.go` | an LRU list with expiry | `Put`, `Get` | capacity, packet time against wall clock |
| Events and logs | `capture/synevents.go`, `capture/logfeed.go`, `receiver/receiver.go`, `receiver/synattempts.go` | drop-oldest rings, drop-newest channels, a batch, attempt counts | `push`, `drain`, `send`, `forwardLogs` | full queues, cancellation, counting in a moving window |
| Connections by polling | `procinfo/poller.go` | ports, names, connections of the last walk | `poll`, `Lookup`, `Connections` | the walk is not atomic; PIDs and ports are reused |
| Kernel programs and their attaching | `procinfo/bpf/*/*.c`, `procinfo/ebpf_linux.go`, `procinfo/source_linux.go` | a scratch map per thread, ring buffers, open links and readers | the hooks on `connect`, the state tracepoint; `NewBestSource`, `attach*`, `closeAll`, `Run` | hooks come and go while threads are inside a call; calls nest; any step of attaching fails |
| Connections by eBPF | `procinfo/ebpf_linux.go`, `procinfo/bpf` | `conns`, `skToKey`, two ring buffers | `bootstrap`, `consume`, `handleEvent` | two consumers, incomplete tuples, reused socket addresses, drops |
| Aggregation | `aggregate/aggregator.go` | one record per connection | `Refresh` | joins three sources; a grace period; decides what capture may forget; a pause stops it |
| Rows and table | `aggregate/rows.go`, `cmd/trafficmon/internal/tui` | snapshot, rows, cursor, settings, filter, overlays | the tick and key handlers | the rows are a cache; the cursor is an index |
| Panels and columns | `cmd/trafficmon/internal/tui` | split, divider drag, events ring and window | resize, mouse and key handlers, `fitColumns` | floors and shortages, off by one |
| Reverse DNS | `dns/resolver.go` | two cache generations, marks, a semaphore | `Lookup`, `resolve` | deadlines against late answers, one slot per query |
| Metrics | `receiver/translate.go` | counters, overflow, last values | `collect`, `buildMetrics` | a cardinality cap whose members shift; refused batches |
| Receiver life | `receiver/factory.go`, `receiver/receiver.go` | one shared instance, references, goroutines | create, `Start`, `Shutdown` | two signals, a mutex taken on every tick, failed starts |
| Session life | `cmd/trafficmon/main.go`, `capture/pcap.go` | an errgroup and a context | `run`, `Capturer.Run`, `captureOn` | which error is first, who ends whom |

Packets go from capture's goroutines (one per interface) into the flow table, the
event rings and the log feed. Once a second `Aggregator.Refresh` copies the flow
table, joins it with the connections of a source, evicts what is old and drains
the rings. Its snapshot feeds the terminal interface or the receiver's metrics;
the log feed goes to `forwardLogs`.

`PROJECT.json` names every part (`components`), the lines each definition stands
for (`map`) and the hazards at their lines (`hazards`).

## 2. Modules

Every component module has its state as variables, one action per operation, and
its properties at the end. A step is one critical section, one channel operation
or one outcome of a `select`. Definitions keep the source's names. A definition
introduced by "Variant" is a plausible mistake in the code; it is not used by any
specification and shows which mistake a property would catch.

| Module | Models | Correspondence |
| --- | --- | --- |
| `FlowTable` | flow table | `flows` maps a key to the identity of a counter, `ctr` is the heap; `held[i]` is `record`'s pointer between the unlock and `Add`. `Lookup`, `Create`, `Add` are the three critical sections of `record`; `SnapshotTotals` and `SnapshotLastSeen` those of `Snapshot`; `EvictScan` and `EvictSweep` those of `Evict` |
| `Aggregator` | `Refresh` | extends `FlowTable`: `SnapshotEnd` is followed by the join, in one step (it touches only the aggregator's own state), then by eviction with the keep set `openFlowKeys` builds. Sockets and the poll are the environment |
| `PausedRefresh` | the caller of `Refresh` | extends `Aggregator` with the interface's pause: `TogglePause`, a tick that finds the model paused, a tick that refreshes |
| `ByteCounter` | rate ring | `advance`, `Add`, `Rates` on buckets of one second |
| `Decoder` | decoding | `decode` over layers that keep their last contents, `normalise`, the SYN/RST decisions |
| `Inspect` | hostname search | `inspect` with its budget and its skip of small datagrams, `Feed` with offsets modulo the sequence space |
| `HostnameCache` | LRU cache | `Put`, `Get` |
| `EventLog` | rings, feed, `forwardLogs` | one action per `select` case; a packet is captured at most `MaxLag` after the time it is stamped with. `Kinds` have a ring and a log feed (SYNs, DNS queries), `Unlogged` only a ring (RSTs, DNS errors, DNS answers) |
| `Poller` | polling source | one action per system call of `poll`, and its publication |
| `KernelHooks` | kernel programs, attaching | one operator per program of the three objects, with the program's name; a connect call is a stack of functions with the hooks armed at entry. `attachFentry`, `attachKprobeConnect`, `attachSockstate` list what each function opens in order; every load, attach, open and close is a step, and every one but a close may fail |
| `EBPFSource` | eBPF source | `bootstrap`, one consumer per ring, `handleEvent` as `Upsert` and `Remove`; kernel sockets are the environment, and report a connect once or twice as `KernelHooks` does |
| `Rows` | grouping, filters, order | pure operators; folds over the snapshot |
| `Model` | table state | one action per key, and the tick; `rebuild` is part of every handler that calls it |
| `Panels`, `Columns` | layout | `layout`, `resizePanels`, `handleMouse`, `appendEvents`; `dropLowest` and `shareFlex`. `handleMouse` looks at no button, so a `Press` is a button or a notch of the wheel, which has no release |
| `Resolver` | reverse DNS | `Lookup` on a hit and a miss, the two cases of `resolve`'s `select`, its critical section, its deferred receive |
| `ReverseNames` | what `Resolver` promises | abstract: an address is unknown, asked about or known; `Resolver!ImplementsNames` maps both generations to `known` and the marks to `asked` |
| `MetricsState` | metrics | `collect` is one tick; a refused batch is a choice |
| `Receiver` | receiver life | `create`, `Start`, `Shutdown`, `wait`, `forget` and the goroutines |
| `Program` | session life | `run`'s goroutines, `captureOn` per interface, the errgroup. `Resolve` is the start of `Capturer.Run`, which finds its interfaces, `RunEarly` its returns before that; `TuiEnds` is the end of the interface and the deferred `stop`, `TuiReturns` the group's receipt of its error |
| `AggregatorProofs` | | theorems about `FlowTable` and `Aggregator` |
| `PacketProofs`, `HostnameCacheProofs` | | theorems about `ByteCounter`, `Decoder`, `Inspect`; `HostnameCache` |
| `SourcesProofs`, `KernelHooksProofs` | | theorems about `EBPFSource`, `Poller`; `KernelHooks` |
| `ResolverProofs` | | theorems about `Resolver` |
| `LifecycleProofs` | | theorems about `Receiver`, `Program`, `EventLog`'s rings, `MetricsState` |
| `PanelsProofs` | | theorems about `Panels` |

The `MC` modules instantiate them. Where one instance with everything in it would
only multiply independent choices, an `MC` module has a variable (`scene`,
`source`, `host`) that fixes for a behaviour which inputs it uses, or which of
several components with disjoint state takes the steps; the state space is then a
sum and not a product. `scene` restricts inputs and bounds only, never what a
handler does with them.

## 3. Runs

All bounds are constants of the `.cfg` files.

| Run | Configuration | Shows | Why the bounds are enough |
| --- | --- | --- | --- |
| `flow_table` | `FlowTable.cfg` | `OneWriterPerFlow`: the counter a goroutine credits after the unlock is its own flow's and no other goroutine's, and nobody creates it in the gap; a snapshot that shows bytes shows their date; a sweep only takes quiet flows; totals in the table only grow | two interfaces carry the same tuple; three packets, one possibly two ticks late, race a complete refresh; counters are recycled |
| `aggregator` | `Aggregator.cfg` | `ShowsExactlyRecentRows`: the table shows exactly the rows a source had within the grace period; `RowsKeepTheirHistory`: a row keeps its first time, and its bytes fall only after silence | time for a row to vanish, come back and vanish again; two interfaces with one tuple, or traffic with and without sockets |
| `aggregator_live` | `AggregatorLive.cfg` | `EvictedAfterPause`: once the last pause is over, a flow nobody keeps open is evicted; `RowsFollowSockets`: a socket that stays open gets its row, and the row of one that is gone leaves, whatever was paused | one flow suffices; packets may be created before, during and after a pause, and the clock passes the grace period twice |
| `aggregator_open_totals` | `AggregatorOpenTotals.cfg` | violated, see section 6 | |
| `packet` | `Packet.cfg` | each bucket holds its second's bytes; `PacketsAreOwn`: both directions share one key and are counted apart, and events are the packet's own; `HelloIsExact`: a hostname is read from contiguous bytes and an opening hello is found, unless it starts in a datagram too small to be looked at; `HostnamesKept`: the cache forgets only what is unused or expired | idle gaps below, at and beyond the window; every pair of packets through one decoder; a hello in any segments, small and large, wrapping the sequence space; three addresses in a cache of two |
| `resolver` | `Resolver.cfg` | one slot per query on every path; cache and marks agree; only cold addresses are lost; `ImplementsNames`: an address is asked about once at a time, a known answer changes only by being forgotten, and a full generation is always remembered; the backlog drains | as many addresses as fit, with deadlines and cancellation, twice as many as slots; or one more than fits, so that generations rotate |
| `sources` | `Sources.cfg` | no entry is orphaned; `TableIsExact`: a drained table lists exactly the open connections, each owned by who connected it; a poll publishes one walk | two sockets and two struct sock addresses reused, rings of two that overflow; two PIDs, three processes, one port |
| `hooks` | `KernelHooks.cfg` | `EventsMatchCalls`: a connect event names the socket, process and tuple of a call that succeeded, in either attach mode, and a call no hook missed has its event; `ScratchAccounted`: the scratch map holds threads inside a call, and those whose return no hook saw; `NothingStaysAttached`: after a failure or at the end no link or program stays open | two threads meet in a scratch map of one and rings of one; an IPv4-mapped call nests; any step of attaching fails, and any hook comes or goes inside a call; a thread id passes to another process |
| `event_log` | `EventLog.cfg` | every event is queued, logged or counted as dropped; a ring holds the latest events of its kind; `AttemptsAreRecent`: a count misses no attempt of the window that ends now and has none older than the window before its SYN, and whatever is sent prunes the whole cache; drops are reported | three events of two tuples against a channel of one and rings of two, stamped up to one second late, so in any order; a window the clock passes |
| `metrics` | `MetricsState.cfg` | no event is lost or counted twice; what is exported is current; overflow bytes are backed by traffic | two endpoints for one place, two closes, three events |
| `lifecycle` | `Lifecycle.cfg` | the engine lives as long as it is referenced; `FailuresSurface`: `run` reports the failure that ended the session, and nothing after an orderly end; `EverythingReturns`: `Shutdown` returns and the session ends | both signals; no, one and two interfaces, each of which opens or fails |
| `tui` | `Tui.cfg` | a row is its whole group; `TableMatchesHeader`: rows, order and filter are the ones the header names, and a cancelled edit leaves no trace; `TableHoldsStill`: the selection follows its row and a quiet table does not move; the frame fills the terminal to the line; `SplitIsTheUsers`: a drag follows the pointer and no resize gives the events panel more; the selected event is drawn; columns fill the width | three connections in two processes cover every grouping, filter and tie, with a hostname of their own, a resolved one or none; buttons and the wheel on every row near the divider; heights below, at and above both floors, with the products float64 rounds down; a ring of six overflowing; every width to 180 |

`CHECK_DEADLOCK FALSE` stands where the modelled system may stop: a bounded
number of packets (`packet`), of sockets and processes (`sources`) or of calls
(`hooks`), a program that has exited (`lifecycle`), columns that have been sized
(`tui`).

`resolver` checks a refinement: the abstract specification `ReverseNames`, with
`Resolver`'s state substituted for its own, is a property of `Resolver`
(`ImplementsNames`). `Aggregator` and `PausedRefresh` extend `FlowTable` and take
its own actions, so there is nothing to map between them. `tui` composes `Model` and `Panels`, which share the
focus and the zoom, with `Columns`.

Of 41 properties, 40 hold and one must fail. Some modules define more, which hold
in the same instances and can be added to a `.cfg`: a type invariant in each
module, and for example `CancelTeachesNothing`, `PauseFreezes`, `OneEngine`,
`PeersCapped`, `QueuedIsLogged`.

## 4. Fairness

Fairness is only assumed of what the scheduler or a ticker guarantees.

- `PausedRefresh`: the clock, the poll loop and the interface's ticks go on, and
  a capture goroutine finishes the packet it has started. Packets, sockets and
  the user's pauses promise nothing: `EvictedAfterPause` and `RowsFollowSockets`
  only speak of behaviours with a last pause.
- `Resolver`: the render loop offers every address again on every tick,
  deadlines pass and `resolve` goroutines are scheduled. No query need ever
  answer. Under weak fairness the backlog drains when the addresses on screen
  fit in the two generations; with more, addresses that were forgotten and are
  asked about again can take every free slot.
- `EventLog`: Go's `select` chooses at random among the ready cases, so none is
  passed over for ever; the flush ticker ticks.
- `Receiver`: goroutines are scheduled, `sync.Mutex` starves nobody (strong
  fairness of `Shutdown`, which competes with `collect`), a `Run` returns once
  its context is done, the collector shuts down every signal.
- `Program`: `Capturer.Run` finds its interfaces or fails to, and each handle is
  opened or fails; parts are scheduled until they return once the context is
  done, and the error of one that has ended reaches the group; a read of a
  capture handle times out, so `captureOn` looks at the context again. Nothing
  need end a session: no failure, signal or key is fair.

## 5. Proofs

The theorems hold for every value of the constants that satisfies the named
assumptions of the modules: any interfaces, tuples, sockets, threads, addresses
and processes, any capacity, any bound. "Property" is the property of section 3
that the theorem states.

| Module | Theorem | Property | Inductive invariant |
| --- | --- | --- | --- |
| `AggregatorProofs` | `WritersAreApart` | `OneWriterPerFlow` | `Inv`, `NoneMeanwhile` |
| | `SnapshotDated` | `SnapshotDatesTraffic` | `Inv` |
| | `EvictionSafe` | `EvictsOnlyQuietFlows` | `Inv` |
| | `TotalsGrow` | `TotalsOnlyGrow` | `Inv` |
| | `TypeCorrect` | `FlowTable!TypeOK` | `Inv` |
| | `RecentRowsShown` | `ShowsExactlyRecentRows` | `AggInv` |
| | `RowsKeepHistory` | `RowsKeepTheirHistory` | `AggInv` |
| `PacketProofs` | `BucketsAreSeconds` | `BucketsMatchSeconds` | `Inv` |
| | `RatesAreTheWindow` | `ByteCounter!RatesCoverTheWindow` | `Inv` |
| | `PacketsAccounted` | `PacketsAreOwn` | `DecodeInv` |
| | `HostnamesAreTheHellos` | `HelloIsExact` | `InspectInv` |
| `HostnameCacheProofs` | `HostnamesAreKept` | `HostnamesKept` | `HostInv` |
| | `AnswersAreTheLatest` | `HostnameCache!AnswersAreLatest` | `HostInv` |
| `ResolverProofs` | `SlotsAreAccounted` | `SlotsAccounted` | `Inv` |
| | `CacheIsConsistent` | `CacheConsistent` | `Inv` |
| | `ColdAddressesLost` | `OnlyColdAddressesLost` | `Inv` |
| | `ResolverImplementsNames` | `ImplementsNames` | `Inv` |
| `SourcesProofs` | `EntriesHaveSockets` | `NoOrphanEntries` | `Inv` |
| | `ServesOneWalk` | `PollIsOneWalk` | `PollInv` |
| `KernelHooksProofs` | `NoHookOutlivesTheSource` | `NothingStaysAttached` | `AttachInv` |
| | `ScratchMapAccounted` | `ScratchAccounted` | `AttachInv`, `KernelInv` |
| | `EventsAreTheCalls` | `EventsMatchCalls` | `AttachInv`, `KernelInv` |
| `LifecycleProofs` | `EngineIsReferenced` | `EngineLifetime` | `Inv` |
| | `NeverTwoEngines` | `Receiver!OneEngine` | `Inv` |
| | `FailuresAreReported` | `FailuresSurface` | `SessionInv` |
| | `RingsHoldTheLatest` | `RingHoldsLatest` | `LogInv` |
| | `ExportStaysCurrent` | `ExportedIsCurrent` | `MetricsInv` |
| `PanelsProofs` | `FrameIsFull` | `FrameFills` | `PanelsInv` |
| | `SplitStaysTheUsers` | `SplitIsTheUsers` | `PanelsInv` |
| | `CursorIsShown` | `EventsCursorShown` | `PanelsInv` |

The theorems about the components of `MCPacket`, `MCSources` and `MCLifecycle` are
about those components' own specifications (`Inspection!Spec`, `Polling!Spec`,
`Session!Spec` and so on); the `MC` module only adds the variable that says which
of them takes the steps.

### Assumptions

They are what the provers need of the constants: bounds are natural numbers, and
the value that stands for Go's `nil` or for "no such thing" is none of the values
it is told from (`FlowTableAssumption`, `AggregatorAssumption`,
`ProgramAssumption`, `HooksAssumption`, `PollerAssumption`,
`HostnameCacheAssumption`). Beyond that:

- capacities are at least one where the code makes them so: slots and cache
  entries of `Resolver`, the hostname cache, the events ring of `Panels`;
- `HooksAssumption`: the layouts a socket may have in memory are those of
  sockets;
- `PanelsAssumption`: `RoundsDown`, the products that `float64` rounds down in
  `resizePanels`, only has products that are whole numbers;
- two theorems have a hypothesis of their own. `PacketsAccounted` excludes a TCP
  header captured without its flags (`FlagsCaptured`), for which the property is
  false (`NoPhantomEvents`, section 6). `HostnamesAreTheHellos` has a stream no
  longer than the sequence space (`SeqsDistinct`), without which two bytes of
  the stream have one number;
- `RingsHoldTheLatest` has `EventLogAssumption` as a hypothesis, since
  `LifecycleProofs` instantiates `EventLog` and does not extend it.

### Arguments

None of these properties is inductive alone. What each invariant adds, and why:

- **Flow table** (`Inv`). `SnapshotDatesTraffic` compares what two critical
  sections read, so `Inv` adds that a counter with bytes has a date and that a
  flow whose bytes were read has a counter that still has them (`CountersDated`),
  and that `Snapshot` only visits flows in the table (`SnapshotVisitsLive`), since
  `Evict` runs after it in the same goroutine. `OneWriterPerFlow` needs that no
  two flows share a counter (`CountersNotShared`), when a goroutine holds a
  pointer (`HeldWhileAdding`), since the pointer outlives the map's lock, and that
  the only goroutine that could store a counter under a key is the one that is
  about to (`NoneMeanwhile`). `NewestBounded` ties the newest packet credited to
  the counter's `lastSeen`, which `EvictSweep` reads again under the lock, and
  `StaleNotKept` remembers that the first pass took the keep set out.
- **Refresh** (`AggInv`). That a row's bytes fall only after silence rests on
  `RowsBacked`: a row with traffic was silent when last shown, or some interface
  still has a counter with at least its bytes; `SnapshotBehind` carries this
  through a snapshot taken while packets are credited.
- **Rates** (`PacketProofs!Inv`). Slots are seconds modulo the ring's length, so
  `Inv` adds that nothing was credited to a second the ring has not reached.
- **Hostnames** (`InspectInv`). The buffer of an assembler is the stream from
  where it started, and `nextSeq` is the number of the byte after it
  (`HoldsHello`, `Going`); while a stream is captured in order the buffer is all
  of it (`Opening`).
- **Hostname cache** (`HostInv`). The list is in order of use (`InOrderOfUse`), so
  what is evicted from its end has seen every other entry used since.
- **Resolver** (`Inv`). Marks and generations are disjoint, and the current
  generation is exactly what was used since the last rotation.
- **eBPF source** (`SourcesProofs!Inv`). `NoOrphanEntries` is inductive with the
  shape of the tables and of the events in the rings.
- **Poller** (`PollInv`). The maps under construction hold what was true during
  this walk (`WalkFresh`, `WalkNames`), and the published ones what was true
  during the last.
- **Kernel hooks**. `AttachInv`: what is open is what was acquired and not yet
  closed, and a function's two kprobes are closed in the reverse of the order they
  were opened in. `KernelInv`: the
  frames of a call nest, an entry of the scratch map is that of the frame that
  stored it or of a call whose return was missed, and events name calls.
- **Receiver** (`LifecycleProofs!Inv`). References are the successful `Start`s
  less the `Shutdown`s entered, and the goroutines match them.
- **Session** (`SessionInv`). The group's first error is what ended the context or
  came after it (`FirstErrorKept`); the interface's own error ends the context
  before it reaches the group (`LeavingKept`), which is why its report has an
  exception.
- **Rings and metrics** (`LogInv`, `MetricsInv`). A ring is the tail of the events
  captured since the last drain; the exported value of a series is its count.
- **Panels** (`PanelsInv`). A chosen split fits (`SplitFits`); a dragged border is
  under the pointer even while zoomed (`DragHeld`); and no resize raises the
  events panel's share of the lines, compared crosswise since each resize
  truncates (`ShareKept`).

### Model-checked only

Liveness under fairness is out of the prover's reach: `EvictedAfterPause`,
`RowsFollowSockets`, `BacklogDrains`, `DropsReported`, `EverythingReturns`. So is
induction over data, and with it what folds, sums and sorting compute:
`FeedAccounted`, `AttemptsAreRecent`, `EventsAccounted`, `OverflowBacked`,
`ColumnsFit`, `RowsAreWholeGroups`, `TableMatchesHeader`, `TableHoldsStill`.
`TableIsExact` has not been proved.

## 6. Where the code and its comments disagree

`aggregator_open_totals` is a run that must fail: `flowKeyFor`
(`aggregate/aggregator.go:324`) leaves the interface out of the keys given to
`Evict`, every key of the flow table has one, so the keep set spares nothing and
the totals of an open connection that went quiet start again from zero.

The following properties state what a comment or a document says. The modules
define them and TLC finds each violated; they are not among the runs. Most are
violated with the constants of their module's run. The others need:

| Property | Constants |
| --- | --- |
| `NoPhantomEvents` | `Captures` with `"ports"`: a TCP header captured without its flags |
| `OneEntryPerLoopback` | a second local address |
| `ConnectorOwnsConnection` | `HalfOf` that gives both tuples one server |
| `CountsExact` | a window and a channel of two, a batch of three, time to 3 |
| `ByteSeriesHaveOneValue` | `PeerOf` that gives both flows one endpoint |
| `GroupedRowsNotDimmed` | `MaxNow` beyond `IdleThreshold` |
| `OrderIsDeterministic` | a snapshot of one listener on two addresses |

The first three rows are also limits of the passing runs: `PacketsAreOwn` is
checked for headers captured with their flags or without their ports and for
connections with one local end, `TableIsExact` for connections to different
servers. Other properties carry their exception in their statement:
`OverflowBacked` (no connection leaves the overflow and returns),
`DrainedTableIsExact` (no event was lost or consumed late), `DragFollowsPointer`
(releases the model did not see, drags started by the wheel), `OpeningHelloIsFound`
(a hello that starts in a small datagram), `FailureReported` (the interface's error
when another part's came first), `QuietTableHoldsStill` (records that differ in
the local address only) and `NothingStaysAttached` (the connect ring's reader
stays open when `attachSockstate` fails, since `closeAll` closes `closers` and
the readers are in `rings`).

`record` looks again under the write lock since "another interface's goroutine may
have created it" (`capture/pcap.go:399`): by `OneWriterPerFlow` it never finds one.
`procinfo/ebpf_linux.go:87` calls the process-name cache "pruned lazily"; no code
prunes it.

| Property | Said at | What the code does |
| --- | --- | --- |
| `FlowTable!ActivityNotDiscarded` | `capture/pcap.go:447` | `record` unlocks before `Add`; a sweep in between takes the counter and the packet with it |
| `Aggregator!RowShowsLatestInterface` | `aggregate/aggregator.go:98` | of two interfaces with one tuple, map order decides which a row shows |
| `Decoder!IcmpHasNoPorts` | `capture/decode.go:207` | ICMP and ARP get the ports of the last TCP or UDP packet |
| `Decoder!OneEntryPerLoopback` | `capture/flow.go:43` | a connection between two local addresses has a key for each direction |
| `Decoder!NoPhantomEvents` | `capture/decode.go:71` | a truncated TCP header is read with the previous packet's flags |
| `Inspect!SkippedAreEmpty` | `capture/dpi_dispatch.go:89` | a datagram is called header-only by its length; one with short headers and a little payload is passed over too |
| `Inspect!ExtractionsBounded` | `capture/dpi_dispatch.go:209` | every packet without a TCP or UDP layer is decoded a second time |
| `EBPFSource!NothingClosedIsListed` | `procinfo/ebpf_linux.go:493` | a connect event consumed after the socket's close leaves an entry |
| `EBPFSource!ListenersAreListed` | `procinfo/ebpf_linux.go:244` | an accepted connection's first events replace and then delete the listener's entry |
| `EBPFSource!ConnectorOwnsConnection`, two connections to one server | `procinfo/ebpf_linux.go:57` | they share an incomplete tuple, and one takes the other's PID |
| `Poller!NoLentNames` | `procinfo/poller.go:91` | a PID reused between two walks keeps the old name |
| `EventLog!CountsExact` | `receiver/README.md:68` | attempts are pruned by the wall clock and counted by capture time |
| `EventLog!CountsNotHigh` | `receiver/synattempts.go:10` | attempts stamped after a SYN that arrives late count as prior to it |
| `EventLog!StoppedForgotten` | `receiver/synattempts.go:44` | nothing prunes the attempts once events stop |
| `MetricsState!OverflowIsTraffic` | `receiver/translate.go:93` | a connection that leaves the overflow for a tick is counted again in full |
| `MetricsState!ByteSeriesHaveOneValue` | `receiver/README.md:39` | two connections of a process to one endpoint are two values of one series |
| `Receiver!InstanceDropped` | `receiver/factory.go:70` | after a failed start the shared instance is never dropped |
| `Program!RunReturnsCtxErr` | `capture/pcap.go:219` | with several interfaces a cancelled `Run` returns nil |
| `Program!TuiFailureReported` | `cmd/trafficmon/main.go:179` | the deferred `stop` ends the context before the interface's error reaches the group, so another part's error can be first, and be taken for a shutdown |
| `Program!OpenFailsBeforeUI` | `cmd/trafficmon/main.go:86` | handles are opened after the interface has started |
| `Resolver!QueriesCapped` | `dns/resolver.go:23` | abandoned queries go on running after their slot is free |
| `Resolver!NegativeIsPermanent` | `dns/resolver.go:155` | a negative result is rotated out and asked again |
| `Model!GroupedRowsNotDimmed` | `aggregate/aggregator.go:227` | a grouped row has no state, so it dims when quiet |
| `Model!OrderIsDeterministic` | `aggregate/aggregator.go:156` | records that differ in the local address only keep their map order |
| `Model!AddressFindsRow` | `README.md:58` | an address no longer finds its rows once it has a name |
| `Panels!HeldEventStays` | `cmd/trafficmon/internal/tui/events.go:292` | at capacity every new event slides the ones under a held cursor |
| `Panels!ReleaseEndsDrag` | `cmd/trafficmon/internal/tui/state.go:194` | a release while zoomed is not seen, and the drag goes on; a notch of the wheel on the divider starts a drag with no button down |
| `Panels!SplitRestored` | `cmd/trafficmon/internal/tui/state.go:154` | floors and truncation change the split on every resize |

## 7. Not modelled

- Start-up input and output: the choice of interfaces and the capture filter
  (`capture/iface.go`, `capture/route_*.go`), the libpcap binding, privileges,
  configuration. Their failures are inputs of `Program` and `Receiver`.
- Enumeration of sockets per platform (`procinfo/libproc_*.go`), parsing of TLS,
  QUIC and DNS messages, rendering to text: functions of their input, whose
  outcomes are inputs of the models.
- Generated code: the loaders of `procinfo/bpf` (bpf2go) and the kernel headers
  `procinfo/bpf/headers/vmlinux*.h`. The headers are type declarations dumped from
  a kernel, without behaviour; they are nearly all of the repository's C by line
  count. The three C programs themselves are in `KernelHooks`, whose sockets have
  the few kernel fields that the programs read.
- The process-name cache of `EBPFSource`, `Poller.Snapshot`, the timestamps and
  constant fields of kernel events.

## 8. Plan

What comes next, in order:

1. Models: the name cache of `EBPFSource`; an abstract specification of the
   connection table (the set of open sockets, late) that both sources implement;
   the choice of interfaces.
2. Proofs: `TableIsExact` of `EBPFSource`; `FeedAccounted` of `EventLog`, with its
   sums replaced by counters that the actions keep.
