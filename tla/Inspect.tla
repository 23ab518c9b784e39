------------------------------ MODULE Inspect ------------------------------
(***************************************************************************)
(* capture.Capturer.inspect and dpi.HelloAssembler: finding the hostname   *)
(* of one flow in its first packets.  A TCP flow's outgoing bytes are a    *)
(* stream of units (a unit holds at least a TLS record header); segments   *)
(* of it may be captured late, twice or not at all.  The TLS ClientHello   *)
(* is RecordLen units of the stream, from HelloAt on.                      *)
(***************************************************************************)
EXTENDS Integers, Sequences

CONSTANTS
  FlowProtos,  \* protocols of the flow in this instance
  StreamLen,   \* units of the outgoing stream
  HelloStarts, \* where the ClientHello may start
  RecordLen,   \* units of the ClientHello's TLS record
  smallPayload, \* units a datagram of minPayloadDatagramLen bytes can hold
  maxHelloBuffer, maxHelloSegments,
  SeqMod,      \* sequence numbers are counted modulo this
  ISN,         \* sequence number of the stream's first unit
  MaxExtracted \* bound: calls of extractPayload counted

InspectAssumption ==
  /\ FlowProtos \subseteq {"tcp", "udp", "icmp"}
  /\ {StreamLen, RecordLen, maxHelloBuffer, maxHelloSegments, SeqMod, MaxExtracted} \subseteq Nat \ {0}
  /\ smallPayload \in Nat
  /\ HelloStarts \subseteq 0 .. StreamLen - RecordLen
  /\ ISN \in 0 .. SeqMod - 1

VARIABLES
  proto, helloAt, sni, \* the flow, and whether its ClientHello names a server
  hostname,       \* ByteCounter.hostname: whether one was found
  attempted,      \* ByteCounter.hostnameAttempted
  asm,            \* ByteCounter.assembler: started, its buffer and nextSeq, segs
  puts,           \* hostnames given to HostnameCache.Put
  extracted,      \* history: calls of extractPayload
  inOrder         \* history: how much of the stream has been captured, in order
                  \* and undisturbed; -1 once it has not

vars == <<proto, helloAt, sni, hostname, attempted, asm, puts, extracted, inOrder>>

(* A packet of the flow.  One that does not parse has a transport header cut *)
(* short.  A small one is a datagram of at most minPayloadDatagramLen bytes: *)
(* every header-only segment is, and, depending on its headers' options, one *)
(* with a little payload may be.                                             *)
Packet == [outbound: BOOLEAN, off: 0 .. StreamLen - 1, len: 0 .. StreamLen,
           parses: BOOLEAN, small: BOOLEAN]
Segments ==
  {p \in Packet : /\ p.off + p.len <= StreamLen
                  /\ p.len = 0 => p.small
                  /\ p.len > smallPayload => ~p.small}
Small(p) == proto = "tcp" /\ p.small

Idle == [on |-> FALSE, buf |-> << >>, next |-> 0, segs |-> 0]

TypeOK ==
  /\ proto \in FlowProtos /\ helloAt \in HelloStarts /\ sni \in BOOLEAN
  /\ hostname \in BOOLEAN /\ attempted \in BOOLEAN
  /\ asm.buf \in Seq(0 .. StreamLen - 1) /\ Len(asm.buf) <= maxHelloBuffer + StreamLen
  /\ asm.on \in BOOLEAN /\ asm.next \in 0 .. SeqMod - 1 /\ asm.segs \in 0 .. maxHelloSegments + 1
  /\ puts \in 0 .. 1
  /\ extracted \in 0 .. MaxExtracted
  /\ inOrder \in -1 .. StreamLen

Init ==
  /\ proto \in FlowProtos /\ helloAt \in HelloStarts /\ sni \in BOOLEAN
  /\ hostname = FALSE /\ attempted = FALSE
  /\ asm = Idle /\ puts = 0
  /\ extracted = 0 /\ inOrder = 0

-----------------------------------------------------------------------------
Units(p) == [i \in 1 .. p.len |-> p.off + i - 1]
SeqOf(p) == (ISN + p.off) % SeqMod

(* Candidate of the TLS and QUIC inspectors: the payload starts with a       *)
(* ClientHello.                                                              *)
Candidate(p) == p.outbound /\ p.len > 0 /\ p.off = helloAt

(* The assembler before its first segment takes any sequence number. *)
Expected(p) == IF asm.on THEN asm.next ELSE SeqOf(p)

(* Variant: a segment is joined whatever its sequence number. *)
FeedAnyOrder(p) ==
  IF p.len = 0 THEN [asm |-> [asm EXCEPT !.on = TRUE], ready |-> FALSE, done |-> FALSE]
  ELSE LET buf == asm.buf \o Units(p)
       IN [asm |-> [on |-> TRUE, buf |-> buf, next |-> (SeqOf(p) + p.len) % SeqMod, segs |-> asm.segs + 1],
           ready |-> Len(buf) >= RecordLen, done |-> Len(buf) >= RecordLen \/ asm.segs + 1 > maxHelloSegments]

(* Variant: the expected sequence number does not wrap. *)
FeedUnwrapped(p) ==
  IF asm.on /\ SeqOf(p) # asm.next
  THEN [asm |-> [asm EXCEPT !.on = TRUE], ready |-> FALSE, done |-> TRUE]
  ELSE LET buf == asm.buf \o Units(p)
       IN [asm |-> [on |-> TRUE, buf |-> buf, next |-> SeqOf(p) + p.len, segs |-> asm.segs + 1],
           ready |-> Len(buf) >= RecordLen, done |-> Len(buf) >= RecordLen \/ asm.segs + 1 > maxHelloSegments]

(* HelloAssembler.Feed: the assembler after the segment, whether the record  *)
(* is complete and whether to stop feeding.  The first segment starts a TLS  *)
(* record (Candidate saw to it) and holds its header.                        *)
Feed(p) ==
  LET buf == asm.buf \o Units(p)
      segs == asm.segs + 1
      full == Len(buf) > maxHelloBuffer \/ segs > maxHelloSegments
      joined == [on |-> TRUE, buf |-> buf, next |-> (Expected(p) + p.len) % SeqMod, segs |-> segs]
  IN CASE p.len = 0 -> [asm |-> [asm EXCEPT !.on = TRUE], ready |-> FALSE, done |-> FALSE]
       [] p.len > 0 /\ SeqOf(p) # Expected(p) ->
            [asm |-> [asm EXCEPT !.on = TRUE], ready |-> FALSE, done |-> TRUE]
       [] OTHER -> [asm |-> joined, ready |-> ~full /\ Len(buf) >= RecordLen,
                    done |-> full \/ Len(buf) >= RecordLen]

(* A hostname found is recorded on the flow and in the per-address cache. *)
Found(found) ==
  /\ hostname' = (hostname \/ found)
  /\ puts' = IF found THEN puts + 1 ELSE puts

(* Whether the stream is still being captured in order, from its start, with *)
(* the server silent until the ClientHello is out, in few segments, of which *)
(* the first is not small.                                                   *)
Follow(p) ==
  inOrder' = IF \/ p.len = 0 /\ (p.parses \/ ~asm.on)
                \/ p.parses /\ ~p.outbound /\ inOrder > 0
             THEN inOrder
             ELSE IF p.outbound /\ p.parses /\ p.off = inOrder /\ (asm.on \/ ~p.small)
                     /\ asm.segs < maxHelloSegments /\ p.off + p.len <= maxHelloBuffer
             THEN p.off + p.len ELSE -1

(* NeedsHostnameInspection. *)
NeedsHostnameInspection == ~hostname /\ ~attempted

(* inspect of a packet that has to be extracted: a continuation goes on only *)
(* with outgoing bytes, a first packet only when it is a candidate; a        *)
(* datagram is inspected at once.                                            *)
Examine(p) ==
  LET inProgress == proto = "tcp" /\ asm.on
      looks == IF inProgress THEN p.outbound ELSE Candidate(p)
  IN CASE ~p.parses \/ proto = "icmp" ->
            /\ attempted' = (attempted \/ inProgress)
            /\ Found(FALSE) /\ UNCHANGED asm
       [] p.parses /\ proto = "udp" ->
            /\ attempted' = TRUE
            /\ Found(looks /\ sni) /\ UNCHANGED asm
       [] p.parses /\ proto = "tcp" /\ looks ->
            LET f == Feed(p)
            IN /\ asm' = f.asm
               /\ attempted' = (attempted \/ f.done)
               /\ Found(f.ready /\ sni)
       [] OTHER ->
            /\ attempted' = (attempted \/ ~inProgress)
            /\ Found(FALSE) /\ UNCHANGED asm

inspect(p) ==
  /\ extracted < MaxExtracted
  /\ Follow(p)
  /\ IF NeedsHostnameInspection /\ ~(Small(p) /\ ~asm.on)
     THEN Examine(p) /\ extracted' = extracted + 1
     ELSE UNCHANGED <<hostname, attempted, asm, puts, extracted>>
  /\ UNCHANGED <<proto, helloAt, sni>>

Next == \E p \in Segments : inspect(p)

Spec == Init /\ [][Next]_vars

-----------------------------------------------------------------------------
(* A hostname found in a TCP flow was read from exactly the ClientHello:     *)
(* segments lost, repeated or reordered never put other bytes of the stream  *)
(* into the record (HelloAssembler.Feed).                                    *)
HelloIsContiguous ==
  hostname /\ proto = "tcp" =>
    \A i \in 1 .. RecordLen : asm.buf[i] = helloAt + i - 1

(* A ClientHello that opens the flow and names a server, captured whole and  *)
(* in order within the assembler's limits, is found, wherever the sequence   *)
(* numbers wrap and whatever the server sends meanwhile -- unless its first  *)
(* segment travels in a datagram of no more than minPayloadDatagramLen bytes *)
(* (pcap.go:32), which inspect passes over (dpi_dispatch.go:88-90).          *)
OpeningHelloIsFound ==
  proto = "tcp" /\ helloAt = 0 /\ sni /\ inOrder >= RecordLen => hostname

(* A datagram of no more than minPayloadDatagramLen bytes is a "header-only  *)
(* TCP segment (SYN, bare ACK, FIN): nothing to extract" (dpi_dispatch.go:   *)
(* 89): a segment that is passed over while a hostname is wanted holds       *)
(* nothing of the stream.                                                    *)
SkippedAreEmpty ==
  [][proto = "tcp" /\ NeedsHostnameInspection /\ extracted' = extracted
       => inOrder' = inOrder]_vars

(* "bounded to one overall attempt: once that reassembly finishes or gives   *)
(* up, later packets on the same flow are never re-parsed"                   *)
(* (dpi_dispatch.go:31-33), and what was found never changes.                *)
OneAttempt ==
  [][attempted => UNCHANGED <<hostname, attempted, asm, puts, extracted>>]_vars

(* "so this second decode's cost stays bounded to a handful of packets per   *)
(* new connection" (dpi_dispatch.go:211-212): no more packets are extracted  *)
(* than a ClientHello may have segments, and one to give up on.              *)
ExtractionsBounded == extracted <= maxHelloSegments + 1
=============================================================================
