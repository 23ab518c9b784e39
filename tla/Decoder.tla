------------------------------ MODULE Decoder ------------------------------
(***************************************************************************)
(* capture: from a captured packet to a flow key and the SYN and RST       *)
(* events.  One flowDecoder serves all packets of an interface and reuses  *)
(* its layer structs, so what one packet left in them is still there for   *)
(* the next.  A packet is what the properties tell apart: its protocol,    *)
(* end points, TCP flags, and how much of its transport header was         *)
(* captured.                                                               *)
(***************************************************************************)
EXTENDS Integers, Sequences, FiniteSets

CONSTANTS
  LocalAddrs, RemoteAddrs,
  PortNums,
  Protos,     \* the protocols of this instance
  FlagSets,   \* the sets of TCP flags of this instance
  Captures,   \* how much of the transport header is captured
  MaxPackets  \* bound: packets in one behaviour

Addrs == LocalAddrs \cup RemoteAddrs

DecoderAssumption ==
  /\ LocalAddrs \cap RemoteAddrs = {}
  /\ PortNums \subseteq Nat \ {0}
  /\ Protos \subseteq {"tcp", "udp", "icmp", "arp", "other"}
  /\ \A f \in FlagSets : f \subseteq {"SYN", "ACK", "RST"}
  /\ Captures \subseteq {"whole", "ports", "cut"}  \* 14 bytes or more; 4 to 13; fewer than 4
  /\ MaxPackets \in Nat

(* A packet on the wire.  The flags of a UDP packet stand for the bits its   *)
(* own bytes happen to have where TCP has the flags.                         *)
Packet == [proto: Protos, src: Addrs, dst: Addrs, sport: PortNums, dport: PortNums,
           flags: FlagSets, captured: Captures]

VARIABLES
  ports, \* flowDecoder.ports: src, dst and flags left by the last TCP or UDP packet
  seen,  \* history: the packets recorded, each with its key and direction
  syns,  \* synEvents: the packets pushed as connection attempts
  rsts,  \* rstEvents
  count

vars == <<ports, seen, syns, rsts, count>>

PortOrZero == PortNums \cup {0}
FlowKey == [local: Addrs, lport: PortOrZero, remote: Addrs, rport: PortOrZero, proto: Protos]

TypeOK ==
  /\ ports \in [src: PortOrZero, dst: PortOrZero, flags: FlagSets \cup {{}}]
  /\ seen \subseteq [pkt: Packet, key: FlowKey, inbound: BOOLEAN]
  /\ syns \subseteq Packet /\ rsts \subseteq Packet
  /\ count \in 0 .. MaxPackets

Init ==
  /\ ports = [src |-> 0, dst |-> 0, flags |-> {}]
  /\ seen = {} /\ syns = {} /\ rsts = {} /\ count = 0

-----------------------------------------------------------------------------
(* transportPorts.DecodeFromBytes; a header cut before the ports is an error, *)
(* which decode turns into skipping the packet.                               *)
DecodeFromBytes(pkt) ==
  [src |-> pkt.sport, dst |-> pkt.dport,
   flags |-> IF pkt.captured = "whole" THEN pkt.flags ELSE ports.flags]

(* The layers a packet reaches: what the decoder holds once it is decoded. *)
DecodeLayers(pkt) == IF pkt.proto \in {"tcp", "udp"} THEN DecodeFromBytes(pkt) ELSE ports

(* decode reports false for what is not TCP, UDP, ICMP or ARP, and for a     *)
(* TCP or UDP header without its ports.                                      *)
Decodable(pkt) ==
  /\ pkt.proto # "other"
  /\ pkt.proto \in {"tcp", "udp"} => pkt.captured # "cut"

(* packetInfo: the ports are the decoder's, whatever the protocol, and the   *)
(* flags are only read for TCP.                                              *)
decode(pkt) ==
  LET t == DecodeLayers(pkt)
  IN [src |-> pkt.src, dst |-> pkt.dst, sport |-> t.src, dport |-> t.dst, proto |-> pkt.proto,
      flags |-> IF pkt.proto = "tcp" THEN t.flags ELSE {}]

(* Variant: the source is taken for ours. *)
normaliseAsIs(info) ==
  [key |-> [local |-> info.src, lport |-> info.sport, remote |-> info.dst, rport |-> info.dport,
            proto |-> info.proto], inbound |-> FALSE]

(* normalise: which end is ours; source-local is tested first. *)
normalise(info) ==
  IF info.src \in LocalAddrs
  THEN [key |-> [local |-> info.src, lport |-> info.sport, remote |-> info.dst, rport |-> info.dport,
                 proto |-> info.proto], inbound |-> FALSE]
  ELSE [key |-> [local |-> info.dst, lport |-> info.dport, remote |-> info.src, rport |-> info.sport,
                 proto |-> info.proto], inbound |-> TRUE]

(* Variant: the answer to a SYN counts as an attempt too. *)
IsAttemptLoosely(info) == info.proto = "tcp" /\ "SYN" \in info.flags

IsAttempt(info) == info.proto = "tcp" /\ "SYN" \in info.flags /\ "ACK" \notin info.flags

(* handlePacket: a packet that cannot be decoded, or neither end of which is *)
(* ours, is dropped, though the decoder keeps what it read of it.            *)
handlePacket(pkt) ==
  /\ count < MaxPackets /\ count' = count + 1
  /\ ports' = IF Decodable(pkt) THEN DecodeLayers(pkt) ELSE ports
  /\ LET info == decode(pkt)
         n == normalise(info)
     IN IF Decodable(pkt) /\ (pkt.src \in LocalAddrs \/ pkt.dst \in LocalAddrs)
        THEN /\ seen' = seen \cup {[pkt |-> pkt, key |-> n.key, inbound |-> n.inbound]}
             /\ syns' = IF IsAttempt(info) THEN syns \cup {pkt} ELSE syns
             /\ rsts' = IF info.proto = "tcp" /\ "RST" \in info.flags THEN rsts \cup {pkt} ELSE rsts
        ELSE UNCHANGED <<seen, syns, rsts>>

Next == \E pkt \in Packet : handlePacket(pkt)

Spec == Init /\ [][Next]_vars

-----------------------------------------------------------------------------
(* Connections of TCP and UDP: an unordered pair of end points. *)
Ends(pkt) == {<<pkt.src, pkt.sport>>, <<pkt.dst, pkt.dport>>}
Stream(pkt) == pkt.proto \in {"tcp", "udp"}
Local(pkt) == {pkt.src, pkt.dst} \subseteq LocalAddrs

(* "inbound and outbound packets of the same connection map onto a single    *)
(* entry" (flow.go:43-45), and packets of different connections never do,    *)
(* when one end is ours: what normalise must guarantee for the totals of a   *)
(* flow to be its own.                                                       *)
OneEntryPerConnection ==
  \A s, t \in seen :
    Stream(s.pkt) /\ Stream(t.pkt) /\ ~Local(s.pkt) /\ ~Local(t.pkt) =>
      (s.key = t.key <=> s.pkt.proto = t.pkt.proto /\ Ends(s.pkt) = Ends(t.pkt))

(* The two directions of a connection are counted apart: a packet and one    *)
(* going the other way are never both inbound or both outbound.              *)
DirectionsApart ==
  \A s, t \in seen :
    s.key = t.key /\ ~Local(s.pkt) /\ Stream(s.pkt) => (s.inbound = t.inbound <=> s.pkt.src = t.pkt.src)

(* A connection attempt is reported for every recorded TCP packet that has   *)
(* SYN and not ACK set, and for no other; a reset for every one with RST     *)
(* (handlePacket, pcap.go:355-379).                                          *)
EventsAreOwn ==
  LET tcp == {s.pkt : s \in {x \in seen : x.pkt.proto = "tcp"}}
  IN /\ syns = {p \in tcp : "SYN" \in p.flags /\ "ACK" \notin p.flags}
     /\ rsts = {p \in tcp : "RST" \in p.flags}

(* The flags belong to the packet they are read from, "and truncation stops  *)
(* mattering" (decode.go:71-72): no attempt or reset is reported for a       *)
(* packet without the flag.                                                  *)
NoPhantomEvents ==
  /\ \A p \in syns : "SYN" \in p.flags
  /\ \A p \in rsts : "RST" \in p.flags

(* "Ports stay zero: ICMP has none" (decode.go:207). *)
IcmpHasNoPorts ==
  \A s \in seen : s.pkt.proto = "icmp" => s.key.lport = 0 /\ s.key.rport = 0

(* "inbound and outbound packets of the same connection map onto a single    *)
(* entry" (flow.go:43-45), loopback connections included.                    *)
OneEntryPerLoopback ==
  \A s, t \in seen :
    Stream(s.pkt) /\ s.pkt.proto = t.pkt.proto /\ Ends(s.pkt) = Ends(t.pkt) => s.key = t.key
=============================================================================
