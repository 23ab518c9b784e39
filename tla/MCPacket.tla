------------------------------ MODULE MCPacket ------------------------------
(***************************************************************************)
(* What capture does with a packet: decode it to a flow key (Decoder),     *)
(* credit it to the flow's counter (ByteCounter), look for a hostname in   *)
(* it (Inspect) and remember that for the address (HostnameCache).  The    *)
(* four keep disjoint state, each under a lock or in a goroutine of its    *)
(* own, so a behaviour exercises one of them and leaves the others as they *)
(* start.                                                                  *)
(***************************************************************************)
EXTENDS ByteCounter

CONSTANTS
  LocalAddrs, RemoteAddrs, PortNums, Protos, Captures, MaxPackets,
  FlowProtos, StreamLen, HelloStarts, RecordLen, smallPayload, maxHelloBuffer,
  maxHelloSegments,
  SeqMod, ISN, MaxExtracted,
  IPs, Hosts, capacity, ttl, None, MaxTime

VARIABLES
  scene,
  ports, seen, syns, rsts, count,
  proto, helloAt, sni, hostname, attempted, asm, puts, extracted, inOrder,
  ll, got, latest, stale, touched

FlagSets == {{}, {"SYN"}, {"SYN", "ACK"}, {"RST"}}

Decoding == INSTANCE Decoder
Inspection == INSTANCE Inspect
Hostnames == INSTANCE HostnameCache

ASSUME DecodingAssumption == Decoding!DecoderAssumption
ASSUME InspectionAssumption == Inspection!InspectAssumption
ASSUME HostnamesAssumption == Hostnames!HostnameCacheAssumption

decoderVars == <<ports, seen, syns, rsts, count>>
inspectVars == <<proto, helloAt, sni, hostname, attempted, asm, puts, extracted, inOrder>>
cacheVars == <<ll, got, latest, stale, touched>>

MCInit ==
  /\ scene \in {"counter", "decoder", "inspect", "hostnames"}
  /\ Init /\ Decoding!Init /\ Inspection!Init /\ Hostnames!Init
  /\ scene = "inspect" \/ (proto = "tcp" /\ helloAt = 0 /\ sni)

MCNext ==
  /\ UNCHANGED scene
  /\ \/ /\ scene = "counter" /\ Next
        /\ UNCHANGED <<decoderVars, inspectVars, cacheVars>>
     \/ /\ scene = "decoder" /\ Decoding!Next
        /\ UNCHANGED <<vars, inspectVars, cacheVars>>
     \/ /\ scene = "inspect" /\ Inspection!Next
        /\ UNCHANGED <<vars, decoderVars, cacheVars>>
     \/ /\ scene = "hostnames" /\ Hostnames!Next
        /\ UNCHANGED <<vars, decoderVars, inspectVars>>

MCSpec == MCInit /\ [][MCNext]_<<scene, vars, decoderVars, inspectVars, cacheVars>>

-----------------------------------------------------------------------------
(* A packet is accounted to what it is, although the decoder reuses its      *)
(* layers: both directions of a connection have one key, which is theirs     *)
(* alone, and are counted apart (normalise), and SYN and RST events are      *)
(* those of the packets themselves (handlePacket).                           *)
PacketsAreOwn ==
  /\ Decoding!TypeOK /\ Decoding!OneEntryPerConnection
  /\ Decoding!DirectionsApart /\ Decoding!EventsAreOwn

(* A hostname is read from the ClientHello's own bytes in their order, and   *)
(* from every ClientHello that opens its flow, is captured in order and does *)
(* not start in a datagram inspect passes over as too small (inspect, Feed). *)
HelloIsExact ==
  /\ Inspection!TypeOK /\ Inspection!HelloIsContiguous
  /\ Inspection!OpeningHelloIsFound

(* HostnameCache is bounded, holds an address once, and forgets only what    *)
(* expired or fell out of use (Put, Get).                                    *)
HostnamesKept ==
  Hostnames!TypeOK /\ Hostnames!CacheBounded /\ Hostnames!OnlyUnusedForgotten
=============================================================================
