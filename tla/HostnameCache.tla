--------------------------- MODULE HostnameCache ---------------------------
(***************************************************************************)
(* dpi.HostnameCache: the last hostname seen for an address, in a list     *)
(* kept in order of use, bounded in size and in age.  Put carries the      *)
(* capture time of a packet, Get the wall clock; neither is monotonic with *)
(* respect to the other.                                                   *)
(***************************************************************************)
EXTENDS Integers, Sequences, FiniteSets

CONSTANTS
  IPs, Hosts,
  capacity, ttl,
  None,     \* no hostname
  MaxTime   \* bound: times are 0 .. MaxTime

HostnameCacheAssumption ==
  /\ capacity \in Nat \ {0} /\ ttl \in Nat /\ MaxTime \in Nat
  /\ IPs # {} /\ None \notin Hosts

VARIABLES
  ll,      \* the entries, most recently used first; index is its domain
  got,     \* what the last Get returned: for which address, when, and what
  latest,  \* history: the last hostname put for each address, and when
  stale,   \* history: addresses found expired since they were last put
  touched  \* history: addresses used since each address last was

vars == <<ll, got, latest, stale, touched>>

Entry == [ip: IPs, hostname: Hosts, expires: Int]
Cached == {ll[i].ip : i \in DOMAIN ll}
Place(ip) == CHOOSE i \in DOMAIN ll : ll[i].ip = ip
EntryOf(ip) == ll[Place(ip)]
Without(ip) ==
  IF ip \in Cached
  THEN [i \in 1 .. Len(ll) - 1 |-> IF i < Place(ip) THEN ll[i] ELSE ll[i + 1]]
  ELSE ll

TypeOK ==
  /\ ll \in Seq(Entry)
  /\ got \in [ip: IPs, at: 0 .. MaxTime, hostname: Hosts \cup {None}]
  /\ latest \in [IPs -> [hostname: Hosts \cup {None}, at: 0 .. MaxTime]]
  /\ stale \subseteq IPs
  /\ touched \in [IPs -> SUBSET IPs]

Init ==
  /\ ll = << >>
  /\ got = [ip |-> CHOOSE ip \in IPs : TRUE, at |-> 0, hostname |-> None]
  /\ latest = [ip \in IPs |-> [hostname |-> None, at |-> 0]]
  /\ stale = {} /\ touched = [ip \in IPs |-> {}]

Touch(ip) == touched' = [x \in IPs |-> IF x = ip THEN {} ELSE touched[x] \cup {ip}]

-----------------------------------------------------------------------------
(* Put: the entry moves to the front with a new hostname and expiry; a new   *)
(* entry may push out the one at the back.                                   *)
Put(ip, host, now) ==
  /\ LET moved == <<[ip |-> ip, hostname |-> host, expires |-> now + ttl]>> \o Without(ip)
     IN ll' = IF Len(moved) > capacity THEN SubSeq(moved, 1, Len(moved) - 1) ELSE moved
  /\ latest' = [latest EXCEPT ![ip] = [hostname |-> host, at |-> now]]
  /\ stale' = stale \ {ip} /\ Touch(ip)
  /\ UNCHANGED got

(* Variant: a hit does not make the entry recent. *)
GetInPlace(ip, now) ==
  /\ IF ip \in Cached /\ now <= EntryOf(ip).expires
     THEN /\ got' = [ip |-> ip, at |-> now, hostname |-> EntryOf(ip).hostname]
          /\ Touch(ip) /\ UNCHANGED ll
     ELSE /\ got' = [ip |-> ip, at |-> now, hostname |-> None]
          /\ ll' = Without(ip) /\ UNCHANGED touched
  /\ stale' = IF now > latest[ip].at + ttl THEN stale \cup {ip} ELSE stale
  /\ UNCHANGED latest

(* Get: a hit moves to the front, an expired entry is removed. *)
Get(ip, now) ==
  /\ IF ip \in Cached /\ now <= EntryOf(ip).expires
     THEN /\ ll' = <<EntryOf(ip)>> \o Without(ip)
          /\ got' = [ip |-> ip, at |-> now, hostname |-> EntryOf(ip).hostname]
          /\ Touch(ip)
     ELSE /\ ll' = Without(ip)
          /\ got' = [ip |-> ip, at |-> now, hostname |-> None]
          /\ UNCHANGED touched
  /\ stale' = IF now > latest[ip].at + ttl THEN stale \cup {ip} ELSE stale
  /\ UNCHANGED latest

Next == \E ip \in IPs, now \in 0 .. MaxTime :
          \/ \E host \in Hosts : Put(ip, host, now)
          \/ Get(ip, now)

Spec == Init /\ [][Next]_vars

-----------------------------------------------------------------------------
(* The cache never holds more than capacity entries, nor two of one address. *)
CacheBounded == Len(ll) <= capacity /\ \A i, j \in DOMAIN ll : ll[i].ip = ll[j].ip => i = j

(* "it remembers the most recently observed hostname" and each is "valid for *)
(* ttl after its last update" (hostname_cache.go:22-26, 39-40): a Get that   *)
(* answers gives the hostname of the last Put for the address, no older than *)
(* ttl at the time asked about.                                              *)
AnswersAreLatest ==
  [][got' # got /\ got'.hostname # None =>
       /\ got'.hostname = latest[got'.ip].hostname
       /\ got'.at <= latest[got'.ip].at + ttl]_vars

(* A hostname is only forgotten when it was asked for after its expiry, or   *)
(* once capacity other addresses have been used since its own last was (Put  *)
(* evicts the back of the list).                                             *)
OnlyUnusedForgotten ==
  \A ip \in IPs :
    latest[ip].hostname # None /\ ip \notin Cached =>
      ip \in stale \/ Cardinality(touched[ip]) >= capacity
=============================================================================
