------------------------ MODULE HostnameCacheProofs -------------------------
(***************************************************************************)
(* Proofs about HostnameCache: for any capacity and any times given to Put *)
(* and Get, an answer is what was put last, and only what expired or fell  *)
(* out of use is forgotten.                                                *)
(***************************************************************************)
EXTENDS MCPacket, Sequences, FiniteSetTheorems, TLAPS

(* An entry has the hostname last put for its address and expires ttl later. *)
IsLatest(e) == e.hostname = latest[e.ip].hostname /\ e.expires = latest[e.ip].at + ttl

(* The list is in order of use: the addresses before an entry have all been  *)
(* used since it last was.                                                   *)
InOrderOfUse == \A i, j \in DOMAIN ll : i < j => ll[i].ip \in touched[ll[j].ip]

HostInv ==
  /\ Hostnames!TypeOK /\ Hostnames!CacheBounded /\ Hostnames!OnlyUnusedForgotten
  /\ \A i \in DOMAIN ll : IsLatest(ll[i])
  /\ InOrderOfUse
  /\ \A ip \in IPs : IsFiniteSet(touched[ip])

(* Where the entry that is i-th without x stands in the list. *)
At(x, i) == IF x \in Hostnames!Cached /\ i >= Hostnames!Place(x) THEN i + 1 ELSE i

(* The cache counts as FiniteSets does. *)
LEMMA SameCount == \A S : Hostnames!Cardinality(S) = Cardinality(S)
BY Zenon DEF Hostnames!Cardinality, Cardinality, Hostnames!IsFiniteSet, IsFiniteSet

LEMMA HostConstants ==
  capacity \in Nat \ {0} /\ ttl \in Nat /\ MaxTime \in Nat /\ IPs # {} /\ None \notin Hosts
BY HostnamesAssumption, Zenon DEF Hostnames!HostnameCacheAssumption

LEMMA ListType ==
  ASSUME HostInv
  PROVE  /\ Len(ll) \in Nat /\ DOMAIN ll = 1 .. Len(ll) /\ Len(ll) <= capacity
         /\ \A i \in DOMAIN ll : ll[i] \in Hostnames!Entry /\ ll[i].ip \in IPs
         /\ \A i, j \in DOMAIN ll : ll[i].ip = ll[j].ip => i = j
<1>1. ll \in Seq(Hostnames!Entry)
  BY Zenon DEF HostInv, Hostnames!TypeOK
<1>2. Len(ll) \in Nat /\ DOMAIN ll = 1 .. Len(ll) /\ \A i \in DOMAIN ll : ll[i] \in Hostnames!Entry
  BY <1>1
<1>3. \A e \in Hostnames!Entry : e.ip \in IPs
  BY Zenon DEF Hostnames!Entry
<1> QED BY <1>2, <1>3, Zenon DEF HostInv, Hostnames!CacheBounded

LEMMA PlaceIs ==
  ASSUME HostInv, NEW x \in Hostnames!Cached
  PROVE  Hostnames!Place(x) \in 1 .. Len(ll) /\ ll[Hostnames!Place(x)].ip = x
<1>1. \E i \in DOMAIN ll : ll[i].ip = x
  BY Zenon DEF Hostnames!Cached
<1>2. Hostnames!Place(x) \in DOMAIN ll /\ ll[Hostnames!Place(x)].ip = x
  BY <1>1, Zenon DEF Hostnames!Place
<1> QED BY <1>2, ListType, Zenon

(* How many entries are not of x. *)
Others(x) == IF x \in Hostnames!Cached THEN Len(ll) - 1 ELSE Len(ll)

(* At counts through the other entries, in order and leaving none out. *)
LEMMA AtCounts ==
  ASSUME HostInv, NEW x
  PROVE  /\ Others(x) \in Nat
         /\ \A i \in 1 .. Others(x) : At(x, i) \in 1 .. Len(ll) /\ ll[At(x, i)].ip # x
         /\ \A i, j \in 1 .. Others(x) : i < j => At(x, i) < At(x, j)
         /\ \A k \in 1 .. Len(ll) : ll[k].ip # x => \E i \in 1 .. Others(x) : k = At(x, i)
<1>1. CASE x \notin Hostnames!Cached
  <2>1. Others(x) = Len(ll) /\ \A i : At(x, i) = i
    BY <1>1, Zenon DEF Others, At
  <2>2. \A k \in 1 .. Len(ll) : ll[k].ip # x
    BY <1>1, ListType, Zenon DEF Hostnames!Cached
  <2>3. \A i, j \in 1 .. Others(x) : i < j => At(x, i) < At(x, j)
    BY <2>1
  <2> QED BY <2>1, <2>2, <2>3, ListType, Zenon
<1>2. CASE x \in Hostnames!Cached
  <2>1. PICK q \in 1 .. Len(ll) : q = Hostnames!Place(x)
    BY <1>2, PlaceIs, Zenon
  <2>2. ll[q].ip = x
    BY <1>2, <2>1, PlaceIs, Zenon
  <2>3. PICK n \in Nat : n = Len(ll)
    BY ListType, Zenon
  <2>4. Others(x) = n - 1 /\ \A i : At(x, i) = IF i >= q THEN i + 1 ELSE i
    BY <1>2, <2>1, <2>3, Zenon DEF Others, At
  <2>5. q \in 1 .. n
    BY <2>3, Zenon
  <2>6. n - 1 \in Nat
    BY <2>5
  <2>7. \A i \in 1 .. n - 1 : At(x, i) \in 1 .. n /\ At(x, i) # q
    BY <2>4, <2>5
  <2>8. \A i, j \in 1 .. n - 1 : i < j => At(x, i) < At(x, j)
    BY <2>4, <2>5
  <2>9. \A k \in 1 .. n : k # q => \E i \in 1 .. n - 1 : k = At(x, i)
    <3> SUFFICES ASSUME NEW k \in 1 .. n, k # q PROVE \E i \in 1 .. n - 1 : k = At(x, i)
      OBVIOUS
    <3>1. CASE k < q
      BY <2>4, <2>5, <3>1
    <3>2. CASE k > q
      <4>1. k - 1 \in 1 .. n - 1 /\ k = At(x, k - 1)
        BY <2>4, <2>5, <3>2
      <4> QED BY <4>1, Zenon
    <3> QED BY <2>5, <3>1, <3>2
  <2>10. \A k \in 1 .. n : ll[k].ip = x => k = q
    BY <2>2, <2>3, <2>5, ListType, Zenon
  <2>11. \A i \in 1 .. n - 1 : ll[At(x, i)].ip # x
    BY <2>7, <2>10, Zenon
  <2>12. \A k \in 1 .. n : ll[k].ip # x => \E i \in 1 .. n - 1 : k = At(x, i)
    BY <2>2, <2>9, Zenon
  <2> QED BY <2>3, <2>4, <2>6, <2>7, <2>8, <2>11, <2>12, Zenon
<1> QED BY <1>1, <1>2, Zenon

(* Without leaves the other entries in their order. *)
LEMMA WithoutShape ==
  ASSUME HostInv, NEW x
  PROVE  /\ Hostnames!Without(x) \in Seq(Hostnames!Entry) /\ Len(Hostnames!Without(x)) = Others(x)
         /\ \A i \in 1 .. Others(x) : Hostnames!Without(x)[i] = ll[At(x, i)]
<1>1. CASE x \notin Hostnames!Cached
  <2>1. Hostnames!Without(x) = ll /\ Others(x) = Len(ll) /\ \A i : At(x, i) = i
    BY <1>1, Zenon DEF Hostnames!Without, Others, At
  <2> QED BY <2>1, Zenon DEF HostInv, Hostnames!TypeOK
<1>2. CASE x \in Hostnames!Cached
  <2>1. Hostnames!Place(x) \in 1 .. Len(ll) /\ Len(ll) \in Nat
    BY <1>2, PlaceIs, ListType, Zenon
  <2>2. PICK w : w = Hostnames!Without(x)
    BY Zenon
  <2>3. w = [i \in 1 .. Others(x) |-> IF i < Hostnames!Place(x) THEN ll[i] ELSE ll[i + 1]]
    BY <1>2, <2>2, Zenon DEF Hostnames!Without, Others
  <2>4. \A i \in 1 .. Others(x) : w[i] = ll[At(x, i)]
    <3> SUFFICES ASSUME NEW i \in 1 .. Others(x) PROVE w[i] = ll[At(x, i)]
      BY Zenon
    <3>1. i < Hostnames!Place(x) <=> ~(i >= Hostnames!Place(x))
      BY <2>1, AtCounts
    <3> QED BY <1>2, <2>3, <3>1, Zenon DEF At
  <2>5. \A i \in 1 .. Others(x) : w[i] \in Hostnames!Entry
    BY <2>4, AtCounts, ListType, Zenon
  <2>6. w \in [1 .. Others(x) -> Hostnames!Entry]
    BY <2>3, <2>5, Zenon
  <2>7. Others(x) \in Nat
    BY AtCounts, Zenon
  <2>8. w \in Seq(Hostnames!Entry) /\ Len(w) = Others(x)
    BY <2>6, <2>7
  <2> QED BY <2>2, <2>4, <2>8, Zenon
<1> QED BY <1>1, <1>2, Zenon

(* s is the list with entry e of x in front, cut short or not. *)
Fronted(s, e, x) ==
  /\ s \in Seq(Hostnames!Entry) /\ Len(s) \in 1 .. Others(x) + 1 /\ s[1] = e
  /\ \A i \in 1 .. Others(x) : i + 1 <= Len(s) => s[i + 1] = ll[At(x, i)]

LEMMA FrontedPlaces ==
  ASSUME HostInv, NEW x, NEW e, NEW s, Fronted(s, e, x), NEW i \in 1 .. Len(s)
  PROVE  i = 1 \/ \E k \in 1 .. Others(x) : i = k + 1 /\ s[i] = ll[At(x, k)]
<1>1. PICK n \in Nat : n = Others(x)
  BY AtCounts, Zenon
<1>2. PICK m \in 1 .. n + 1 : m = Len(s)
  BY <1>1, Zenon DEF Fronted
<1>3. i \in 1 .. m
  BY <1>2, Zenon
<1>4. CASE i # 1
  <2>1. PICK k \in 1 .. n : i = k + 1 /\ k + 1 <= m
    <3>1. i - 1 \in 1 .. n /\ i = (i - 1) + 1 /\ (i - 1) + 1 <= m
      BY <1>2, <1>3, <1>4
    <3> QED BY <3>1, Zenon
  <2> QED BY <1>1, <1>2, <2>1, Zenon DEF Fronted
<1> QED BY <1>4, Zenon

LEMMA TouchIs ==
  ASSUME HostInv, NEW x \in IPs, Hostnames!Touch(x)
  PROVE  /\ touched' \in [IPs -> SUBSET IPs] /\ touched'[x] = {}
         /\ \A y \in IPs : y # x => touched'[y] = touched[y] \cup {x}
         /\ \A y \in IPs : IsFiniteSet(touched'[y])
<1>1. touched \in [IPs -> SUBSET IPs] /\ \A y \in IPs : IsFiniteSet(touched[y])
  BY Zenon DEF HostInv, Hostnames!TypeOK
<1>2. touched' = [y \in IPs |-> IF y = x THEN {} ELSE touched[y] \cup {x}]
  BY Zenon DEF Hostnames!Touch
<1>3. touched'[x] = {} /\ \A y \in IPs : y # x => touched'[y] = touched[y] \cup {x}
  BY <1>2, Zenon
<1>4. \A y \in IPs : touched[y] \cup {x} \in SUBSET IPs
  BY <1>1, Zenon
<1>5. touched' \in [IPs -> SUBSET IPs]
  BY <1>2, <1>4, Zenon
<1>6. \A y \in IPs : IsFiniteSet(touched'[y])
  <2>1. \A y \in IPs : IsFiniteSet(touched[y] \cup {x})
    BY <1>1, FS_AddElement
  <2>2. IsFiniteSet({})
    BY FS_EmptySet, Zenon
  <2> QED BY <1>3, <2>1, <2>2, Zenon
<1> QED BY <1>3, <1>5, <1>6, Zenon

(* An entry moved to the front keeps the list distinct and in order of use. *)
LEMMA FrontedKeeps ==
  ASSUME HostInv, NEW x \in IPs, NEW e, e.ip = x, Fronted(ll', e, x), Hostnames!Touch(x),
         e.hostname = latest'[x].hostname, e.expires = latest'[x].at + ttl,
         \A y \in IPs : y # x => latest'[y] = latest[y]
  PROVE  /\ \A i, j \in DOMAIN ll' : ll'[i].ip = ll'[j].ip => i = j
         /\ \A i \in DOMAIN ll' : IsLatest(ll[i])'
         /\ InOrderOfUse'
<1>1. /\ Len(ll') \in Nat /\ DOMAIN ll' = 1 .. Len(ll') /\ ll'[1] = e
  <2>1. ll' \in Seq(Hostnames!Entry) /\ ll'[1] = e
    BY Zenon DEF Fronted
  <2> QED BY <2>1
<1>2. \A i \in DOMAIN ll' : i = 1 \/ \E k \in 1 .. Others(x) : i = k + 1 /\ ll'[i] = ll[At(x, k)]
  <2>1. PICK s : s = ll'
    BY Zenon
  <2>2. Fronted(s, e, x) /\ DOMAIN s = 1 .. Len(s)
    BY <1>1, <2>1, Zenon
  <2>3. \A i \in DOMAIN s : i = 1 \/ \E k \in 1 .. Others(x) : i = k + 1 /\ s[i] = ll[At(x, k)]
    BY <2>2, FrontedPlaces
  <2> QED BY <2>1, <2>3, Zenon
<1>3. \A k \in 1 .. Others(x) : At(x, k) \in DOMAIN ll /\ ll[At(x, k)].ip \in IPs /\ ll[At(x, k)].ip # x
  BY AtCounts, ListType, Zenon
<1>4. \A j, k \in 1 .. Others(x) : (j < k => At(x, j) < At(x, k)) /\ (j < k \/ k < j \/ j = k)
  <2>1. \A j, k \in 1 .. Others(x) : j < k \/ k < j \/ j = k
    BY AtCounts
  <2> QED BY <2>1, AtCounts, Zenon
<1>5. \A j, k \in 1 .. Others(x) : ll[At(x, j)].ip = ll[At(x, k)].ip => j = k
  <2> SUFFICES ASSUME NEW j \in 1 .. Others(x), NEW k \in 1 .. Others(x), ll[At(x, j)].ip = ll[At(x, k)].ip, j # k
               PROVE  FALSE
    BY Zenon
  <2>1. At(x, j) = At(x, k)
    BY <1>3, ListType, Zenon
  <2>2. At(x, j) < At(x, k) \/ At(x, k) < At(x, j)
    BY <1>4, Zenon
  <2>3. At(x, k) \in Int
    BY <1>3, ListType
  <2> QED BY <2>1, <2>2, <2>3
<1>6. ASSUME NEW i \in DOMAIN ll', NEW j \in DOMAIN ll', ll'[i].ip = ll'[j].ip PROVE i = j
  <2>1. CASE i = 1 /\ j = 1
    BY <2>1, Zenon
  <2>2. ASSUME NEW k \in 1 .. Others(x),
               \/ ll'[i] = e /\ ll'[j] = ll[At(x, k)]
               \/ ll'[j] = e /\ ll'[i] = ll[At(x, k)]
        PROVE  FALSE
    <3>1. ll[At(x, k)].ip = e.ip
      BY <1>6, <2>2, Zenon
    <3> QED BY <1>3, <3>1, Zenon
  <2>3. CASE i = 1 /\ j # 1
    BY <1>1, <1>2, <2>2, <2>3, Zenon
  <2>4. CASE i # 1 /\ j = 1
    BY <1>1, <1>2, <2>2, <2>4, Zenon
  <2>5. CASE i # 1 /\ j # 1
    <3>1. PICK h \in 1 .. Others(x) : i = h + 1 /\ ll'[i] = ll[At(x, h)]
      BY <1>2, <2>5, Zenon
    <3>2. PICK k \in 1 .. Others(x) : j = k + 1 /\ ll'[j] = ll[At(x, k)]
      BY <1>2, <2>5, Zenon
    <3>3. h = k
      BY <1>5, <1>6, <3>1, <3>2, Zenon
    <3> QED BY <3>1, <3>2, <3>3, Zenon
  <2> QED BY <2>1, <2>3, <2>4, <2>5, Zenon
<1>7. ASSUME NEW i \in DOMAIN ll' PROVE IsLatest(ll[i])'
  <2>1. CASE i = 1
    BY <1>1, <2>1, Zenon DEF IsLatest
  <2>2. CASE i # 1
    <3>1. PICK k \in 1 .. Others(x) : ll'[i] = ll[At(x, k)]
      BY <1>2, <2>2, Zenon
    <3>2. PICK f : f = ll[At(x, k)]
      BY Zenon
    <3>3. IsLatest(f) /\ f.ip \in IPs /\ f.ip # x
      BY <1>3, <3>2, Zenon DEF HostInv
    <3>4. latest'[f.ip] = latest[f.ip] /\ ll'[i] = f
      BY <3>1, <3>2, <3>3, Zenon
    <3> QED BY <3>3, <3>4, Zenon DEF IsLatest
  <2> QED BY <2>1, <2>2, Zenon
<1>8. ASSUME NEW i \in DOMAIN ll', NEW j \in DOMAIN ll', i < j PROVE ll'[i].ip \in touched'[ll'[j].ip]
  <2>1. PICK k \in 1 .. Others(x) : j = k + 1 /\ ll'[j] = ll[At(x, k)]
    <3>1. j # 1
      BY <1>1, <1>8
    <3> QED BY <1>2, <3>1, Zenon
  <2>2. touched'[ll'[j].ip] = touched[ll[At(x, k)].ip] \cup {x}
    <3>1. PICK y \in IPs : y = ll[At(x, k)].ip
      BY <1>3, Zenon
    <3>2. y # x /\ ll'[j].ip = y
      BY <1>3, <2>1, <3>1, Zenon
    <3>3. touched'[y] = touched[y] \cup {x}
      BY <3>2, TouchIs, Zenon
    <3> QED BY <3>1, <3>2, <3>3, Zenon
  <2>3. CASE i = 1
    BY <1>1, <2>2, <2>3, Zenon
  <2>4. CASE i # 1
    <3>1. PICK h \in 1 .. Others(x) : i = h + 1 /\ ll'[i] = ll[At(x, h)]
      BY <1>2, <2>4, Zenon
    <3>2. h < k
      <4>1. h + 1 < k + 1
        BY <1>8, <2>1, <3>1, Zenon
      <4> QED BY <4>1, AtCounts
    <3>3. ll[At(x, h)].ip \in touched[ll[At(x, k)].ip]
      BY <1>3, <1>4, <3>2, Zenon DEF HostInv, InOrderOfUse
    <3> QED BY <2>2, <3>1, <3>3, Zenon
  <2> QED BY <2>3, <2>4, Zenon
<1> QED BY <1>6, <1>7, <1>8, Zenon DEF InOrderOfUse

(* A larger finite set counts no less. *)
LEMMA MoreTouched ==
  ASSUME NEW S, NEW T, S \subseteq T, IsFiniteSet(T), Cardinality(S) >= capacity
  PROVE  Cardinality(T) >= capacity
<1>1. IsFiniteSet(S) /\ Cardinality(S) <= Cardinality(T)
  BY FS_Subset, Zenon
<1>2. Cardinality(S) \in Nat /\ Cardinality(T) \in Nat
  BY <1>1, FS_CardinalityType, Zenon
<1> QED BY <1>1, <1>2, HostConstants

(* What the others have of use: nothing that was forgotten is less so. *)
LEMMA StillForgotten ==
  ASSUME HostInv, NEW x \in IPs, Hostnames!Touch(x), stale \ {x} \subseteq stale',
         NEW y \in IPs, y # x, latest'[y] = latest[y], latest'[y].hostname # None, y \notin Hostnames!Cached
  PROVE  y \in stale' \/ Cardinality(touched'[y]) >= capacity
<1>0. latest[y].hostname # None
  BY Zenon
<1>1. y \in stale \/ Cardinality(touched[y]) >= capacity
  <2>1. Hostnames!OnlyUnusedForgotten
    BY Zenon DEF HostInv
  <2> QED BY <1>0, <2>1, SameCount, Zenon DEF Hostnames!OnlyUnusedForgotten
<1>2. CASE y \in stale
  BY <1>2, Zenon
<1>3. CASE Cardinality(touched[y]) >= capacity
  <2>1. touched[y] \subseteq touched'[y] /\ IsFiniteSet(touched'[y])
    BY TouchIs, Zenon
  <2> QED BY <1>3, <2>1, MoreTouched, Zenon
<1> QED BY <1>1, <1>2, <1>3, Zenon

LEMMA ConsShape ==
  ASSUME NEW T, NEW e \in T, NEW w \in Seq(T)
  PROVE  /\ <<e>> \o w \in Seq(T) /\ Len(<<e>> \o w) = Len(w) + 1 /\ (<<e>> \o w)[1] = e
         /\ \A i \in 1 .. Len(w) : (<<e>> \o w)[i + 1] = w[i]
OBVIOUS

(* Pushing an entry to the front of the others, and dropping the last one. *)
LEMMA PushShape ==
  ASSUME HostInv, NEW x, NEW e \in Hostnames!Entry, NEW s, s = <<e>> \o Hostnames!Without(x)
  PROVE  /\ Len(s) = Others(x) + 1 /\ Fronted(s, e, x)
         /\ Others(x) >= 1 => Fronted(SubSeq(s, 1, Len(s) - 1), e, x)
                              /\ Len(SubSeq(s, 1, Len(s) - 1)) = Others(x)
<1>1. PICK n \in Nat : n = Others(x)
  BY AtCounts, Zenon
<1>2. PICK w \in Seq(Hostnames!Entry) : w = Hostnames!Without(x)
  BY WithoutShape, Zenon
<1>3. Len(w) = n /\ \A i \in 1 .. n : w[i] = ll[At(x, i)]
  BY <1>1, <1>2, WithoutShape, Zenon
<1>4. s = <<e>> \o w
  BY <1>2, Zenon
<1>5. /\ s \in Seq(Hostnames!Entry) /\ Len(s) = n + 1 /\ s[1] = e
      /\ \A i \in 1 .. n : s[i + 1] = w[i]
  <2>1. /\ <<e>> \o w \in Seq(Hostnames!Entry) /\ Len(<<e>> \o w) = Len(w) + 1 /\ (<<e>> \o w)[1] = e
        /\ \A i \in 1 .. Len(w) : (<<e>> \o w)[i + 1] = w[i]
    BY ConsShape
  <2> QED BY <1>3, <1>4, <2>1, Zenon
<1>6. \A i \in 1 .. n : s[i + 1] = ll[At(x, i)]
  BY <1>3, <1>5, Zenon
<1>7. n + 1 \in 1 .. n + 1
  OBVIOUS
<1>8. Fronted(s, e, x)
  BY <1>1, <1>5, <1>6, <1>7, Zenon DEF Fronted
<1>9. ASSUME n >= 1, NEW c, c = SubSeq(s, 1, Len(s) - 1) PROVE Fronted(c, e, x) /\ Len(c) = n
  <2>1. /\ c \in Seq(Hostnames!Entry) /\ Len(c) = n
        /\ \A i \in 1 .. n : c[i] = s[i]
    <3>1. Len(s) - 1 = n
      BY <1>5
    <3>2. c = SubSeq(s, 1, n)
      BY <1>9, <3>1, Zenon
    <3> QED BY <1>5, <3>2
  <2>2. n \in 1 .. n + 1 /\ 1 \in 1 .. n
    BY <1>9
  <2>3. \A i \in 1 .. n : i + 1 <= n => c[i + 1] = s[i + 1]
    <3>1. \A i \in 1 .. n : i + 1 <= n => i + 1 \in 1 .. n
      OBVIOUS
    <3> QED BY <2>1, <3>1, Zenon
  <2> QED BY <1>1, <1>5, <1>6, <2>1, <2>2, <2>3, Zenon DEF Fronted
<1>10. PICK c : c = SubSeq(s, 1, Len(s) - 1)
  BY Zenon
<1> QED BY <1>1, <1>5, <1>8, <1>9, <1>10, Zenon

(* The entry pushed out is the one all others have been used since. *)
LEMMA LastIsUnused ==
  ASSUME HostInv, NEW x \in IPs, x \notin Hostnames!Cached, Len(ll) = capacity,
         NEW e, e.ip = x, Fronted(ll', e, x), Len(ll') = capacity, Hostnames!Touch(x),
         \A i, j \in DOMAIN ll' : ll'[i].ip = ll'[j].ip => i = j
  PROVE  Cardinality(touched'[ll[capacity].ip]) >= capacity
<1> DEFINE y == ll[capacity].ip
<1>1. capacity \in Nat \ {0} /\ capacity \in 1 .. capacity /\ 1 .. Len(ll) = DOMAIN ll
  BY HostConstants, ListType
<1>2. Others(x) = capacity /\ \A i : At(x, i) = i
  BY Zenon DEF Others, At
<1>3. y \in IPs /\ y # x
  BY <1>1, ListType, Zenon DEF Hostnames!Cached
<1> HIDE DEF y
<1>4. touched'[y] = touched[y] \cup {x} /\ IsFiniteSet(touched'[y])
  BY <1>3, TouchIs, Zenon
<1>5. DOMAIN ll' = 1 .. capacity /\ ll'[1] = e
  <2>1. ll' \in Seq(Hostnames!Entry) /\ ll'[1] = e
    BY Zenon DEF Fronted
  <2>2. DOMAIN ll' = 1 .. Len(ll')
    BY <2>1
  <2> QED BY <2>1, <2>2, Zenon
<1>6. ASSUME NEW i \in 1 .. capacity PROVE ll'[i].ip \in touched'[y]
  <2>1. CASE i = 1
    BY <1>4, <1>5, <2>1, Zenon
  <2>2. CASE i # 1
    <3>1. PICK k \in 1 .. capacity : i = k + 1
      <4>1. i - 1 \in 1 .. capacity /\ i = (i - 1) + 1
        BY <1>1, <2>2
      <4> QED BY <4>1, Zenon
    <3>2. ll'[i] = ll[k]
      <4>1. k + 1 <= Len(ll')
        BY <1>1, <3>1
      <4> QED BY <1>2, <3>1, <4>1, Zenon DEF Fronted
    <3>3. k < capacity
      BY <1>1, <3>1
    <3>4. ll[k].ip \in touched[y]
      BY <1>1, <3>3, Zenon DEF HostInv, InOrderOfUse, y
    <3> QED BY <1>4, <3>2, <3>4, Zenon
  <2> QED BY <2>1, <2>2, Zenon
<1>7. PICK f : f = [i \in 1 .. capacity |-> ll'[i].ip]
  BY Zenon
<1>8. f \in [1 .. capacity -> touched'[y]] /\ \A i, j \in 1 .. capacity : f[i] = f[j] => i = j
  BY <1>5, <1>6, <1>7, Zenon
<1>9. f \in Injection(1 .. capacity, touched'[y])
  BY <1>8, Zenon DEF Injection, IsInjective
<1>10. Cardinality(1 .. capacity) <= Cardinality(touched'[y])
  BY <1>4, <1>9, FS_Injection, Zenon
<1>11. Cardinality(1 .. capacity) = capacity
  <2>1. 1 \in Int /\ capacity \in Int
    BY <1>1
  <2>2. Cardinality(1 .. capacity) = IF 1 > capacity THEN 0 ELSE capacity - 1 + 1
    BY <2>1, FS_Interval, Zenon
  <2> QED BY <1>1, <2>2
<1>12. Cardinality(touched'[y]) \in Nat
  BY <1>4, FS_CardinalityType, Zenon
<1> QED BY <1>1, <1>10, <1>11, <1>12 DEF y

(* Moving an entry to the front, with none dropped, keeps the invariant. *)
LEMMA FrontKeepsAll ==
  ASSUME HostInv, NEW x \in IPs, NEW e, e.ip = x, Fronted(ll', e, x), Hostnames!Touch(x),
         Len(ll') = Others(x) + 1, Len(ll') <= capacity,
         e.hostname = latest'[x].hostname, e.expires = latest'[x].at + ttl,
         \A y \in IPs : y # x => latest'[y] = latest[y],
         latest' \in [IPs -> [hostname: Hosts \cup {None}, at: 0 .. MaxTime]],
         got' \in [ip: IPs, at: 0 .. MaxTime, hostname: Hosts \cup {None}],
         stale' \subseteq IPs, stale \ {x} \subseteq stale'
  PROVE  HostInv'
<1>1. /\ \A i, j \in DOMAIN ll' : ll'[i].ip = ll'[j].ip => i = j
      /\ \A i \in DOMAIN ll' : IsLatest(ll[i])'
      /\ InOrderOfUse'
  BY FrontedKeeps, Zenon
<1>2. ll' \in Seq(Hostnames!Entry) /\ ll'[1] = e
  BY Zenon DEF Fronted
<1>3. Hostnames!TypeOK'
  BY <1>2, TouchIs, Zenon DEF Hostnames!TypeOK
<1>4. Hostnames!CacheBounded'
  BY <1>1, Zenon DEF Hostnames!CacheBounded
<1>5. PICK n \in Nat : n = Others(x)
  BY AtCounts, Zenon
<1>6. DOMAIN ll' = 1 .. n + 1
  <2>1. DOMAIN ll' = 1 .. Len(ll')
    BY <1>2
  <2> QED BY <1>5, <2>1, Zenon
<1>7. \A k \in 1 .. n : k + 1 \in DOMAIN ll' /\ k + 1 <= n + 1
  BY <1>6
<1>8. 1 \in DOMAIN ll'
  BY <1>6
<1>9. ASSUME NEW y \in Hostnames!Cached PROVE y \in Hostnames!Cached'
  <2>1. PICK k \in 1 .. Len(ll) : ll[k].ip = y
    BY ListType, Zenon DEF Hostnames!Cached
  <2>2. CASE y = x
    BY <1>2, <1>8, <2>2, Zenon DEF Hostnames!Cached
  <2>3. CASE y # x
    <3>1. PICK i \in 1 .. n : k = At(x, i)
      BY <1>5, <2>1, <2>3, AtCounts, Zenon
    <3>2. ll'[i + 1] = ll[k]
      BY <1>5, <1>7, <3>1, Zenon DEF Fronted
    <3> QED BY <1>7, <2>1, <3>2, Zenon DEF Hostnames!Cached
  <2> QED BY <2>2, <2>3, Zenon
<1>10. ASSUME NEW y \in IPs, latest'[y].hostname # None, y \notin Hostnames!Cached'
       PROVE  y \in stale' \/ Cardinality(touched'[y]) >= capacity
  <2>1. y # x
    BY <1>2, <1>8, <1>10, Zenon DEF Hostnames!Cached
  <2>2. y \notin Hostnames!Cached
    BY <1>9, <1>10, Zenon
  <2>3. latest'[y] = latest[y]
    BY <2>1, Zenon
  <2> QED BY <1>10, <2>1, <2>2, <2>3, StillForgotten, Zenon
<1>11. Hostnames!OnlyUnusedForgotten'
  BY <1>10, SameCount, Zenon DEF Hostnames!OnlyUnusedForgotten
<1> QED BY <1>1, <1>3, <1>4, <1>11, TouchIs, Zenon DEF HostInv

(* Put keeps the cache's invariant. *)
LEMMA PutKeeps ==
  ASSUME HostInv, NEW x \in IPs, NEW host \in Hosts, NEW now \in 0 .. MaxTime, Hostnames!Put(x, host, now)
  PROVE  HostInv'
<1>1. PICK e : e = [ip |-> x, hostname |-> host, expires |-> now + ttl]
  BY Zenon
<1>2. /\ e \in Hostnames!Entry /\ e.ip = x /\ e.hostname = host /\ e.expires = now + ttl
  <2>1. now + ttl \in Int
    BY HostConstants
  <2> QED BY <1>1, <2>1 DEF Hostnames!Entry
<1>3. PICK s : s = <<e>> \o Hostnames!Without(x)
  BY Zenon
<1>4. ll' = IF Len(s) > capacity THEN SubSeq(s, 1, Len(s) - 1) ELSE s
  BY <1>1, <1>3, Zenon DEF Hostnames!Put
<1>5. /\ latest' = [latest EXCEPT ![x] = [hostname |-> host, at |-> now]]
      /\ stale' = stale \ {x} /\ Hostnames!Touch(x) /\ got' = got
  BY Zenon DEF Hostnames!Put
<1>6. /\ got \in [ip: IPs, at: 0 .. MaxTime, hostname: Hosts \cup {None}]
      /\ latest \in [IPs -> [hostname: Hosts \cup {None}, at: 0 .. MaxTime]]
      /\ stale \subseteq IPs
  BY Zenon DEF HostInv, Hostnames!TypeOK
<1>7. /\ latest' \in [IPs -> [hostname: Hosts \cup {None}, at: 0 .. MaxTime]]
      /\ latest'[x].hostname = host /\ latest'[x].at = now
      /\ \A y \in IPs : y # x => latest'[y] = latest[y]
  BY <1>5, <1>6
<1>8. /\ Len(s) = Others(x) + 1 /\ Fronted(s, e, x)
      /\ Others(x) >= 1 => /\ Fronted(SubSeq(s, 1, Len(s) - 1), e, x)
                           /\ Len(SubSeq(s, 1, Len(s) - 1)) = Others(x)
  BY <1>2, <1>3, PushShape, Zenon
<1>9. /\ Others(x) \in Nat /\ Len(ll) \in Nat /\ Len(ll) <= capacity /\ capacity \in Nat \ {0}
      /\ Others(x) <= Len(ll) /\ (x \in Hostnames!Cached => Others(x) = Len(ll) - 1)
      /\ (x \notin Hostnames!Cached => Others(x) = Len(ll))
  <2>1. Others(x) = IF x \in Hostnames!Cached THEN Len(ll) - 1 ELSE Len(ll)
    BY Zenon DEF Others
  <2>2. Len(ll) \in Nat /\ Len(ll) <= capacity /\ Others(x) \in Nat
    BY ListType, AtCounts, Zenon
  <2>3. Len(ll) - 1 <= Len(ll) /\ Len(ll) <= Len(ll)
    BY <2>2
  <2> QED BY <2>1, <2>2, <2>3, HostConstants, Zenon
<1>10. CASE Len(s) > capacity
  <2>1. Others(x) = capacity /\ Len(ll) = capacity /\ x \notin Hostnames!Cached /\ Others(x) >= 1
    BY <1>8, <1>9, <1>10
  <2>2. Fronted(ll', e, x) /\ Len(ll') = capacity
    BY <1>4, <1>8, <1>10, <2>1, Zenon
  <2>3. /\ \A i, j \in DOMAIN ll' : ll'[i].ip = ll'[j].ip => i = j
        /\ \A i \in DOMAIN ll' : IsLatest(ll[i])'
        /\ InOrderOfUse'
    BY <1>2, <1>5, <1>7, <2>2, FrontedKeeps, Zenon
  <2>4. Cardinality(touched'[ll[capacity].ip]) >= capacity
    BY <1>2, <1>5, <2>1, <2>2, <2>3, LastIsUnused, Zenon
  <2>5. ASSUME NEW y \in IPs, latest'[y].hostname # None, y \notin Hostnames!Cached'
        PROVE  y \in stale' \/ Cardinality(touched'[y]) >= capacity
    <3>1. DOMAIN ll' = 1 .. capacity /\ 1 \in 1 .. capacity /\ ll'[1] = e
      <4>1. ll' \in Seq(Hostnames!Entry) /\ ll'[1] = e
        BY <2>2, Zenon DEF Fronted
      <4>2. DOMAIN ll' = 1 .. Len(ll')
        BY <4>1
      <4>3. 1 \in 1 .. capacity
        BY <1>9
      <4> QED BY <2>2, <4>1, <4>2, <4>3, Zenon
    <3>2. y # x
      BY <1>2, <2>5, <3>1, Zenon DEF Hostnames!Cached
    <3>3. CASE y \notin Hostnames!Cached
      <4>1. latest'[y] = latest[y] /\ stale \ {x} \subseteq stale'
        BY <1>5, <1>7, <3>2, Zenon
      <4> QED BY <1>5, <2>5, <3>2, <3>3, <4>1, StillForgotten, Zenon
    <3>4. CASE y \in Hostnames!Cached
      <4>1. PICK k \in 1 .. capacity : ll[k].ip = y
        BY <2>1, <3>4, ListType, Zenon DEF Hostnames!Cached
      <4>2. CASE k = capacity
        BY <2>4, <4>1, <4>2, Zenon
      <4>3. CASE k # capacity
        <5>1. k + 1 \in 1 .. capacity /\ k + 1 <= capacity
          BY <1>9, <4>3
        <5>2. At(x, k) = k
          BY <2>1, Zenon DEF At
        <5>3. ll'[k + 1] = ll[k]
          BY <2>1, <2>2, <5>1, <5>2, Zenon DEF Fronted
        <5> QED BY <2>5, <3>1, <4>1, <5>1, <5>3, Zenon DEF Hostnames!Cached
      <4> QED BY <4>2, <4>3, Zenon
    <3> QED BY <3>3, <3>4, Zenon
  <2>6. Hostnames!OnlyUnusedForgotten'
    BY <2>5, SameCount, Zenon DEF Hostnames!OnlyUnusedForgotten
  <2>7. Len(ll') <= capacity
    BY <1>9, <2>2
  <2>8. Hostnames!CacheBounded'
    BY <2>3, <2>7, Zenon DEF Hostnames!CacheBounded
  <2>9. Hostnames!TypeOK'
    <3>1. ll' \in Seq(Hostnames!Entry)
      BY <2>2, Zenon DEF Fronted
    <3> QED BY <1>5, <1>6, <1>7, <3>1, TouchIs, Zenon DEF Hostnames!TypeOK
  <2> QED BY <1>5, <2>3, <2>6, <2>8, <2>9, TouchIs, Zenon DEF HostInv
<1>11. CASE ~(Len(s) > capacity)
  <2>1. ll' = s /\ Len(ll') <= capacity
    <3>1. ll' = s
      BY <1>4, <1>11, Zenon
    <3>2. Others(x) + 1 <= capacity
      BY <1>8, <1>9, <1>11
    <3> QED BY <1>8, <3>1, <3>2, Zenon
  <2>2. Fronted(ll', e, x)
    BY <1>8, <2>1, Zenon
  <2>3. Len(ll') = Others(x) + 1
    BY <1>8, <2>1, Zenon
  <2> QED BY <1>2, <1>5, <1>6, <1>7, <2>1, <2>2, <2>3, FrontKeepsAll, Zenon
<1> QED BY <1>10, <1>11, Zenon

(* Get of an address that is cached and has not expired. *)
LEMMA GetHitKeeps ==
  ASSUME HostInv, NEW x \in IPs, NEW now \in 0 .. MaxTime, Hostnames!Get(x, now),
         x \in Hostnames!Cached, now <= Hostnames!EntryOf(x).expires
  PROVE  /\ HostInv' /\ got'.ip = x /\ got'.at = now
         /\ got'.hostname = latest[x].hostname /\ now <= latest[x].at + ttl
<1>1. PICK e : e = Hostnames!EntryOf(x)
  BY Zenon
<1>2. e \in Hostnames!Entry /\ e.ip = x /\ IsLatest(e)
  BY <1>1, PlaceIs, ListType, Zenon DEF Hostnames!EntryOf, HostInv
<1>3. /\ ll' = <<e>> \o Hostnames!Without(x) /\ Hostnames!Touch(x) /\ latest' = latest
      /\ got' = [ip |-> x, at |-> now, hostname |-> e.hostname]
      /\ stale' = IF now > latest[x].at + ttl THEN stale \cup {x} ELSE stale
  BY <1>1, Zenon DEF Hostnames!Get
<1>4. Len(ll') = Others(x) + 1 /\ Fronted(ll', e, x)
  BY <1>2, <1>3, PushShape, Zenon
<1>5. Len(ll') <= capacity
  <2>1. Others(x) = Len(ll) - 1
    BY Zenon DEF Others
  <2>2. Len(ll) \in Nat /\ Len(ll) <= capacity
    BY ListType, Zenon
  <2>3. (Len(ll) - 1) + 1 <= capacity
    BY <2>2, HostConstants
  <2> QED BY <1>4, <2>1, <2>3, Zenon
<1>6. e.hostname = latest[x].hostname /\ e.expires = latest[x].at + ttl /\ e.hostname \in Hosts
  BY <1>2, Zenon DEF IsLatest, Hostnames!Entry
<1>7. got' \in [ip: IPs, at: 0 .. MaxTime, hostname: Hosts \cup {None}]
  BY <1>3, <1>6
<1>8. latest \in [IPs -> [hostname: Hosts \cup {None}, at: 0 .. MaxTime]] /\ stale \subseteq IPs
  BY Zenon DEF HostInv, Hostnames!TypeOK
<1>9. stale' \subseteq IPs /\ stale \ {x} \subseteq stale'
  BY <1>3, <1>8, Zenon
<1>10. HostInv'
  BY <1>2, <1>3, <1>4, <1>5, <1>6, <1>7, <1>8, <1>9, FrontKeepsAll, Zenon
<1>11. got'.ip = x /\ got'.at = now /\ got'.hostname = e.hostname
  BY <1>3
<1> QED BY <1>1, <1>6, <1>10, <1>11, Zenon

(* Get of any other address drops what the cache had of it. *)
LEMMA GetMissKeeps ==
  ASSUME HostInv, NEW x \in IPs, NEW now \in 0 .. MaxTime, Hostnames!Get(x, now),
         ~(x \in Hostnames!Cached /\ now <= Hostnames!EntryOf(x).expires)
  PROVE  HostInv' /\ got'.hostname = None
<1>1. /\ ll' = Hostnames!Without(x) /\ touched' = touched /\ latest' = latest
      /\ got' = [ip |-> x, at |-> now, hostname |-> None]
      /\ stale' = IF now > latest[x].at + ttl THEN stale \cup {x} ELSE stale
  BY Zenon DEF Hostnames!Get
<1>2. got' \in [ip: IPs, at: 0 .. MaxTime, hostname: Hosts \cup {None}] /\ got'.hostname = None
  BY <1>1
<1>3. /\ latest \in [IPs -> [hostname: Hosts \cup {None}, at: 0 .. MaxTime]] /\ stale \subseteq IPs
      /\ touched \in [IPs -> SUBSET IPs]
  BY Zenon DEF HostInv, Hostnames!TypeOK
<1>4. stale \subseteq stale' /\ stale' \subseteq IPs
  BY <1>1, <1>3, Zenon
<1>5. /\ ll' \in Seq(Hostnames!Entry) /\ Len(ll') = Others(x)
      /\ \A i \in 1 .. Others(x) : ll'[i] = ll[At(x, i)]
  BY <1>1, WithoutShape, Zenon
<1>6. DOMAIN ll' = 1 .. Others(x)
  <2>1. DOMAIN ll' = 1 .. Len(ll')
    BY <1>5
  <2> QED BY <1>5, <2>1, Zenon
<1>7. Hostnames!TypeOK'
  BY <1>1, <1>2, <1>3, <1>4, <1>5, Zenon DEF Hostnames!TypeOK
<1>8. \A i \in DOMAIN ll' : At(x, i) \in DOMAIN ll /\ ll'[i] = ll[At(x, i)]
  BY <1>5, <1>6, AtCounts, ListType, Zenon
<1>9. \A i, j \in DOMAIN ll' : (i < j => At(x, i) < At(x, j)) /\ (i < j \/ j < i \/ i = j)
  <2>1. \A i, j \in 1 .. Others(x) : i < j \/ j < i \/ i = j
    BY AtCounts
  <2> QED BY <1>6, <2>1, AtCounts, Zenon
<1>10. InOrderOfUse'
  <2>1. ASSUME NEW i \in DOMAIN ll', NEW j \in DOMAIN ll', i < j PROVE ll'[i].ip \in touched[ll'[j].ip]
    BY <1>8, <1>9, <2>1, Zenon DEF HostInv, InOrderOfUse
  <2> QED BY <1>1, <2>1, Zenon DEF InOrderOfUse
<1>11. \A i \in DOMAIN ll' : IsLatest(ll[i])'
  <2> SUFFICES ASSUME NEW i \in DOMAIN ll' PROVE IsLatest(ll[i])'
    BY Zenon
  <2>1. IsLatest(ll[At(x, i)])
    BY <1>8, Zenon DEF HostInv
  <2> QED BY <1>1, <1>8, <2>1, Zenon DEF IsLatest
<1>12. Hostnames!CacheBounded'
  <2>1. Len(ll') <= capacity
    <3>1. Others(x) = IF x \in Hostnames!Cached THEN Len(ll) - 1 ELSE Len(ll)
      BY Zenon DEF Others
    <3>2. Len(ll) \in Nat /\ Len(ll) <= capacity
      BY ListType, Zenon
    <3>3. Len(ll) - 1 <= capacity
      BY <3>2, HostConstants
    <3> QED BY <1>5, <3>1, <3>2, <3>3, Zenon
  <2>2. ASSUME NEW i \in DOMAIN ll', NEW j \in DOMAIN ll', ll'[i].ip = ll'[j].ip, i # j PROVE FALSE
    <3>1. At(x, i) = At(x, j)
      BY <1>8, <2>2, ListType, Zenon
    <3>2. At(x, i) < At(x, j) \/ At(x, j) < At(x, i)
      BY <1>9, <2>2, Zenon
    <3>3. At(x, i) \in Int
      <4>1. At(x, i) \in 1 .. Len(ll)
        BY <1>8, ListType, Zenon
      <4> QED BY <4>1, ListType
    <3> QED BY <3>1, <3>2, <3>3
  <2> QED BY <2>1, <2>2, Zenon DEF Hostnames!CacheBounded
<1>13. ASSUME NEW y \in IPs, latest[y].hostname # None, y \notin Hostnames!Cached'
       PROVE  y \in stale' \/ Cardinality(touched[y]) >= capacity
  <2>1. CASE y \notin Hostnames!Cached
    <3>1. Hostnames!OnlyUnusedForgotten
      BY Zenon DEF HostInv
    <3>2. y \in stale \/ Cardinality(touched[y]) >= capacity
      BY <1>13, <2>1, <3>1, SameCount, Zenon DEF Hostnames!OnlyUnusedForgotten
    <3> QED BY <1>4, <3>2, Zenon
  <2>2. CASE y \in Hostnames!Cached
    <3>1. PICK k \in 1 .. Len(ll) : ll[k].ip = y
      BY <2>2, ListType, Zenon DEF Hostnames!Cached
    <3>2. y = x
      <4> SUFFICES ASSUME y # x PROVE FALSE
        OBVIOUS
      <4>1. PICK i \in 1 .. Others(x) : k = At(x, i)
        BY <3>1, AtCounts, Zenon
      <4>2. ll'[i].ip = y
        BY <1>5, <3>1, <4>1, Zenon
      <4> QED BY <1>6, <1>13, <4>2, Zenon DEF Hostnames!Cached
    <3>3. ~(now <= Hostnames!EntryOf(x).expires)
      BY <2>2, <3>2, Zenon
    <3>4. PICK e : e = Hostnames!EntryOf(x)
      BY Zenon
    <3>5. e.expires = latest[x].at + ttl
      <4>1. IsLatest(e) /\ e.ip = x
        BY <2>2, <3>2, <3>4, PlaceIs, ListType, Zenon DEF Hostnames!EntryOf, HostInv
      <4> QED BY <4>1, Zenon DEF IsLatest
    <3>6. ~(now <= latest[x].at + ttl)
      BY <3>3, <3>4, <3>5, Zenon
    <3>7. latest[x].at \in 0 .. MaxTime
      BY <1>3, Zenon
    <3>8. now > latest[x].at + ttl
      BY <3>6, <3>7, HostConstants
    <3> QED BY <1>1, <3>2, <3>8, Zenon
  <2> QED BY <2>1, <2>2, Zenon
<1>14. Hostnames!OnlyUnusedForgotten'
  BY <1>1, <1>13, SameCount, Zenon DEF Hostnames!OnlyUnusedForgotten
<1>15. \A y \in IPs : IsFiniteSet(touched'[y])
  BY <1>1, Zenon DEF HostInv
<1> QED BY <1>2, <1>7, <1>10, <1>11, <1>12, <1>14, <1>15, Zenon DEF HostInv

LEMMA HostStep == ASSUME HostInv, [Hostnames!Next]_(Hostnames!vars) PROVE HostInv'
<1>1. CASE Hostnames!Next
  <2>1. PICK x \in IPs, now \in 0 .. MaxTime :
          (\E host \in Hosts : Hostnames!Put(x, host, now)) \/ Hostnames!Get(x, now)
    BY <1>1, Zenon DEF Hostnames!Next
  <2>2. CASE \E host \in Hosts : Hostnames!Put(x, host, now)
    BY <2>2, PutKeeps, Zenon
  <2>3. CASE Hostnames!Get(x, now)
    BY <2>3, GetHitKeeps, GetMissKeeps, Zenon
  <2> QED BY <2>1, <2>2, <2>3, Zenon
<1>2. CASE UNCHANGED Hostnames!vars
  <2>1. ll' = ll /\ got' = got /\ latest' = latest /\ stale' = stale /\ touched' = touched
    BY <1>2, Zenon DEF Hostnames!vars
  <2>2. Hostnames!TypeOK' /\ Hostnames!CacheBounded'
    BY <2>1, Zenon DEF HostInv, Hostnames!TypeOK, Hostnames!CacheBounded
  <2>3. Hostnames!OnlyUnusedForgotten'
    <3>1. Hostnames!Cached' = Hostnames!Cached
      BY <2>1, Zenon DEF Hostnames!Cached
    <3>2. Hostnames!OnlyUnusedForgotten
      BY Zenon DEF HostInv
    <3> QED BY <2>1, <3>1, <3>2, SameCount, Zenon DEF Hostnames!OnlyUnusedForgotten
  <2>4. InOrderOfUse'
    BY <2>1, Zenon DEF HostInv, InOrderOfUse
  <2>5. \A i \in DOMAIN ll' : IsLatest(ll[i])'
    BY <2>1, Zenon DEF HostInv, IsLatest
  <2> QED BY <2>1, <2>2, <2>3, <2>4, <2>5, Zenon DEF HostInv
<1> QED BY <1>1, <1>2, Zenon

(* The invariant of HostnameCache. *)
THEOREM HostInvariance == Hostnames!Spec => []HostInv
<1>1. Hostnames!Init => HostInv
  <2> SUFFICES ASSUME Hostnames!Init PROVE HostInv
    OBVIOUS
  <2>1. /\ ll = << >> /\ latest = [ip \in IPs |-> [hostname |-> None, at |-> 0]]
        /\ got = [ip |-> CHOOSE ip \in IPs : TRUE, at |-> 0, hostname |-> None]
        /\ stale = {} /\ touched = [ip \in IPs |-> {}]
    BY Zenon DEF Hostnames!Init
  <2>2. DOMAIN ll = {} /\ Len(ll) <= capacity /\ ll \in Seq(Hostnames!Entry) /\ 0 \in 0 .. MaxTime
    BY <2>1, HostConstants
  <2>3. got \in [ip: IPs, at: 0 .. MaxTime, hostname: Hosts \cup {None}]
    <3>1. (CHOOSE ip \in IPs : TRUE) \in IPs
      BY HostConstants, Zenon
    <3> QED BY <2>1, <2>2, <3>1
  <2>4. /\ latest \in [IPs -> [hostname: Hosts \cup {None}, at: 0 .. MaxTime]]
        /\ \A y \in IPs : latest[y].hostname = None
    BY <2>1, <2>2
  <2>5. touched \in [IPs -> SUBSET IPs] /\ \A y \in IPs : IsFiniteSet(touched[y])
    BY <2>1, FS_EmptySet, Zenon
  <2>6. Hostnames!TypeOK
    BY <2>1, <2>2, <2>3, <2>4, <2>5, Zenon DEF Hostnames!TypeOK
  <2>7. Hostnames!OnlyUnusedForgotten
    BY <2>4, Zenon DEF Hostnames!OnlyUnusedForgotten
  <2> QED BY <2>2, <2>5, <2>6, <2>7, Zenon DEF HostInv, Hostnames!CacheBounded, InOrderOfUse
<1> QED BY <1>1, HostStep, PTL DEF Hostnames!Spec

(* For any capacity and whatever the clocks of Put and Get say, the cache      *)
(* holds an address once and no more than capacity of them, and has only       *)
(* forgotten what expired or what capacity others were used since (Put, Get).  *)
THEOREM HostnamesAreKept == Hostnames!Spec => []HostnamesKept
<1>1. HostInv => HostnamesKept
  BY Zenon DEF HostInv, HostnamesKept
<1> QED BY <1>1, HostInvariance, PTL

(* A Get that answers gives the hostname of the last Put for the address,      *)
(* which is no older than ttl at the time asked about (Get).                   *)
THEOREM AnswersAreTheLatest == Hostnames!Spec => Hostnames!AnswersAreLatest
<1> DEFINE Answers ==
      got' # got /\ got'.hostname # None =>
        /\ got'.hostname = latest[got'.ip].hostname
        /\ got'.at <= latest[got'.ip].at + ttl
<1>1. HostInv /\ [Hostnames!Next]_(Hostnames!vars) => [Answers]_(Hostnames!vars)
  <2> SUFFICES ASSUME HostInv, Hostnames!Next, got' # got, got'.hostname # None
               PROVE  /\ got'.hostname = latest[got'.ip].hostname
                      /\ got'.at <= latest[got'.ip].at + ttl
    BY Zenon
  <2>1. PICK x \in IPs, now \in 0 .. MaxTime : Hostnames!Get(x, now)
    BY Zenon DEF Hostnames!Next, Hostnames!Put
  <2>2. x \in Hostnames!Cached /\ now <= Hostnames!EntryOf(x).expires
    BY <2>1, GetMissKeeps, Zenon
  <2>3. /\ got'.ip = x /\ got'.at = now
        /\ got'.hostname = latest[x].hostname /\ now <= latest[x].at + ttl
    BY <2>1, <2>2, GetHitKeeps, Zenon
  <2> QED BY <2>3, Zenon
<1> QED BY <1>1, HostInvariance, PTL DEF Hostnames!Spec, Hostnames!AnswersAreLatest
=============================================================================
