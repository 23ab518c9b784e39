------------------------- MODULE KernelHooksProofs --------------------------
(***************************************************************************)
(* Proofs about KernelHooks, for any number of threads and sockets and a   *)
(* failure of attach at any step.  First how the source attaches and       *)
(* closes: once it has returned it leaves no hook, map or reader behind.   *)
(* Then the invariant of the kernel programs, which every step of a call,  *)
(* every change of a socket's state and every step of the source keeps.    *)
(* With it: the scratch map holds only what it should, and connect events  *)
(* are exactly the successful calls.                                       *)
(***************************************************************************)
EXTENDS KernelHooks, SequenceTheorems, TLAPS

Modes == {"fentry", "kprobe", "sockstate"}
Readers == {<<"reader", m>> : m \in Modes}

(* attach, closeAll and Run work on sequences of resources; acquired holds   *)
(* the first steps of the plan.                                             *)
AttachTyped ==
  /\ pc \in {"start", "attach", "unwind", "abandon", "poller", "bootstrap", "running",
             "closeAll", "returned"}
  /\ stage \in Modes
  /\ acquired \in Seq(Resources) /\ closers \in Seq(Resources) /\ todo \in Seq(Resources)
  /\ rings \in Seq(Readers) /\ consumers \subseteq Readers /\ open \subseteq Resources
  /\ Len(acquired) < Len(Plan[stage])
  /\ \A i \in 1 .. Len(acquired) : acquired[i] = Plan[stage][i]

(* The rings are sequences. *)
RingsTyped ==
  /\ DOMAIN ring = Modes
  /\ \A m \in Modes : ring[m] \in Seq(Range(ring[m]))

(* What is empty when. *)
Phased ==
  /\ pc = "start" => stage = "fentry"
  /\ pc # "attach" => acquired = << >>
  /\ pc \notin {"unwind", "abandon", "closeAll"} => todo = << >>
  /\ pc = "unwind" => Range(todo) \subseteq Range(Plan[stage])
  /\ stage # "sockstate" => closers = << >> /\ rings = << >>
  /\ pc \in {"start", "attach", "unwind", "abandon", "poller"} =>
       Range(rings) \subseteq {<<"reader", "fentry">>, <<"reader", "kprobe">>}
  /\ pc # "running" => consumers = {}
  /\ pc \in {"running", "closeAll", "returned"} => Range(rings) \cap open \subseteq consumers

(* Whatever is open is somebody's to close, or a reader the source keeps. *)
OpenAccounted ==
  open \subseteq Range(acquired) \cup Range(todo) \cup Range(rings) \cup
    (IF pc \in {"abandon", "poller", "closeAll", "returned"} THEN {} ELSE Range(closers))

NoFexit == \A fn \in Fns : <<"fexit", fn>> \notin open
NoKprobe == \A fn \in Fns : <<"kprobe", fn>> \notin open /\ <<"kretprobe", fn>> \notin open
MapEmpty == \A t \in Tids : connect_args_map[t] = Nil

(* The kprobes are attached only after the fentry variant is gone. *)
OneVariant ==
  /\ stage = "fentry" => NoKprobe /\ MapEmpty
  /\ stage = "kprobe" => NoFexit
  /\ NoFexit \/ (NoKprobe /\ MapEmpty)

(* A call is marked as missed as soon as it enters a function unarmed. *)
ArmedOrMissed ==
  \A t \in Tids : call[t] # Nil /\ ~call[t].missed =>
    \A i \in DOMAIN call[t].stack : call[t].stack[i].armed # {}

(* The shape of a call: tcp_v4_connect alone, tcp_v6_connect alone, or the   *)
(* former in the latter; no two calls share a socket.                       *)
NestedCall(t) ==
  /\ socket[call[t].sk].protocol = "IPPROTO_TCP"
  /\ call[t].stack[1].fn = "tcp_v4_connect" => socket[call[t].sk].remote.ver = 4
  /\ \/ Len(call[t].stack) = 1
     \/ /\ Len(call[t].stack) = 2
        /\ call[t].stack[1].fn = "tcp_v4_connect" /\ call[t].stack[2].fn = "tcp_v6_connect"
  /\ call[t].ret = 0 => state[call[t].sk] = "SYN_SENT"
  /\ \A u \in Tids : call[u] # Nil /\ call[u].sk = call[t].sk => u = t

Nested == \A t \in Tids : call[t] # Nil => NestedCall(t)

(* The kprobe variant is trusted until its own attach function fails: only   *)
(* then are links closed in the order they were opened.                     *)
Trusted == stage # "kprobe" \/ pc = "attach"

(* Links are closed in the reverse of that order otherwise. *)
EntryBeforeReturn ==
  /\ pc = "attach" => Range(acquired) \subseteq open
  /\ \A i, j \in DOMAIN closers : i < j => \A fn \in Fns :
       ~(closers[j] = <<"kprobe", fn>> /\ closers[i] = <<"kretprobe", fn>>)
  /\ pc \in {"abandon", "closeAll"} => \A i, j \in DOMAIN todo : i < j => \A fn \in Fns :
       ~(todo[i] = <<"kprobe", fn>> /\ todo[j] = <<"kretprobe", fn>>)
  /\ Trusted => \A fn \in Fns : <<"kretprobe", fn>> \in open => <<"kprobe", fn>> \in open

KretArmed(f) == <<"kretprobe", f.fn>> \in f.armed

(* What a kretprobe would find is its own call's socket, if anything. *)
ScratchTrue ==
  /\ Trusted => \A t \in Tids : call[t] # Nil /\ (\E i \in DOMAIN call[t].stack : KretArmed(call[t].stack[i]))
       => connect_args_map[t] \in {Nil, call[t].sk}
  /\ stage = "fentry" \/ (stage = "kprobe" /\ pc = "attach" /\ acquired = << >>) =>
       \A t \in Tids : call[t] # Nil => \A i \in DOMAIN call[t].stack : ~KretArmed(call[t].stack[i])

ConnectEventTrue(ev) ==
  /\ [sk |-> ev.skaddr, pid |-> ev.pid, key |-> keyFrom(ev)] \in Reports
  /\ ev.new_state = "SYN_SENT"

StateEventTrue(ev) ==
  /\ socket[ev.skaddr].protocol = "IPPROTO_TCP"
  /\ \E bound \in BOOLEAN : keyFrom(ev) = KeyOf(ev.skaddr, bound)

(* Every event in a ring is true, in that of a kprobe variant whose attach    *)
(* failed excepted: that ring has no reader.                                 *)
RingsTrue ==
  /\ \A i \in DOMAIN ring["fentry"] : ConnectEventTrue(ring["fentry"][i])
  /\ Trusted => \A i \in DOMAIN ring["kprobe"] : ConnectEventTrue(ring["kprobe"][i])
  /\ \A i \in DOMAIN ring["sockstate"] : StateEventTrue(ring["sockstate"][i])

(* How many events a call that has missed none has led to. *)
Counted ==
  \A t \in Tids : call[t] # Nil /\ ~call[t].missed /\ ~call[t].dropped =>
    /\ call[t].ret = Nil => /\ call[t].events = 0
                            /\ KretArmed(call[t].stack[1]) => connect_args_map[t] = call[t].sk
    /\ call[t].ret = 0 => Len(call[t].stack) = 1 /\ call[t].events = 1


-----------------------------------------------------------------------------
(* Sequences. *)

(* The elements of an extended, joined, cut, reversed and rotated sequence. *)
LEMMA RangeAppend ==
  ASSUME NEW S, NEW s \in Seq(S), NEW e
  PROVE  Range(Append(s, e)) = Range(s) \cup {e}
<1>1. DOMAIN Append(s, e) = 1 .. Len(s) + 1 /\ DOMAIN s = 1 .. Len(s)
  OBVIOUS
<1>2. \A i \in 1 .. Len(s) : Append(s, e)[i] = s[i]
  OBVIOUS
<1>3. Append(s, e)[Len(s) + 1] = e
  OBVIOUS
<1> QED BY <1>1, <1>2, <1>3 DEF Range

LEMMA RangeConcat ==
  ASSUME NEW S, NEW s \in Seq(S), NEW u \in Seq(S)
  PROVE  Range(s \o u) \subseteq Range(s) \cup Range(u) /\ Range(s) \subseteq Range(s \o u)
           /\ Range(u) \subseteq Range(s \o u)
<1>1. DOMAIN (s \o u) = 1 .. Len(s) + Len(u) /\ DOMAIN s = 1 .. Len(s) /\ DOMAIN u = 1 .. Len(u)
  OBVIOUS
<1>2. \A i \in 1 .. Len(s) : (s \o u)[i] = s[i]
  OBVIOUS
<1>3. \A i \in 1 .. Len(u) : (s \o u)[Len(s) + i] = u[i]
  OBVIOUS
<1>4. \A i \in 1 .. Len(s) + Len(u) : i \in 1 .. Len(s) \/ \E j \in 1 .. Len(u) : i = Len(s) + j
  <2> SUFFICES ASSUME NEW i \in 1 .. Len(s) + Len(u), i \notin 1 .. Len(s)
               PROVE  \E j \in 1 .. Len(u) : i = Len(s) + j
    BY Zenon
  <2> WITNESS i - Len(s) \in 1 .. Len(u)
  <2> QED OBVIOUS
<1>5. \A i \in 1 .. Len(s) : i \in 1 .. Len(s) + Len(u)
  OBVIOUS
<1>6. \A i \in 1 .. Len(u) : Len(s) + i \in 1 .. Len(s) + Len(u)
  OBVIOUS
<1>7. ASSUME NEW x \in Range(s \o u) PROVE x \in Range(s) \cup Range(u)
  <2>1. PICK i \in 1 .. Len(s) + Len(u) : x = (s \o u)[i]
    BY <1>1, <1>7 DEF Range
  <2> QED BY <1>1, <1>2, <1>3, <1>4, <2>1, Zenon DEF Range
<1>8. Range(s) \subseteq Range(s \o u)
  BY <1>1, <1>2, <1>5 DEF Range
<1>9. Range(u) \subseteq Range(s \o u)
  BY <1>1, <1>3, <1>6, Zenon DEF Range
<1> QED BY <1>7, <1>8, <1>9

LEMMA RangeTail ==
  ASSUME NEW S, NEW s \in Seq(S), s # << >>
  PROVE  Tail(s) \in Seq(S) /\ Range(s) = {Head(s)} \cup Range(Tail(s)) /\ Head(s) \in Range(s)
<1>1. DOMAIN Tail(s) = 1 .. Len(s) - 1 /\ DOMAIN s = 1 .. Len(s) /\ Len(s) \in Nat \ {0}
  OBVIOUS
<1>2. \A i \in 1 .. Len(s) - 1 : Tail(s)[i] = s[i + 1]
  OBVIOUS
<1>3. Head(s) = s[1] /\ Tail(s) \in Seq(S)
  OBVIOUS
<1>4. \A i \in 1 .. Len(s) : i = 1 \/ \E j \in 1 .. Len(s) - 1 : i = j + 1
  <2> SUFFICES ASSUME NEW i \in 1 .. Len(s), i # 1
               PROVE  \E j \in 1 .. Len(s) - 1 : i = j + 1
    OBVIOUS
  <2> WITNESS i - 1 \in 1 .. Len(s) - 1
  <2> QED OBVIOUS
<1>5. ASSUME NEW x \in Range(s) PROVE x \in {Head(s)} \cup Range(Tail(s))
  <2>1. PICK i \in 1 .. Len(s) : x = s[i]
    BY <1>1, <1>5 DEF Range
  <2>2. CASE i = 1
    BY <1>3, <2>1, <2>2
  <2>3. ASSUME NEW j \in 1 .. Len(s) - 1, i = j + 1 PROVE x \in Range(Tail(s))
    <3>1. x = Tail(s)[j]
      BY <1>2, <2>1, <2>3
    <3> QED BY <1>1, <3>1, Zenon DEF Range
  <2> QED BY <1>4, <2>2, <2>3
<1>6. ASSUME NEW x \in Range(Tail(s)) PROVE x \in Range(s)
  <2>1. PICK i \in 1 .. Len(s) - 1 : x = Tail(s)[i]
    BY <1>1, <1>6 DEF Range
  <2>2. i + 1 \in 1 .. Len(s)
    BY <1>1
  <2> QED BY <1>1, <1>2, <2>1, <2>2 DEF Range
<1>7. Head(s) \in Range(s)
  BY <1>1, <1>3 DEF Range
<1> QED BY <1>3, <1>5, <1>6, <1>7

LEMMA RangeReverse ==
  ASSUME NEW S, NEW s \in Seq(S)
  PROVE  LastFirst(s) \in Seq(S) /\ Len(LastFirst(s)) = Len(s) /\ Range(LastFirst(s)) = Range(s)
           /\ \A i \in 1 .. Len(s) : LastFirst(s)[i] = s[(Len(s) - i) + 1]
<1>1. LastFirst(s) = [i \in 1 .. Len(s) |-> s[(Len(s) - i) + 1]]
  BY DEF LastFirst
<1>2. \A i \in 1 .. Len(s) : (Len(s) - i) + 1 \in 1 .. Len(s) /\ s[(Len(s) - i) + 1] \in S
  OBVIOUS
<1>3. LastFirst(s) \in Seq(S) /\ Len(LastFirst(s)) = Len(s)
  BY <1>1, <1>2
<1>4. \A i \in 1 .. Len(s) : \E j \in 1 .. Len(s) : i = (Len(s) - j) + 1
  <2> TAKE i \in 1 .. Len(s)
  <2> WITNESS (Len(s) - i) + 1 \in 1 .. Len(s)
  <2> QED OBVIOUS
<1>5. DOMAIN s = 1 .. Len(s) /\ DOMAIN LastFirst(s) = 1 .. Len(s)
  BY <1>1
<1>6. Range(LastFirst(s)) = Range(s)
  <2>1. ASSUME NEW x \in Range(LastFirst(s)) PROVE x \in Range(s)
    <3>1. PICK i \in 1 .. Len(s) : x = LastFirst(s)[i]
      BY <1>5, <2>1 DEF Range
    <3> QED BY <1>1, <1>2, <1>5, <3>1 DEF Range
  <2>2. ASSUME NEW x \in Range(s) PROVE x \in Range(LastFirst(s))
    <3>1. PICK i \in 1 .. Len(s) : x = s[i]
      BY <1>5, <2>2 DEF Range
    <3>2. PICK j \in 1 .. Len(s) : i = (Len(s) - j) + 1
      BY <1>4
    <3>3. LastFirst(s)[j] = x
      BY <1>1, <3>1, <3>2
    <3> QED BY <1>5, <3>3 DEF Range
  <2> QED BY <2>1, <2>2, Zenon
<1> QED BY <1>1, <1>3, <1>6

LEMMA RangeLinks ==
  ASSUME NEW S, NEW s \in Seq(S)
  PROVE  linksThenObjs(s) \in Seq(S) /\ Range(linksThenObjs(s)) = Range(s)
<1>1. CASE s = << >>
  BY <1>1 DEF linksThenObjs
<1>2. CASE s # << >>
  <2>1. Tail(s) \in Seq(S) /\ Range(s) = {Head(s)} \cup Range(Tail(s)) /\ Head(s) \in S
    BY <1>2, RangeTail
  <2>2. Range(Append(Tail(s), Head(s))) = Range(Tail(s)) \cup {Head(s)}
    BY <2>1, RangeAppend, Zenon
  <2> QED BY <1>2, <2>1, <2>2 DEF linksThenObjs
<1> QED BY <1>1, <1>2

-----------------------------------------------------------------------------
(* Attaching and closing. *)

(* The plans of the three attach functions: a collection first, a reader last, *)
(* and hooks of one variant only in between, entry hooks before return hooks. *)
LEMMA PlanShape ==
  ASSUME NEW m \in Modes
  PROVE  /\ Plan[m] \in Seq(Resources) /\ Len(Plan[m]) \in Nat \ {0, 1}
         /\ DOMAIN Plan = Modes
         /\ Plan[m][1] = <<"objs", m>> /\ Plan[m][Len(Plan[m])] = <<"reader", m>>
         /\ \A i \in 1 .. Len(Plan[m]) :
              /\ Plan[m][i] \in Resources
              /\ i # Len(Plan[m]) => Plan[m][i] \notin Readers
              /\ i # 1 => Plan[m][i][1] # "objs"
              /\ \A fn \in Fns : /\ Plan[m][i] = <<"fexit", fn>> => m = "fentry"
                                 /\ Plan[m][i] = <<"kprobe", fn>> => m = "kprobe" /\ i < 4
                                 /\ Plan[m][i] = <<"kretprobe", fn>> =>
                                      m = "kprobe" /\ i > 3
                                        /\ \E j \in {2, 3} : Plan[m][j] = <<"kprobe", fn>>
<1>1. DOMAIN Plan = Modes
  BY Zenon DEF Plan, Modes
<1>2. Range(Plan[m]) \subseteq Resources
  BY <1>1 DEF Resources
<1>3. CASE m = "fentry"
  <2>1. Plan[m] = attachFentry
    BY <1>3 DEF Plan
  <2>2. Len(Plan[m]) = 4 /\ DOMAIN Plan[m] = 1 .. 4
    BY <2>1 DEF attachFentry
  <2>3. /\ Plan[m][1] = <<"objs", "fentry">> /\ Plan[m][2] = <<"fexit", "tcp_v4_connect">>
        /\ Plan[m][3] = <<"fexit", "tcp_v6_connect">> /\ Plan[m][4] = <<"reader", "fentry">>
    BY <2>1 DEF attachFentry
  <2>4. \A i \in 1 .. 4 : i = 1 \/ i = 2 \/ i = 3 \/ i = 4
    OBVIOUS
  <2>5. \A i \in 1 .. 4 : Plan[m][i] \in Resources
    BY <1>2, <2>2 DEF Range
  <2>6. Plan[m] \in Seq(Resources)
    BY <2>1, <2>2, <2>3, <2>5 DEF attachFentry
  <2> QED BY <1>1, <1>3, <2>2, <2>3, <2>4, <2>5, <2>6 DEF Readers, Fns
<1>4. CASE m = "kprobe"
  <2>1. Plan[m] = attachKprobeConnect
    BY <1>4 DEF Plan
  <2>2. Len(Plan[m]) = 6 /\ DOMAIN Plan[m] = 1 .. 6
    BY <2>1 DEF attachKprobeConnect
  <2>3. /\ Plan[m][1] = <<"objs", "kprobe">> /\ Plan[m][2] = <<"kprobe", "tcp_v4_connect">>
        /\ Plan[m][3] = <<"kprobe", "tcp_v6_connect">> /\ Plan[m][4] = <<"kretprobe", "tcp_v4_connect">>
        /\ Plan[m][5] = <<"kretprobe", "tcp_v6_connect">> /\ Plan[m][6] = <<"reader", "kprobe">>
    BY <2>1 DEF attachKprobeConnect
  <2>4. \A i \in 1 .. 6 : i = 1 \/ i = 2 \/ i = 3 \/ i = 4 \/ i = 5 \/ i = 6
    OBVIOUS
  <2>5. \A i \in 1 .. 6 : Plan[m][i] \in Resources
    BY <1>2, <2>2 DEF Range
  <2>6. Plan[m] \in Seq(Resources)
    BY <2>1, <2>2, <2>3, <2>5 DEF attachKprobeConnect
  <2> QED BY <1>1, <1>4, <2>2, <2>3, <2>4, <2>5, <2>6 DEF Readers, Fns
<1>5. CASE m = "sockstate"
  <2>1. Plan[m] = attachSockstate
    BY <1>5 DEF Plan
  <2>2. Len(Plan[m]) = 3 /\ DOMAIN Plan[m] = 1 .. 3
    BY <2>1 DEF attachSockstate
  <2>3. /\ Plan[m][1] = <<"objs", "sockstate">>
        /\ Plan[m][2] = <<"tracepoint", "inet_sock_set_state">>
        /\ Plan[m][3] = <<"reader", "sockstate">>
    BY <2>1 DEF attachSockstate
  <2>4. \A i \in 1 .. 3 : i = 1 \/ i = 2 \/ i = 3
    OBVIOUS
  <2>5. \A i \in 1 .. 3 : Plan[m][i] \in Resources
    BY <1>2, <2>2 DEF Range
  <2>6. Plan[m] \in Seq(Resources)
    BY <2>1, <2>2, <2>3, <2>5 DEF attachSockstate
  <2> QED BY <1>1, <1>5, <2>2, <2>3, <2>4, <2>5, <2>6 DEF Readers, Fns
<1> QED BY <1>3, <1>4, <1>5, Zenon DEF Modes

(* Where the probes stand in the plan. *)
LEMMA PlanProbes ==
  ASSUME NEW m \in Modes, NEW i \in 1 .. Len(Plan[m]), NEW fn \in Fns
  PROVE  /\ Plan[m][i] = <<"kprobe", fn>> => m = "kprobe" /\ i < 4
         /\ Plan[m][i] = <<"kretprobe", fn>> =>
              m = "kprobe" /\ i > 3 /\ \E j \in {2, 3} : Plan[m][j] = <<"kprobe", fn>>
BY PlanShape


LEMMA ReadersAreResources == Readers \subseteq Resources
<1> SUFFICES ASSUME NEW m \in Modes PROVE <<"reader", m>> \in Resources
  BY DEF Readers
<1> QED BY PlanShape

(* closers holds entry hooks before return hooks, so its reverse does not. *)
LEMMA ReverseOrder ==
  ASSUME NEW s \in Seq(Resources),
         \A i, j \in DOMAIN s : i < j => \A fn \in Fns :
           ~(s[j] = <<"kprobe", fn>> /\ s[i] = <<"kretprobe", fn>>)
  PROVE  \A i, j \in DOMAIN LastFirst(s) : i < j => \A fn \in Fns :
           ~(LastFirst(s)[i] = <<"kprobe", fn>> /\ LastFirst(s)[j] = <<"kretprobe", fn>>)
<1>1. DOMAIN s = 1 .. Len(s) /\ Len(s) \in Nat /\ DOMAIN LastFirst(s) = 1 .. Len(s)
  BY RangeReverse
<1> SUFFICES ASSUME NEW i \in 1 .. Len(s), NEW j \in 1 .. Len(s), i < j
             PROVE  \A fn \in Fns : ~(LastFirst(s)[i] = <<"kprobe", fn>> /\ LastFirst(s)[j] = <<"kretprobe", fn>>)
  BY <1>1, Zenon
<1>2. LastFirst(s)[i] = s[(Len(s) - i) + 1] /\ LastFirst(s)[j] = s[(Len(s) - j) + 1]
  BY RangeReverse
<1>3. /\ (Len(s) - i) + 1 \in DOMAIN s /\ (Len(s) - j) + 1 \in DOMAIN s
      /\ (Len(s) - j) + 1 < (Len(s) - i) + 1
  BY <1>1
<1> QED BY <1>2, <1>3, Zenon

AttachInv == AttachTyped /\ Phased /\ OpenAccounted /\ EntryBeforeReturn

(* The actions that only open: AcquireNext. *)
LEMMA AcquireKeepsAttachInv ==
  ASSUME AttachInv, AcquireNext
  PROVE  AttachInv'
<1> DEFINE item == Plan[stage][Len(acquired) + 1]
           last == Len(acquired) + 1 = Len(Plan[stage])
<1>1. /\ pc = "attach" /\ stage \in Modes /\ todo = << >> /\ todo' = << >> /\ consumers = {} /\ consumers' = {}
      /\ open' = open \cup {item} /\ pc' \in {"attach", "bootstrap"}
  BY Zenon DEF AttachInv, AttachTyped, Phased, AcquireNext
<1>2. /\ acquired \in Seq(Resources) /\ closers \in Seq(Resources) /\ rings \in Seq(Readers)
      /\ Len(acquired) \in Nat /\ Len(acquired) < Len(Plan[stage])
      /\ \A i \in 1 .. Len(acquired) : acquired[i] = Plan[stage][i]
      /\ open \subseteq Resources
  BY DEF AttachInv, AttachTyped
<1>3. /\ Len(Plan[stage]) \in Nat \ {0, 1} /\ item \in Resources /\ (last => item = <<"reader", stage>>)
      /\ ~last => item \notin Readers
  <2>1. Len(Plan[stage]) \in Nat \ {0, 1}
    BY <1>1, PlanShape, Zenon
  <2>2. Len(acquired) + 1 \in 1 .. Len(Plan[stage])
    BY <1>2, <2>1
  <2>3. item \in Resources /\ (Len(acquired) + 1 # Len(Plan[stage]) => item \notin Readers)
    BY <1>1, <2>2, PlanShape, Zenon
  <2>4. Plan[stage][Len(Plan[stage])] = <<"reader", stage>>
    BY <1>1, PlanShape, Zenon
  <2> QED BY <2>1, <2>3, <2>4, Zenon
<1>4. /\ Range(acquired) \subseteq open /\ DOMAIN acquired = 1 .. Len(acquired)
      /\ open \subseteq Range(acquired) \cup Range(rings) \cup Range(closers)
  <2>1. Range(todo) = {}
    BY <1>1 DEF Range
  <2> QED BY <1>1, <1>2, <2>1 DEF AttachInv, OpenAccounted, EntryBeforeReturn
<1>5. Range(rings) \subseteq {<<"reader", "fentry">>, <<"reader", "kprobe">>}
  BY <1>1, Zenon DEF AttachInv, Phased
<1>6. \A fn \in Fns : <<"kretprobe", fn>> \in open' => <<"kprobe", fn>> \in open'
  <2> SUFFICES ASSUME NEW fn \in Fns, <<"kretprobe", fn>> \in open'
               PROVE  <<"kprobe", fn>> \in open'
    OBVIOUS
  <2>1. CASE <<"kretprobe", fn>> \in open
    BY <1>1, <2>1, Zenon DEF AttachInv, EntryBeforeReturn, Trusted
  <2>2. CASE item = <<"kretprobe", fn>>
    <3>1. PICK j \in {2, 3} : Plan[stage][j] = <<"kprobe", fn>> /\ Len(acquired) + 1 > 3
      <4>1. Len(acquired) + 1 \in 1 .. Len(Plan[stage])
        BY <1>2, <1>3
      <4> DEFINE k == Len(acquired) + 1
      <4>2. Plan[stage][k] = <<"kretprobe", fn>>
        BY <2>2, Zenon
      <4> HIDE DEF k
      <4>3. k > 3 /\ \E j \in {2, 3} : Plan[stage][j] = <<"kprobe", fn>>
        <5>1. k \in 1 .. Len(Plan[stage])
          BY <4>1, Zenon DEF k
        <5> QED BY <1>1, <4>2, <5>1, PlanProbes, Zenon
      <4> QED BY <4>3, Zenon DEF k
    <3>2. j \in 1 .. Len(acquired)
      BY <1>2, <3>1
    <3>3. acquired[j] = <<"kprobe", fn>>
      BY <1>2, <3>1, <3>2, Zenon
    <3> QED BY <1>1, <1>4, <3>2, <3>3, Zenon DEF Range
  <2> QED BY <1>1, <2>1, <2>2, Zenon
<1> HIDE DEF item
<1>7. CASE ~last
  <2>1. /\ acquired' = Append(acquired, item) /\ closers' = closers /\ rings' = rings
        /\ stage' = stage /\ pc' = pc
    BY <1>7, Zenon DEF AcquireNext, item
  <2>2. /\ acquired' \in Seq(Resources) /\ Len(acquired') = Len(acquired) + 1
        /\ Range(acquired') = Range(acquired) \cup {item}
    BY <1>2, <1>3, <2>1, RangeAppend
  <2>3. \A i \in 1 .. Len(acquired') : acquired'[i] = Plan[stage][i]
    BY <1>2, <1>3, <2>1, <2>2 DEF item
  <2>4. AttachTyped'
    BY <1>1, <1>2, <1>3, <1>7, <2>1, <2>2, <2>3 DEF AttachInv, AttachTyped
  <2>5. Phased'
    BY <1>1, <2>1, Zenon DEF AttachInv, Phased
  <2>6. OpenAccounted'
    BY <1>1, <1>4, <2>1, <2>2 DEF OpenAccounted
  <2>7. EntryBeforeReturn'
    BY <1>1, <1>4, <1>6, <2>1, <2>2 DEF AttachInv, EntryBeforeReturn
  <2> QED BY <2>4, <2>5, <2>6, <2>7 DEF AttachInv
<1>8. CASE last
  <2>1. /\ acquired' = << >> /\ closers' = closers \o linksThenObjs(acquired)
        /\ rings' = Append(rings, item) /\ stage' = "sockstate"
        /\ pc' = IF stage = "sockstate" THEN "bootstrap" ELSE "attach"
    BY <1>1, <1>8, Zenon DEF AcquireNext, item
  <2>2. linksThenObjs(acquired) \in Seq(Resources) /\ Range(linksThenObjs(acquired)) = Range(acquired)
    BY <1>2, RangeLinks
  <2>3. /\ closers' \in Seq(Resources)
        /\ Range(closers') = Range(closers) \cup Range(acquired)
    BY <1>2, <2>1, <2>2, RangeConcat
  <2>4. item \in Readers /\ item = <<"reader", stage>>
    BY <1>1, <1>3, <1>8 DEF Readers
  <2>5. rings' \in Seq(Readers) /\ Range(rings') = Range(rings) \cup {item}
    <3>1. Append(rings, item) \in Seq(Readers)
      BY <1>2, <2>4
    <3>2. Range(Append(rings, item)) = Range(rings) \cup {item}
      BY <1>2, RangeAppend
    <3> QED BY <2>1, <3>1, <3>2
  <2>6. Len(acquired') = 0 /\ Range(acquired') = {} /\ Range(todo') = {}
    BY <1>1, <2>1 DEF Range
  <2>7. AttachTyped'
    <3>1. 0 < Len(Plan["sockstate"]) /\ "sockstate" \in Modes
      BY PlanShape DEF Modes
    <3> QED BY <1>1, <1>2, <1>3, <2>1, <2>3, <2>5, <2>6, <3>1 DEF AttachInv, AttachTyped
  <2>8. Phased'
    <3>1. pc' = "attach" => Range(rings') \subseteq {<<"reader", "fentry">>, <<"reader", "kprobe">>}
      BY <1>1, <1>5, <2>1, <2>4, <2>5, Zenon DEF Modes
    <3> QED BY <1>1, <2>1, <3>1 DEF Phased
  <2>9. OpenAccounted'
    BY <1>1, <1>4, <2>1, <2>3, <2>5 DEF OpenAccounted
  <2>10. EntryBeforeReturn'
    <3>1. \A i, j \in DOMAIN closers' : i < j => \A fn \in Fns :
            ~(closers'[j] = <<"kprobe", fn>> /\ closers'[i] = <<"kretprobe", fn>>)
      <4> DEFINE q == linksThenObjs(acquired)
      <4>1. /\ Len(acquired) > 0 /\ Len(q) = Len(acquired) /\ q[Len(q)] = <<"objs", stage>>
            /\ \A i \in 1 .. Len(q) - 1 : q[i] = Plan[stage][i + 1] /\ i + 1 \in 1 .. Len(Plan[stage])
        <5>1. acquired # << >> /\ Len(acquired) > 0 /\ q = Append(Tail(acquired), Head(acquired))
          <6>1. Len(acquired) > 0
            <7>1. Len(acquired) \in Nat /\ Len(Plan[stage]) \in Nat /\ Len(Plan[stage]) > 1
              BY <1>1, <1>2, PlanShape
            <7>2. Len(acquired) + 1 = Len(Plan[stage])
              BY <1>8
            <7> QED BY <7>1, <7>2
          <6>2. acquired # << >>
            BY <6>1
          <6> QED BY <6>1, <6>2 DEF linksThenObjs
        <5>2. Len(Tail(acquired)) = Len(acquired) - 1 /\ Head(acquired) = acquired[1]
                /\ Tail(acquired) \in Seq(Resources)
          BY <1>2, <5>1
        <5>3. Len(q) = Len(acquired) /\ q[Len(q)] = acquired[1]
          BY <1>2, <5>1, <5>2
        <5>4. acquired[1] = <<"objs", stage>>
          BY <1>1, <1>2, <5>1, PlanShape
        <5>5. ASSUME NEW i \in 1 .. Len(q) - 1 PROVE q[i] = Plan[stage][i + 1] /\ i + 1 \in 1 .. Len(Plan[stage])
          <6>1. q[i] = Tail(acquired)[i] /\ Tail(acquired)[i] = acquired[i + 1]
            BY <1>2, <5>1, <5>2, <5>3, <5>5
          <6>2. i + 1 \in 1 .. Len(acquired) /\ i + 1 \in 1 .. Len(Plan[stage])
            BY <1>2, <1>3, <5>3, <5>5
          <6> QED BY <1>2, <6>1, <6>2
        <5> QED BY <5>1, <5>3, <5>4, <5>5, Zenon
      <4>2. q \in Seq(Resources) /\ Len(q) \in Nat
        BY <2>2
      <4> HIDE DEF q
      <4>3. ASSUME NEW i \in 1 .. Len(q), NEW fn \in Fns
            PROVE  /\ q[i] = <<"kprobe", fn>> => stage = "kprobe" /\ i < 3
                   /\ q[i] = <<"kretprobe", fn>> => stage = "kprobe" /\ i > 2
        <5>1. CASE i = Len(q)
          BY <4>1, <5>1
        <5>2. CASE i \in 1 .. Len(q) - 1
          <6>1. PICK k \in 1 .. Len(Plan[stage]) : k = i + 1 /\ q[i] = Plan[stage][k]
            BY <4>1, <5>2
          <6>2. /\ q[i] = <<"kprobe", fn>> => stage = "kprobe" /\ k < 4
                /\ q[i] = <<"kretprobe", fn>> => stage = "kprobe" /\ k > 3
            BY <1>1, <6>1, PlanProbes
          <6> QED BY <6>1, <6>2, <5>2, <4>2
        <5> QED BY <4>2, <5>1, <5>2
      <4>4. CASE stage = "kprobe"
        <5>1. closers' = q
          BY <1>2, <2>1, <4>2, <4>4 DEF AttachInv, Phased, q
        <5>2. DOMAIN q = 1 .. Len(q)
          BY <4>2
        <5> QED BY <4>2, <4>3, <5>1, <5>2
      <4>5. CASE stage # "kprobe"
        <5>1. /\ DOMAIN closers' = 1 .. Len(closers) + Len(q) /\ DOMAIN closers = 1 .. Len(closers)
              /\ Len(closers) \in Nat
          BY <1>2, <2>1, <4>2 DEF q
        <5>2. \A k \in 1 .. Len(closers) : closers'[k] = closers[k]
          BY <1>2, <2>1, <4>2 DEF q
        <5>3. ASSUME NEW k \in 1 .. Len(closers) + Len(q), k > Len(closers), NEW fn \in Fns
              PROVE  closers'[k] # <<"kprobe", fn>>
          <6>1. k - Len(closers) \in 1 .. Len(q) /\ closers'[k] = q[k - Len(closers)]
            BY <1>2, <2>1, <4>2, <5>1, <5>3 DEF q
          <6> QED BY <4>3, <4>5, <6>1
        <5>4. ASSUME NEW i \in DOMAIN closers', NEW j \in DOMAIN closers', i < j, NEW fn \in Fns
              PROVE  ~(closers'[j] = <<"kprobe", fn>> /\ closers'[i] = <<"kretprobe", fn>>)
          <6>1. CASE j > Len(closers)
            BY <4>2, <5>1, <5>3, <5>4, <6>1
          <6>2. CASE ~(j > Len(closers))
            <7>1. i \in DOMAIN closers /\ j \in DOMAIN closers
              BY <4>2, <5>1, <5>4, <6>2
            <7> QED BY <5>1, <5>2, <5>4, <7>1 DEF AttachInv, EntryBeforeReturn
          <6> QED BY <6>1, <6>2
        <5> QED BY <5>4
      <4> QED BY <4>4, <4>5
    <3> QED BY <1>1, <1>6, <2>1, <2>6, <3>1, Zenon DEF EntryBeforeReturn
  <2> QED BY <2>7, <2>8, <2>9, <2>10 DEF AttachInv
<1> QED BY <1>7, <1>8

(* The actions that close, and those that only move on. *)
LEMMA SourceKeepsAttachInv ==
  ASSUME AttachInv, Source
  PROVE  AttachInv'
<1> USE DEF AttachInv
<1>0. Range(<< >>) = {}
  BY DEF Range
<1>1. CASE RemoveMemlock
  <2>1. /\ pc = "start" /\ pc' \in {"poller", "attach"} /\ stage' \in Modes \ {"sockstate"}
        /\ UNCHANGED <<open, acquired, closers, rings, todo, consumers>>
        /\ acquired = << >> /\ closers = << >> /\ rings = << >> /\ todo = << >> /\ consumers = {}
        /\ stage = "fentry"
    BY <1>1, Zenon DEF RemoveMemlock, Phased, Modes
  <2>2. open = {}
    BY <1>0, <2>1 DEF OpenAccounted
  <2>3. AttachTyped'
    <3>1. 0 < Len(Plan[stage'])
      BY <2>1, PlanShape
    <3> QED BY <2>1, <3>1 DEF AttachTyped
  <2>4. Phased'
    BY <1>0, <2>1, Zenon DEF Phased
  <2>5. OpenAccounted'
    BY <2>1, <2>2 DEF OpenAccounted
  <2>6. EntryBeforeReturn'
    BY <1>0, <2>1, <2>2 DEF EntryBeforeReturn
  <2> QED BY <2>3, <2>4, <2>5, <2>6
<1>2. CASE AcquireNext
  BY <1>2, AcquireKeepsAttachInv
<1>3. CASE AcquireFails
  <2>1. /\ pc = "attach" /\ pc' = "unwind" /\ todo' = linksThenObjs(acquired) /\ acquired' = << >>
        /\ UNCHANGED <<stage, open, closers, rings, consumers>> /\ todo = << >>
    BY <1>3, Zenon DEF AcquireFails, Phased
  <2>2. todo' \in Seq(Resources) /\ Range(todo') = Range(acquired)
    BY <2>1, RangeLinks, Zenon DEF AttachTyped
  <2>3. AttachTyped'
    <3>1. 0 < Len(Plan[stage])
      BY PlanShape DEF AttachTyped
    <3> QED BY <2>1, <2>2, <3>1 DEF AttachTyped
  <2>4. Phased'
    <3>1. Range(acquired) \subseteq Range(Plan[stage])
      <4> SUFFICES ASSUME NEW i \in 1 .. Len(acquired) PROVE acquired[i] \in Range(Plan[stage])
        BY DEF AttachTyped, Range
      <4>1. acquired[i] = Plan[stage][i] /\ i \in 1 .. Len(Plan[stage])
        <5>1. /\ acquired[i] = Plan[stage][i] /\ Len(acquired) < Len(Plan[stage])
              /\ stage \in Modes /\ acquired \in Seq(Resources)
          BY Zenon DEF AttachTyped
        <5>2. Len(Plan[stage]) \in Nat
          BY <5>1, PlanShape, Zenon
        <5> QED BY <5>1, <5>2
      <4>2. DOMAIN Plan[stage] = 1 .. Len(Plan[stage])
        BY PlanShape DEF AttachTyped
      <4> QED BY <4>1, <4>2, Zenon DEF Range
    <3> QED BY <2>1, <2>2, <3>1, Zenon DEF Phased
  <2>5. OpenAccounted'
    BY <1>0, <2>1, <2>2 DEF OpenAccounted
  <2>6. EntryBeforeReturn'
    BY <2>1 DEF EntryBeforeReturn, Trusted
  <2> QED BY <2>3, <2>4, <2>5, <2>6
<1>4. CASE CloseNext
  <2>1. /\ pc \in {"unwind", "abandon", "closeAll"} /\ todo # << >> /\ acquired = << >>
        /\ open' = open \ {Head(todo)} /\ todo' = Tail(todo)
        /\ UNCHANGED <<pc, stage, acquired, closers, rings, consumers>>
    BY <1>4, Zenon DEF CloseNext, Phased
  <2>2. /\ todo' \in Seq(Resources) /\ Range(todo) = {Head(todo)} \cup Range(todo')
        /\ Head(todo) \in Range(todo) /\ Head(todo) = todo[1] /\ 1 \in DOMAIN todo
        /\ DOMAIN todo = 1 .. Len(todo) /\ DOMAIN todo' = 1 .. Len(todo) - 1 /\ Len(todo) \in Nat
        /\ \A i \in 1 .. Len(todo) - 1 : todo'[i] = todo[i + 1]
    BY <2>1, RangeTail DEF AttachTyped
  <2>3. AttachTyped'
    BY <2>1, <2>2, Zenon DEF AttachTyped
  <2>4. Phased'
    BY <2>1, <2>2, Zenon DEF Phased
  <2>5. OpenAccounted'
    BY <2>1, <2>2 DEF OpenAccounted
  <2>6. EntryBeforeReturn'
    <3>1. pc \in {"abandon", "closeAll"} => \A i, j \in DOMAIN todo' : i < j => \A fn \in Fns :
            ~(todo'[i] = <<"kprobe", fn>> /\ todo'[j] = <<"kretprobe", fn>>)
      <4> SUFFICES ASSUME pc \in {"abandon", "closeAll"}, NEW i \in DOMAIN todo', NEW j \in DOMAIN todo',
                          i < j, NEW fn \in Fns
                   PROVE  ~(todo'[i] = <<"kprobe", fn>> /\ todo'[j] = <<"kretprobe", fn>>)
        OBVIOUS
      <4>1. /\ i + 1 \in DOMAIN todo /\ j + 1 \in DOMAIN todo /\ i + 1 < j + 1
            /\ todo'[i] = todo[i + 1] /\ todo'[j] = todo[j + 1]
        BY <2>2
      <4> QED BY <4>1, Zenon DEF EntryBeforeReturn
    <3>2. ASSUME Trusted, NEW fn \in Fns, <<"kretprobe", fn>> \in open'
          PROVE  <<"kprobe", fn>> \in open'
      <4>1. <<"kprobe", fn>> \in open
        BY <2>1, <3>2, Zenon DEF EntryBeforeReturn
      <4>2. CASE pc = "unwind"
        <5>1. Head(todo) \in Range(Plan[stage]) /\ stage # "kprobe" /\ stage \in Modes
          BY <2>2, <3>2, <4>2, Zenon DEF Phased, Trusted, AttachTyped
        <5>2. Head(todo) # <<"kprobe", fn>>
          BY <5>1, PlanShape DEF Range
        <5> QED BY <2>1, <4>1, <5>2
      <4>3. CASE pc \in {"abandon", "closeAll"}
        <5>1. Range(acquired) = {} /\ <<"kretprobe", fn>> \notin Range(rings)
          BY <1>0, <2>1 DEF AttachTyped, Readers, Range
        <5>2. <<"kretprobe", fn>> \in Range(todo')
          BY <2>1, <2>2, <3>2, <4>3, <5>1, Zenon DEF OpenAccounted
        <5>3. PICK j \in 1 .. Len(todo) - 1 : todo[j + 1] = <<"kretprobe", fn>>
          BY <2>2, <5>2, Zenon DEF Range
        <5>4. 1 \in DOMAIN todo /\ j + 1 \in DOMAIN todo /\ 1 < j + 1
          BY <2>2
        <5>5. todo[1] # <<"kprobe", fn>>
          BY <4>3, <5>3, <5>4 DEF EntryBeforeReturn
        <5> QED BY <2>1, <2>2, <4>1, <5>5
      <4> QED BY <2>1, <4>2, <4>3
    <3> QED BY <2>1, <3>1, <3>2 DEF EntryBeforeReturn, Trusted
  <2> QED BY <2>3, <2>4, <2>5, <2>6
<1>5. CASE Unwound
  <2>1. /\ pc = "unwind" /\ todo = << >> /\ acquired = << >>
        /\ UNCHANGED <<open, acquired, closers, rings, consumers>>
    BY <1>5, Zenon DEF Unwound, Phased
  <2>2. CASE stage = "fentry"
    <3>1. pc' = "attach" /\ stage' = "kprobe" /\ todo' = << >> /\ closers = << >> /\ rings = << >>
      BY <1>5, <2>1, <2>2, Zenon DEF Unwound, Phased
    <3>2. AttachTyped'
      <4>1. 0 < Len(Plan["kprobe"]) /\ "kprobe" \in Modes
        BY PlanShape DEF Modes
      <4> QED BY <2>1, <3>1, <4>1 DEF AttachTyped
    <3>3. Phased'
      BY <1>0, <2>1, <3>1 DEF Phased
    <3>4. OpenAccounted'
      BY <2>1, <3>1 DEF OpenAccounted
    <3>5. EntryBeforeReturn'
      BY <1>0, <2>1, <2>2, <3>1 DEF EntryBeforeReturn, Trusted
    <3> QED BY <3>2, <3>3, <3>4, <3>5
  <2>3. CASE stage # "fentry"
    <3>1. pc' = "abandon" /\ stage' = stage /\ todo' = LastFirst(closers)
      BY <1>5, <2>3 DEF Unwound
    <3>2. todo' \in Seq(Resources) /\ Range(todo') = Range(closers)
      BY <3>1, RangeReverse, Zenon DEF AttachTyped
    <3>3. AttachTyped'
      BY <2>1, <3>1, <3>2 DEF AttachTyped
    <3>4. Phased'
      BY <2>1, <3>1, Zenon DEF Phased
    <3>5. OpenAccounted'
      BY <1>0, <2>1, <3>1, <3>2 DEF OpenAccounted
    <3>6. EntryBeforeReturn'
      <4>1. \A i, j \in DOMAIN todo' : i < j => \A fn \in Fns :
              ~(todo'[i] = <<"kprobe", fn>> /\ todo'[j] = <<"kretprobe", fn>>)
        BY <3>1, ReverseOrder DEF AttachTyped, EntryBeforeReturn
      <4> QED BY <2>1, <3>1, <4>1 DEF EntryBeforeReturn, Trusted
    <3> QED BY <3>3, <3>4, <3>5, <3>6
  <2> QED BY <2>2, <2>3
<1>6. CASE NewPoller
  <2>1. pc = "abandon" /\ todo = << >> /\ pc' = "poller" /\ UNCHANGED <<stage, open, acquired, closers, rings, todo, consumers>>
    BY <1>6 DEF NewPoller
  <2>2. AttachTyped'
    BY <2>1, Zenon DEF AttachTyped
  <2>3. Phased' /\ OpenAccounted'
    BY <2>1, Zenon DEF Phased, OpenAccounted
  <2>4. EntryBeforeReturn'
    BY <2>1 DEF EntryBeforeReturn, Trusted
  <2> QED BY <2>2, <2>3, <2>4
<1>7. CASE RunStarts
  <2>1. /\ pc = "bootstrap" /\ pc' = "running" /\ consumers' = Range(rings)
        /\ UNCHANGED <<stage, open, acquired, closers, rings, todo>>
    BY <1>7 DEF RunStarts
  <2>2. Range(rings) \subseteq Readers
    BY DEF AttachTyped, Range
  <2>3. AttachTyped'
    BY <2>1, <2>2, Zenon DEF AttachTyped
  <2>4. Phased' /\ OpenAccounted'
    BY <2>1, Zenon DEF Phased, OpenAccounted
  <2>5. EntryBeforeReturn'
    BY <2>1 DEF EntryBeforeReturn, Trusted
  <2> QED BY <2>3, <2>4, <2>5
<1>8. CASE CloseReader
  <2>1. PICK k \in DOMAIN rings : open' = open \ {rings[k]}
    BY <1>8 DEF CloseReader
  <2>2. /\ pc = "running" /\ UNCHANGED <<pc, stage, acquired, closers, rings, todo, consumers>>
    BY <1>8 DEF CloseReader
  <2>3. AttachTyped'
    BY <2>1, <2>2, Zenon DEF AttachTyped
  <2>4. Phased' /\ OpenAccounted'
    BY <2>1, <2>2, Zenon DEF Phased, OpenAccounted
  <2>5. \A fn \in Fns : rings[k] # <<"kprobe", fn>>
    BY DEF AttachTyped, Readers
  <2>6. EntryBeforeReturn'
    BY <2>1, <2>2, <2>5 DEF EntryBeforeReturn, Trusted
  <2> QED BY <2>3, <2>4, <2>6
<1>9. CASE RunCloses
  <2>1. /\ pc = "running" /\ consumers = {} /\ pc' = "closeAll" /\ todo' = LastFirst(closers)
        /\ acquired = << >> /\ UNCHANGED <<stage, open, acquired, closers, rings, consumers>>
    BY <1>9, Zenon DEF RunCloses, Phased
  <2>2. todo' \in Seq(Resources) /\ Range(todo') = Range(closers)
    BY <2>1, RangeReverse, Zenon DEF AttachTyped
  <2>3. todo = << >>
    BY <2>1 DEF Phased
  <2>4. AttachTyped'
    BY <2>1, <2>2, Zenon DEF AttachTyped
  <2>5. Phased'
    BY <2>1, Zenon DEF Phased
  <2>6. OpenAccounted'
    BY <1>0, <2>1, <2>2, <2>3 DEF OpenAccounted
  <2>7. EntryBeforeReturn'
    <3>1. \A i, j \in DOMAIN todo' : i < j => \A fn \in Fns :
            ~(todo'[i] = <<"kprobe", fn>> /\ todo'[j] = <<"kretprobe", fn>>)
      BY <2>1, ReverseOrder DEF AttachTyped, EntryBeforeReturn
    <3> QED BY <2>1, <3>1 DEF EntryBeforeReturn, Trusted
  <2> QED BY <2>4, <2>5, <2>6, <2>7
<1>10. CASE RunReturns
  <2>1. /\ pc = "closeAll" /\ todo = << >> /\ pc' = "returned"
        /\ UNCHANGED <<stage, open, acquired, closers, rings, todo, consumers>>
    BY <1>10 DEF RunReturns
  <2>2. AttachTyped'
    BY <2>1, Zenon DEF AttachTyped
  <2>3. Phased' /\ OpenAccounted'
    BY <2>1, Zenon DEF Phased, OpenAccounted
  <2>4. EntryBeforeReturn'
    BY <2>1 DEF EntryBeforeReturn, Trusted
  <2> QED BY <2>2, <2>3, <2>4
<1>11. ASSUME NEW r \in consumers, consume(r) PROVE AttachInv'
  <2>1. UNCHANGED <<pc, stage, open, acquired, closers, rings, todo, consumers>>
    BY <1>11, Zenon DEF consume, attachVars
  <2> QED BY <2>1 DEF AttachTyped, Phased, OpenAccounted, EntryBeforeReturn, Trusted
<1>12. ASSUME NEW r \in consumers, consumeEnds(r) PROVE AttachInv'
  <2>1. /\ r \notin open /\ consumers' = consumers \ {r}
        /\ UNCHANGED <<pc, stage, open, acquired, closers, rings, todo>>
    BY <1>12 DEF consumeEnds
  <2>2. AttachTyped'
    BY <2>1, Zenon DEF AttachTyped
  <2>3. Phased' /\ OpenAccounted'
    BY <2>1, Zenon DEF Phased, OpenAccounted
  <2>4. EntryBeforeReturn'
    BY <2>1 DEF EntryBeforeReturn, Trusted
  <2> QED BY <2>2, <2>3, <2>4
<1> QED BY <1>1, <1>2, <1>3, <1>4, <1>5, <1>6, <1>7, <1>8, <1>9, <1>10, <1>11, <1>12, Zenon DEF Source

LEMMA KernelKeepsAttachInv ==
  ASSUME AttachInv, UNCHANGED attachVars
  PROVE  AttachInv'
<1>1. UNCHANGED <<pc, stage, open, acquired, closers, rings, todo, consumers>>
  BY DEF attachVars
<1> QED BY <1>1 DEF AttachInv, AttachTyped, Phased, OpenAccounted, EntryBeforeReturn, Trusted

LEMMA KernelLeavesAttach ==
  ASSUME Kernel
  PROVE  UNCHANGED attachVars /\ UNCHANGED socket
BY Zenon DEF Kernel, Connect, Nest, Syn, GiveUp, Return, Recycle, SetState

LEMMA InitAttachInv ==
  ASSUME Init
  PROVE  AttachInv
<1>1. Range(<< >>) = {} /\ DOMAIN (<< >>) = {}
  BY DEF Range
<1>2. /\ pc = "start" /\ stage = "fentry" /\ open = {}
      /\ acquired = << >> /\ closers = << >> /\ rings = << >> /\ todo = << >> /\ consumers = {}
  BY Zenon DEF Init
<1>3. AttachTyped
  <2>1. 0 < Len(Plan["fentry"]) /\ "fentry" \in Modes
    BY PlanShape DEF Modes
  <2> QED BY <1>2, <2>1 DEF AttachTyped
<1>4. Phased /\ OpenAccounted
  BY <1>1, <1>2 DEF Phased, OpenAccounted
<1>5. EntryBeforeReturn
  BY <1>1, <1>2 DEF EntryBeforeReturn
<1> QED BY <1>3, <1>4, <1>5 DEF AttachInv

(* AttachInv holds in every reachable state: attach, closeAll and Run are not  *)
(* disturbed by what the kernel does meanwhile.                              *)
LEMMA AttachInvariance == Spec => []AttachInv
<1>1. Init => AttachInv
  BY InitAttachInv
<1>2. AttachInv /\ [Next]_vars => AttachInv'
  <2> SUFFICES ASSUME AttachInv, [Next]_vars PROVE AttachInv'
    OBVIOUS
  <2>1. CASE Kernel
    BY <2>1, KernelLeavesAttach, KernelKeepsAttachInv
  <2>2. CASE Source
    BY <2>2, SourceKeepsAttachInv
  <2>3. CASE UNCHANGED vars
    BY <2>3, KernelKeepsAttachInv DEF vars
  <2> QED BY <2>1, <2>2, <2>3 DEF Next
<1> QED BY <1>1, <1>2, PTL DEF Spec

(* "closeAll releases every attached link and loaded collection", and a start *)
(* that fails at any step does too before the Poller takes over: no hook and   *)
(* no consumer outlives the source, and only a reader opened before a late     *)
(* failure of attach is left.                                                 *)
THEOREM NoHookOutlivesTheSource == Spec => []NothingStaysAttached
<1>1. AttachInv => NothingStaysAttached
  <2> SUFFICES ASSUME AttachInv PROVE NothingStaysAttached
    OBVIOUS
  <2>0. Range(<< >>) = {}
    BY DEF Range
  <2>1. ASSUME pc = "poller" PROVE open \subseteq {<<"reader", "fentry">>, <<"reader", "kprobe">>}
    BY <2>0, <2>1 DEF AttachInv, Phased, OpenAccounted
  <2>2. ASSUME pc = "returned" PROVE open = {} /\ consumers = {}
    BY <2>0, <2>2 DEF AttachInv, Phased, OpenAccounted
  <2> QED BY <2>1, <2>2 DEF NothingStaysAttached
<1> QED BY <1>1, AttachInvariance, PTL

-----------------------------------------------------------------------------
(* Rings and calls. *)

(* Submit and Tail on a ring. *)
LEMMA SubmitShape ==
  ASSUME NEW r, r \in Seq(Range(r)), Len(r) <= RingSize, NEW ev
  PROVE  /\ Submit(r, ev) \in Seq(Range(Submit(r, ev))) /\ Len(Submit(r, ev)) <= RingSize
         /\ Len(Submit(r, ev)) = IF HasRoom(r) THEN Len(r) + 1 ELSE Len(r)
         /\ \A i \in DOMAIN Submit(r, ev) : Submit(r, ev)[i] = ev \/ \E j \in DOMAIN r : Submit(r, ev)[i] = r[j]
<1>0. RingSize \in Nat /\ Len(r) \in Nat
  BY HooksAssumption
<1>1. CASE HasRoom(r)
  <2>1. Submit(r, ev) = Append(r, ev) /\ Len(r) < RingSize
    BY <1>1 DEF Submit, HasRoom
  <2>2. Range(Append(r, ev)) = Range(r) \cup {ev}
    BY RangeAppend
  <2>3. Append(r, ev) \in Seq(Range(r) \cup {ev}) /\ Len(Append(r, ev)) = Len(r) + 1
    <3>1. r \in Seq(Range(r) \cup {ev})
      OBVIOUS
    <3> QED BY <3>1
  <2>4. \A i \in 1 .. Len(r) + 1 : Append(r, ev)[i] = ev \/ (i \in 1 .. Len(r) /\ Append(r, ev)[i] = r[i])
    <3> SUFFICES ASSUME NEW i \in 1 .. Len(r) + 1, ~(i \in 1 .. Len(r)) PROVE Append(r, ev)[i] = ev
      OBVIOUS
    <3> i = Len(r) + 1
      OBVIOUS
    <3> QED OBVIOUS
  <2>5. DOMAIN r = 1 .. Len(r) /\ DOMAIN Append(r, ev) = 1 .. Len(r) + 1
    OBVIOUS
  <2> QED BY <1>0, <1>1, <2>1, <2>2, <2>3, <2>4, <2>5
<1>2. CASE ~HasRoom(r)
  BY <1>2 DEF Submit
<1> QED BY <1>1, <1>2, Zenon

LEMMA TailShape ==
  ASSUME NEW r, r \in Seq(Range(r)), r # << >>
  PROVE  /\ Tail(r) \in Seq(Range(Tail(r))) /\ Len(Tail(r)) = Len(r) - 1
         /\ \A i \in DOMAIN Tail(r) : \E j \in DOMAIN r : Tail(r)[i] = r[j]
<1>1. /\ Len(r) \in Nat /\ Len(r) > 0 /\ Len(Tail(r)) = Len(r) - 1 /\ DOMAIN r = 1 .. Len(r)
      /\ DOMAIN Tail(r) = 1 .. Len(r) - 1
      /\ \A i \in 1 .. Len(r) - 1 : Tail(r)[i] = r[i + 1]
  OBVIOUS
<1>2. Tail(r) \in Seq(Range(Tail(r)))
  <2>1. PICK n \in Nat : Tail(r) \in [1 .. n -> Range(r)]
    <3>1. Tail(r) \in Seq(Range(r))
      OBVIOUS
    <3>2. Tail(r) \in [1 .. Len(Tail(r)) -> Range(r)] /\ Len(Tail(r)) \in Nat
      BY <3>1, LenProperties, Zenon
    <3> QED BY <3>2, Zenon
  <2>2. Tail(r) \in [1 .. n -> Range(Tail(r))]
    BY <2>1, Zenon DEF Range
  <2> QED BY <2>2, SeqDef, Zenon
<1>3. ASSUME NEW i \in 1 .. Len(r) - 1 PROVE i + 1 \in DOMAIN r
  BY <1>1
<1> QED BY <1>1, <1>2, <1>3

(* What entering a function does. *)
Entered(t, sk, fn, frames, missed, armed) ==
  /\ armed \subseteq ReturnHooks(fn) \cap open
  /\ call' \in [Tids -> ConnectCalls \cup {Nil}] /\ connect_args_map' \in [Tids -> Socks \cup {Nil}]
  /\ \A u \in Tids \ {t} : call'[u] = call[u] /\ connect_args_map'[u] = connect_args_map[u]
  /\ call'[t] # Nil /\ call'[t].sk = sk /\ call'[t].ret = Nil /\ call'[t].events = 0
  /\ Len(call'[t].stack) = Len(frames) + 1 /\ DOMAIN call'[t].stack = 1 .. Len(frames) + 1
  /\ call'[t].stack[1] = [fn |-> fn, armed |-> armed]
  /\ \A i \in 1 .. Len(frames) : call'[t].stack[i + 1] = frames[i]
  /\ ~call'[t].missed => /\ ~missed /\ armed # {}
                         /\ <<"kretprobe", fn>> \in armed => connect_args_map'[t] = sk
  /\ connect_args_map'[t] = connect_args_map[t] \/ (connect_args_map'[t] = sk /\ <<"kprobe", fn>> \in open)
  /\ <<"kprobe", fn>> \in open => connect_args_map'[t] \in {sk, Nil}

LEMMA EnterStep ==
  ASSUME TypeOK, NEW t \in Tids, NEW sk \in Socks, NEW fn \in Fns, NEW frames \in Seq(Frames),
         NEW missed \in BOOLEAN, Enter(t, sk, fn, frames, missed)
  PROVE  \E armed : Entered(t, sk, fn, frames, missed, armed)
<1> DEFINE recorded == <<"kprobe", fn>> \in open
           unseen(armed) == \/ armed = {}
                            \/ <<"kretprobe", fn>> \in armed /\ (~recorded \/ ScratchFull(t))
           frame(armed) == [fn |-> fn, armed |-> armed]
           new(armed) == [sk |-> sk, ret |-> Nil, missed |-> missed \/ unseen(armed), dropped |-> FALSE,
                          events |-> 0, stack |-> <<frame(armed)>> \o frames]
<1>1. PICK armed \in SUBSET (ReturnHooks(fn) \cap open) :
        /\ IF recorded THEN kprobe_connect_entry(t, sk) ELSE UNCHANGED connect_args_map
        /\ call' = [call EXCEPT ![t] = new(armed)]
  BY Zenon DEF Enter
<1>2. frame(armed) \in Frames
  BY DEF Frames
<1>3. /\ <<frame(armed)>> \o frames \in Seq(Frames)
      /\ Len(<<frame(armed)>> \o frames) = Len(frames) + 1
      /\ DOMAIN (<<frame(armed)>> \o frames) = 1 .. Len(frames) + 1
      /\ (<<frame(armed)>> \o frames)[1] = frame(armed)
      /\ \A i \in 1 .. Len(frames) : (<<frame(armed)>> \o frames)[i + 1] = frames[i]
      /\ <<frame(armed)>> \o frames # << >>
  <2> HIDE DEF frame
  <2>1. <<frame(armed)>> \in Seq(Frames) /\ Len(<<frame(armed)>>) = 1 /\ <<frame(armed)>>[1] = frame(armed)
    BY <1>2
  <2> QED BY <2>1
<1>4. (missed \/ unseen(armed)) \in BOOLEAN
  OBVIOUS
<1> HIDE DEF frame, unseen
<1>5. new(armed) \in ConnectCalls /\ new(armed) # Nil
  <2>1. new(armed) \in ConnectCalls
    BY <1>3, <1>4 DEF ConnectCalls
  <2> QED BY <2>1, HooksAssumption, Zenon
<1>6. /\ new(armed).sk = sk /\ new(armed).ret = Nil /\ new(armed).events = 0
      /\ new(armed).stack = <<frame(armed)>> \o frames
      /\ new(armed).missed = (missed \/ unseen(armed))
  BY Zenon
<1> HIDE DEF new
<1>7. /\ call' \in [Tids -> ConnectCalls \cup {Nil}] /\ call'[t] = new(armed)
      /\ \A u \in Tids \ {t} : call'[u] = call[u]
  BY <1>1, <1>5, Zenon DEF TypeOK
<1>8. /\ connect_args_map' \in [Tids -> Socks \cup {Nil}]
      /\ \A u \in Tids \ {t} : connect_args_map'[u] = connect_args_map[u]
      /\ connect_args_map'[t] = IF recorded /\ ~ScratchFull(t) THEN sk ELSE connect_args_map[t]
  BY <1>1, Zenon DEF TypeOK, kprobe_connect_entry
<1>9. ScratchFull(t) => connect_args_map[t] = Nil
  BY DEF ScratchFull
<1>10. ~call'[t].missed => /\ ~missed /\ armed # {}
                           /\ <<"kretprobe", fn>> \in armed => connect_args_map'[t] = sk
  BY <1>6, <1>7, <1>8, Zenon DEF unseen
<1>11. Entered(t, sk, fn, frames, missed, armed)
  <2>1. call'[t].stack = <<frame(armed)>> \o frames
    BY <1>6, <1>7, Zenon
  <2>2. connect_args_map'[t] = connect_args_map[t] \/ (connect_args_map'[t] = sk /\ recorded)
    BY <1>8
  <2>3. recorded => connect_args_map'[t] \in {sk, Nil}
    BY <1>8, <1>9
  <2>4. /\ Len(call'[t].stack) = Len(frames) + 1 /\ DOMAIN call'[t].stack = 1 .. Len(frames) + 1
        /\ call'[t].stack[1] = frame(armed)
        /\ \A i \in 1 .. Len(frames) : call'[t].stack[i + 1] = frames[i]
    BY <1>3, <2>1, Zenon
  <2> QED BY <1>1, <1>5, <1>6, <1>7, <1>8, <1>10, <2>2, <2>3, <2>4, Zenon DEF Entered, frame
<1> QED BY <1>11

KernelInv ==
  /\ TypeOK /\ RingsTyped /\ OneVariant /\ ArmedOrMissed /\ ScratchAccounted /\ Nested
  /\ ScratchTrue /\ RingsTrue /\ Counted /\ CallsAreReported

(* A successful call stays reported: first while it is in flight, then as done. *)
LEMMA ReportsStay ==
  ASSUME done \subseteq done', \A t \in Tids : Calls(t) \subseteq Reports'
  PROVE  Reports \subseteq Reports'
<1>1. \A d \in done : d.report \in Reports'
  BY DEF Reports
<1> QED BY <1>1 DEF Reports

LEMMA CallStays ==
  ASSUME NEW t \in Tids, UNCHANGED <<owner, socket>>, call[t] = call'[t]
  PROVE  Calls(t) \subseteq Reports'
<1>1. Report(t)' = Report(t)
  BY Zenon DEF Report, KeyOf
<1>2. Calls(t)' = Calls(t)
  BY <1>1 DEF Calls
<1> QED BY <1>2 DEF Reports

LEMMA EventsStayTrue ==
  ASSUME NEW ev, socket' = socket, Reports \subseteq Reports'
  PROVE  /\ ConnectEventTrue(ev) => ConnectEventTrue(ev)'
         /\ StateEventTrue(ev) => StateEventTrue(ev)'
<1>1. keyFrom(ev)' = keyFrom(ev)
  BY Zenon DEF keyFrom, addrFromEventBytes, Unmap
<1>2. \A bound \in BOOLEAN : KeyOf(ev.skaddr, bound)' = KeyOf(ev.skaddr, bound)
  BY Zenon DEF KeyOf
<1>3. ConnectEventTrue(ev) => ConnectEventTrue(ev)'
  BY <1>1 DEF ConnectEventTrue
<1>4. StateEventTrue(ev) => StateEventTrue(ev)'
  BY <1>1, <1>2 DEF StateEventTrue
<1> QED BY <1>3, <1>4

(* The rings stay true when they only lose events. *)
LEMMA RingsStayTrue ==
  ASSUME RingsTrue, socket' = socket, Reports \subseteq Reports', Trusted' => Trusted,
         \A m \in Modes : \A i \in DOMAIN ring'[m] : \E j \in DOMAIN ring[m] : ring'[m][i] = ring[m][j]
  PROVE  RingsTrue'
<1>1. ASSUME NEW i \in DOMAIN ring'["fentry"] PROVE ConnectEventTrue(ring["fentry"][i])'
  <2>1. PICK j \in DOMAIN ring["fentry"] : ring'["fentry"][i] = ring["fentry"][j]
    BY Zenon DEF Modes
  <2>2. PICK ev : ev = ring["fentry"][j]
    OBVIOUS
  <2>3. ConnectEventTrue(ev)
    BY <2>2, Zenon DEF RingsTrue
  <2>4. ConnectEventTrue(ev)'
    BY <2>3, EventsStayTrue
  <2> QED BY <2>1, <2>2, <2>4, Zenon DEF ConnectEventTrue
<1>2. ASSUME NEW i \in DOMAIN ring'["kprobe"], Trusted' PROVE ConnectEventTrue(ring["kprobe"][i])'
  <2>1. PICK j \in DOMAIN ring["kprobe"] : ring'["kprobe"][i] = ring["kprobe"][j]
    BY Zenon DEF Modes
  <2>2. PICK ev : ev = ring["kprobe"][j]
    OBVIOUS
  <2>3. ConnectEventTrue(ev)
    BY <2>2, <1>2 DEF RingsTrue
  <2>4. ConnectEventTrue(ev)'
    BY <2>3, EventsStayTrue
  <2> QED BY <2>1, <2>2, <2>4, Zenon DEF ConnectEventTrue
<1>3. ASSUME NEW i \in DOMAIN ring'["sockstate"] PROVE StateEventTrue(ring["sockstate"][i])'
  <2>1. PICK j \in DOMAIN ring["sockstate"] : ring'["sockstate"][i] = ring["sockstate"][j]
    BY DEF Modes
  <2>2. PICK ev : ev = ring["sockstate"][j]
    OBVIOUS
  <2>3. StateEventTrue(ev)
    BY <2>2, Zenon DEF RingsTrue
  <2>4. StateEventTrue(ev)'
    BY <2>3, EventsStayTrue
  <2> QED BY <2>1, <2>2, <2>4, Zenon DEF StateEventTrue
<1> QED BY <1>1, <1>2, <1>3, Zenon DEF RingsTrue

(* A call keeps its shape while its stack and socket stay. *)
LEMMA NestedStays ==
  ASSUME Nested, socket' = socket,
         \A u \in Tids : call'[u] # Nil =>
           call[u] # Nil /\ call'[u].sk = call[u].sk /\ call'[u].stack = call[u].stack,
         \A u \in Tids : call'[u] # Nil /\ call'[u].ret = 0 => state'[call'[u].sk] = "SYN_SENT"
  PROVE  Nested'
<1> SUFFICES ASSUME NEW u \in Tids, call'[u] # Nil PROVE NestedCall(u)'
  BY Zenon DEF Nested
<1>1. call[u] # Nil /\ call'[u].sk = call[u].sk /\ call'[u].stack = call[u].stack /\ NestedCall(u)
  BY Zenon DEF Nested
<1>2. ASSUME NEW v \in Tids, call'[v] # Nil, call'[v].sk = call'[u].sk PROVE v = u
  <2>1. call[v] # Nil /\ call[v].sk = call[u].sk
    BY <1>1, <1>2, Zenon
  <2> QED BY <1>1, <2>1, Zenon DEF NestedCall
<1> QED BY <1>1, <1>2, Zenon DEF NestedCall

LEMMA NotMinusOne == 0 # -1
OBVIOUS

(* Where tcp_v4_connect and tcp_v6_connect are entered from: connect, or the  *)
(* former from the latter.                                                  *)
EnteredFrom(t, sk, fn, frames, missed) ==
  /\ UNCHANGED <<owner, socket, state, ring, attachVars, historyVars>>
  /\ \/ call[t] = Nil /\ frames = << >> /\ \A u \in Tids : call[u] # Nil => call[u].sk # sk
     \/ /\ call[t] # Nil /\ call[t].ret = Nil /\ call[t].sk = sk /\ missed = call[t].missed
        /\ frames = call[t].stack /\ Len(frames) = 1 /\ frames[1].fn = "tcp_v6_connect"
        /\ fn = "tcp_v4_connect"
  /\ socket[sk].protocol = "IPPROTO_TCP"
  /\ fn = "tcp_v4_connect" => socket[sk].remote.ver = 4

(* A thread enters one of them. *)
LEMMA EnterKeepsKernelInv ==
  ASSUME AttachInv, KernelInv,
         NEW t \in Tids, NEW sk \in Socks, NEW fn \in Fns, NEW frames \in Seq(Frames),
         NEW missed \in BOOLEAN, Enter(t, sk, fn, frames, missed),
         EnteredFrom(t, sk, fn, frames, missed)
  PROVE  KernelInv'
<1> USE DEF KernelInv
<1>1. PICK armed : Entered(t, sk, fn, frames, missed, armed)
  BY EnterStep
<1>2. /\ armed \subseteq ReturnHooks(fn) \cap open
      /\ call' \in [Tids -> ConnectCalls \cup {Nil}] /\ connect_args_map' \in [Tids -> Socks \cup {Nil}]
      /\ \A u \in Tids \ {t} : call'[u] = call[u] /\ connect_args_map'[u] = connect_args_map[u]
      /\ call'[t] # Nil /\ call'[t].sk = sk /\ call'[t].ret = Nil /\ call'[t].events = 0
  BY <1>1, Zenon DEF Entered
<1>3. /\ Len(call'[t].stack) = Len(frames) + 1 /\ DOMAIN call'[t].stack = 1 .. Len(frames) + 1
      /\ call'[t].stack[1] = [fn |-> fn, armed |-> armed]
      /\ \A i \in 1 .. Len(frames) : call'[t].stack[i + 1] = frames[i]
      /\ Len(frames) \in Nat /\ DOMAIN frames = 1 .. Len(frames)
  BY <1>1 DEF Entered
<1>3a. call'[t].stack[1].fn = fn /\ call'[t].stack[1].armed = armed
  <2>1. PICK f : f = call'[t].stack[1]
    BY Zenon
  <2>2. f = [fn |-> fn, armed |-> armed]
    BY <1>3, <2>1, Zenon
  <2>3. f.fn = fn /\ f.armed = armed
    BY <2>2
  <2> QED BY <2>1, <2>3, Zenon
<1>4. /\ ~call'[t].missed => /\ ~missed /\ armed # {}
                             /\ <<"kretprobe", fn>> \in armed => connect_args_map'[t] = sk
      /\ connect_args_map'[t] = connect_args_map[t] \/ (connect_args_map'[t] = sk /\ <<"kprobe", fn>> \in open)
      /\ <<"kprobe", fn>> \in open => connect_args_map'[t] \in {sk, Nil}
  BY <1>1, Zenon DEF Entered
<1>5. UNCHANGED <<owner, socket, state, ring, pc, stage, open, acquired, consumers, done, unpaired>>
  BY Zenon DEF EnteredFrom, attachVars, historyVars
<1>6. \A i \in 1 .. Len(frames) + 1 : i = 1 \/ (i - 1 \in 1 .. Len(frames) /\ call'[t].stack[i] = frames[i - 1])
  <2> SUFFICES ASSUME NEW i \in 1 .. Len(frames) + 1, i # 1
               PROVE  i - 1 \in 1 .. Len(frames) /\ call'[t].stack[i] = frames[i - 1]
    BY Zenon
  <2>1. PICK n \in Nat : n = Len(frames)
    BY <1>3, Zenon
  <2>2. i - 1 \in 1 .. n /\ (i - 1) + 1 = i
    BY <2>1
  <2> QED BY <1>3, <2>1, <2>2, Zenon
<1>7. /\ frames = << >> \/ (call[t] # Nil /\ frames = call[t].stack /\ missed = call[t].missed /\ call[t].sk = sk)
      /\ call[t] = Nil \/ (call[t].ret = Nil /\ call[t].sk = sk)
  BY Zenon DEF EnteredFrom
<1>8. TypeOK'
  BY <1>2, <1>5, Zenon DEF TypeOK
<1>9. RingsTyped'
  BY <1>5, Zenon DEF RingsTyped
<1>10. OneVariant'
  <2>1. NoKprobe => connect_args_map'[t] = connect_args_map[t]
    BY <1>4, Zenon DEF NoKprobe
  <2>2. NoKprobe /\ MapEmpty => MapEmpty'
    BY <1>2, <2>1, Zenon DEF MapEmpty
  <2> QED BY <1>5, <2>2, Zenon DEF OneVariant, NoKprobe, NoFexit
<1>11. ArmedOrMissed'
  <2>1. ASSUME ~call'[t].missed, NEW i \in DOMAIN call'[t].stack PROVE call'[t].stack[i].armed # {}
    <3>1. CASE i = 1
      BY <1>3a, <1>4, <2>1, <3>1, Zenon
    <3>2. CASE i # 1
      <4>1. i - 1 \in DOMAIN frames /\ call'[t].stack[i] = frames[i - 1]
        BY <1>3, <1>6, <2>1, <3>2, Zenon
      <4>2. frames # << >>
        BY <4>1
      <4>3. call[t] # Nil /\ frames = call[t].stack /\ missed = call[t].missed
        BY <1>7, <4>2, Zenon
      <4>4. ~call[t].missed
        BY <1>4, <2>1, <4>3, Zenon
      <4> QED BY <4>1, <4>3, <4>4, Zenon DEF ArmedOrMissed
    <3> QED BY <3>1, <3>2, Zenon
  <2> QED BY <1>2, <2>1, Zenon DEF ArmedOrMissed
<1>12. ScratchAccounted'
  BY <1>2, <1>4, <1>5, <1>7 DEF ScratchAccounted
<1>13. Nested'
  <2>1. \A u \in Tids \ {t} : call[u] # Nil => call[u].sk # sk
    <3>1. CASE call[t] = Nil
      BY <3>1, Zenon DEF EnteredFrom
    <3>2. CASE call[t] # Nil
      <4>1. call[t].sk = sk /\ NestedCall(t)
        BY <1>7, <3>2, Zenon DEF Nested
      <4>2. \A u \in Tids : call[u] # Nil /\ call[u].sk = call[t].sk => u = t
        BY <4>1, Zenon DEF NestedCall
      <4> QED BY <4>1, <4>2, Zenon
    <3> QED BY <3>1, <3>2
  <2>2. /\ call'[t].stack[1].fn = fn
        /\ \/ Len(call'[t].stack) = 1
           \/ Len(call'[t].stack) = 2 /\ fn = "tcp_v4_connect" /\ call'[t].stack[2].fn = "tcp_v6_connect"
    <3>0. PICK st : st = call'[t].stack
      BY Zenon
    <3>1. PICK n \in Nat : n = Len(frames)
      BY <1>3, Zenon
    <3>2. Len(st) = n + 1 /\ st[1] = [fn |-> fn, armed |-> armed] /\ \A i \in 1 .. n : st[i + 1] = frames[i]
      BY <1>3, <3>0, <3>1, Zenon
    <3>3. st[1].fn = fn
      BY <1>3a, <3>0, Zenon
    <3>4. CASE frames = << >>
      <4>1. n = 0
        BY <3>1, <3>4
      <4>2. Len(st) = 1
        BY <3>2, <4>1
      <4> QED BY <3>0, <3>3, <4>2, Zenon
    <3>5. CASE n = 1 /\ frames[1].fn = "tcp_v6_connect" /\ fn = "tcp_v4_connect"
      <4>1. Len(st) = 2 /\ st[2] = frames[1]
        BY <3>2, <3>5
      <4> QED BY <3>0, <3>3, <3>5, <4>1, Zenon
    <3> QED BY <3>1, <3>4, <3>5, Zenon DEF EnteredFrom
  <2>3. call'[t].ret # 0
    BY <1>2, HooksAssumption, Zenon
  <2> SUFFICES ASSUME NEW u \in Tids, call'[u] # Nil
               PROVE  NestedCall(u)'
    BY Zenon DEF Nested
  <2>4. CASE u = t
    <3>1. /\ socket'[call'[t].sk].protocol = "IPPROTO_TCP"
          /\ call'[t].stack[1].fn = "tcp_v4_connect" => socket'[call'[t].sk].remote.ver = 4
      BY <1>2, <1>5, <2>2, Zenon DEF EnteredFrom
    <3>2. \A v \in Tids : call'[v] # Nil /\ call'[v].sk = call'[t].sk => v = t
      BY <1>2, <2>1, Zenon
    <3> QED BY <2>2, <2>3, <2>4, <3>1, <3>2, Zenon DEF NestedCall
  <2>5. CASE u # t
    <3>1. call'[u] = call[u] /\ call[u] # Nil /\ call[u].sk # sk
      BY <1>2, <2>1, <2>5, Zenon
    <3>2. \A v \in Tids : call'[v] # Nil /\ call'[v].sk = call[u].sk => v = u
      <4> SUFFICES ASSUME NEW v \in Tids, call'[v] # Nil, call'[v].sk = call[u].sk PROVE v = u
        BY Zenon
      <4>1. call[v] # Nil /\ call[v].sk = call[u].sk
        BY <1>2, <3>1, Zenon
      <4> QED BY <3>1, <4>1, Zenon DEF Nested, NestedCall
    <3>3. NestedCall(u) /\ socket' = socket /\ state' = state
      BY <1>5, <3>1, Zenon DEF Nested
    <3> QED BY <3>1, <3>2, <3>3, Zenon DEF NestedCall
  <2> QED BY <2>4, <2>5
<1>14. ScratchTrue'
  <2>1. ASSUME Trusted, NEW i \in DOMAIN call'[t].stack, KretArmed(call'[t].stack[i])
        PROVE  connect_args_map'[t] \in {Nil, sk}
    <3>1. CASE i = 1
      <4>1. <<"kretprobe", fn>> \in open
        BY <1>2, <1>3a, <2>1, <3>1, Zenon DEF KretArmed
      <4> QED BY <1>4, <2>1, <4>1, Zenon DEF AttachInv, EntryBeforeReturn
    <3>2. CASE i # 1
      <4>1. i - 1 \in DOMAIN frames /\ call'[t].stack[i] = frames[i - 1]
        BY <1>3, <1>6, <2>1, <3>2, Zenon
      <4>2. frames # << >>
        BY <4>1
      <4>3. call[t] # Nil /\ call[t].sk = sk /\ frames = call[t].stack
        BY <1>7, <4>2, Zenon
      <4>4. KretArmed(call[t].stack[i - 1]) /\ i - 1 \in DOMAIN call[t].stack
        BY <2>1, <4>1, <4>3, Zenon
      <4> QED BY <1>4, <2>1, <4>3, <4>4, Zenon DEF ScratchTrue
    <3> QED BY <3>1, <3>2
  <2>2. ASSUME stage = "fentry" \/ (stage = "kprobe" /\ pc = "attach" /\ acquired = << >>)
        PROVE  \A i \in DOMAIN call'[t].stack : ~KretArmed(call'[t].stack[i])
    <3>1. <<"kretprobe", fn>> \notin open
      <4>1. CASE stage = "fentry"
        BY <4>1, Zenon DEF OneVariant, NoKprobe
      <4>2. CASE stage = "kprobe" /\ pc = "attach" /\ acquired = << >>
        BY <4>2, SMTT(30) DEF AttachInv, Phased, OpenAccounted, Range
      <4> QED BY <2>2, <4>1, <4>2
    <3>2. ~KretArmed(call'[t].stack[1])
      BY <1>2, <1>3a, <3>1, Zenon DEF KretArmed
    <3>3. ASSUME NEW i \in DOMAIN call'[t].stack, i # 1 PROVE ~KretArmed(call'[t].stack[i])
      <4>1. i - 1 \in DOMAIN frames /\ call'[t].stack[i] = frames[i - 1]
        BY <1>3, <1>6, <3>3, Zenon
      <4>2. frames # << >>
        BY <4>1
      <4>3. call[t] # Nil /\ frames = call[t].stack
        BY <1>7, <4>2, Zenon
      <4>4. call'[t].stack[i] = call[t].stack[i - 1] /\ i - 1 \in DOMAIN call[t].stack
        BY <4>1, <4>3, Zenon
      <4> QED BY <2>2, <4>3, <4>4, Zenon DEF ScratchTrue
    <3> QED BY <3>2, <3>3, Zenon
  <2> QED BY <1>2, <1>5, <2>1, <2>2, Zenon DEF ScratchTrue, Trusted, KretArmed
<1>15. RingsTrue'
  <2>1. \A u \in Tids : Calls(u) \subseteq Reports'
    <3> TAKE u \in Tids
    <3>1. CASE u = t
      BY <1>7, <3>1, HooksAssumption, Zenon DEF Calls
    <3>2. CASE u # t
      BY <1>2, <1>5, <3>2, CallStays, Zenon
    <3> QED BY <3>1, <3>2
  <2>2. Reports \subseteq Reports'
    BY <1>5, <2>1, ReportsStay
  <2> QED BY <1>5, <2>2, RingsStayTrue, Zenon DEF Trusted
<1>16. Counted'
  <2>1. call'[t].ret # 0
    BY <1>2, HooksAssumption, Zenon
  <2>2. ~call'[t].missed /\ KretArmed(call'[t].stack[1]) => connect_args_map'[t] = sk
    BY <1>3, <1>4 DEF KretArmed
  <2> QED BY <1>2, <2>1, <2>2, Zenon DEF Counted, KretArmed
<1>17. CallsAreReported'
  BY <1>5, Zenon DEF CallsAreReported
<1> QED BY <1>8, <1>9, <1>10, <1>11, <1>12, <1>13, <1>14, <1>15, <1>16, <1>17

LEMMA ConnectKeepsKernelInv ==
  ASSUME AttachInv, KernelInv, NEW t \in Tids, NEW sk \in Socks, Connect(t, sk)
  PROVE  KernelInv'
<1> DEFINE fn == IF socket[sk].family = "AF_INET" THEN "tcp_v4_connect" ELSE "tcp_v6_connect"
<1>1. /\ Enter(t, sk, fn, << >>, FALSE) /\ call[t] = Nil /\ socket[sk].protocol = "IPPROTO_TCP"
      /\ \A u \in Tids : call[u] # Nil => call[u].sk # sk
      /\ UNCHANGED <<owner, socket, state, ring, attachVars, historyVars>>
  BY Zenon DEF Connect
<1>2. fn = "tcp_v4_connect" => socket[sk].remote.ver = 4
  <2>1. IsSocket(socket[sk])
    BY HooksAssumption, Zenon DEF KernelInv, TypeOK
  <2> QED BY <2>1, Zenon DEF IsSocket
<1>3. fn \in Fns
  BY DEF Fns
<1> HIDE DEF fn
<1>4. << >> \in Seq(Frames) /\ FALSE \in BOOLEAN
  OBVIOUS
<1>5. EnteredFrom(t, sk, fn, << >>, FALSE)
  BY <1>1, <1>2, Zenon DEF EnteredFrom
<1> QED BY <1>1, <1>3, <1>4, <1>5, EnterKeepsKernelInv, Zenon

LEMMA NestKeepsKernelInv ==
  ASSUME AttachInv, KernelInv, NEW t \in Tids, Nest(t)
  PROVE  KernelInv'
<1>1. /\ call[t] # Nil /\ call[t].ret = Nil /\ ~Innermost(t)
      /\ Enter(t, call[t].sk, "tcp_v4_connect", call[t].stack, call[t].missed)
      /\ UNCHANGED <<owner, socket, state, ring, attachVars, historyVars>>
  BY Zenon DEF Nest, Deciding
<1>2. call[t] \in ConnectCalls
  BY <1>1, Zenon DEF KernelInv, TypeOK
<1>3. /\ call[t].sk \in Socks /\ call[t].stack \in Seq(Frames) /\ call[t].stack # << >>
      /\ call[t].missed \in BOOLEAN
  BY <1>2 DEF ConnectCalls
<1>4. Top(t) = call[t].stack[1] /\ Top(t).fn \in Fns
  <2>1. Top(t) = call[t].stack[1] /\ Top(t) \in Frames
    BY <1>3, SMTT(30) DEF Top
  <2> QED BY <2>1, Zenon DEF Frames
<1>5. Top(t).fn = "tcp_v6_connect" /\ socket[call[t].sk].remote.ver = 4
  BY <1>1, <1>4, Zenon DEF KernelInv, Nested, NestedCall, Innermost, Fns
<1>6. Len(call[t].stack) = 1 /\ socket[call[t].sk].protocol = "IPPROTO_TCP"
  BY <1>1, <1>4, <1>5, Zenon DEF KernelInv, Nested, NestedCall
<1>7. PICK sk \in Socks : sk = call[t].sk
  BY <1>3
<1>8. PICK frames \in Seq(Frames) : frames = call[t].stack
  BY <1>3
<1>9. PICK missed \in BOOLEAN : missed = call[t].missed
  BY <1>3
<1>10. Enter(t, sk, "tcp_v4_connect", frames, missed)
  BY <1>1, <1>7, <1>8, <1>9, Zenon
<1>11. "tcp_v4_connect" \in Fns
  BY SMTT(30) DEF Fns
<1>12. EnteredFrom(t, sk, "tcp_v4_connect", frames, missed)
  BY <1>1, <1>4, <1>5, <1>6, <1>7, <1>8, <1>9, Zenon DEF EnteredFrom
<1> QED BY <1>7, <1>8, <1>9, <1>10, <1>11, <1>12, EnterKeepsKernelInv, Zenon

-----------------------------------------------------------------------------
(* Events. *)

(* An address is decoded to itself: from its four bytes, whatever follows     *)
(* them in the memory of the ring, and from its IPv6 form.                   *)
LEMMA AddrDecodes ==
  ASSUME NEW a, IsAddr(a)
  PROVE  /\ a.ver = 4 => \A s : addrFromEventBytes(4, [head |-> a.head, tail |-> s]) = a
         /\ addrFromEventBytes(6, Bytes(a)) = a
<1>1. CASE a = V4(a.head)
  <2>1. a.ver = 4
    BY <1>1 DEF V4
  <2>2. \A s : addrFromEventBytes(4, [head |-> a.head, tail |-> s]) = a
    BY <1>1 DEF addrFromEventBytes
  <2>3. Bytes(a) = [head |-> 0, tail |-> <<"mapped", a.head>>]
    BY <2>1 DEF Bytes
  <2>4. addrFromEventBytes(6, Bytes(a)) = V4(a.head)
    BY <2>3 DEF addrFromEventBytes, Unmap
  <2> QED BY <1>1, <2>2, <2>4
<1>2. CASE a = V6(a.head, a.tail[2])
  <2>1. a.ver = 6 /\ a.tail = <<"native", a.tail[2]>> /\ a = [ver |-> 6, head |-> a.head, tail |-> a.tail]
    BY <1>2 DEF V6
  <2>2. Bytes(a) = [head |-> a.head, tail |-> a.tail]
    BY <2>1 DEF Bytes
  <2>3. a.tail[1] = "native"
    BY <2>1
  <2>4. addrFromEventBytes(6, Bytes(a)) = [ver |-> 6, head |-> a.head, tail |-> a.tail]
    BY <2>2, <2>3 DEF addrFromEventBytes, Unmap
  <2> QED BY <2>1, <2>4
<1> QED BY <1>1, <1>2, Zenon DEF IsAddr

(* handleEvent decodes the addresses of an event to those of its socket, when  *)
(* fill_addrs_v4 is used for IPv4 ones only.                                 *)
LEMMA EventDecodes ==
  ASSUME TypeOK, NEW sk \in Socks, NEW addrs, NEW pid, NEW st, NEW port, NEW bound \in BOOLEAN,
         \/ addrs \in fill_addrs_v4(sk) /\ socket[sk].remote.ver = 4
         \/ addrs \in fill_addrs_v6(sk),
         port = IF bound THEN socket[sk].num ELSE 0
  PROVE  keyFrom(Event(sk, pid, st, port, ntohs(socket[sk].dport), addrs)) = KeyOf(sk, bound)
<1>1. IsAddr(socket[sk].local) /\ IsAddr(socket[sk].remote) /\ socket[sk].local.ver = socket[sk].remote.ver
  BY HooksAssumption, Zenon DEF TypeOK, IsSocket
<1>2. PICK local, remote : local = socket[sk].local /\ remote = socket[sk].remote
  OBVIOUS
<1>3. /\ addrFromEventBytes(addrs.ip_ver, addrs.local) = local
      /\ addrFromEventBytes(addrs.ip_ver, addrs.remote) = remote
  <2>1. CASE addrs \in fill_addrs_v4(sk) /\ socket[sk].remote.ver = 4
    <3>1. PICK s \in Stale : addrs = [ip_ver |-> 4, local |-> [head |-> local.head, tail |-> s],
                                      remote |-> [head |-> remote.head, tail |-> s]]
      BY <1>2, <2>1, Zenon DEF fill_addrs_v4
    <3>2. /\ addrs.ip_ver = 4 /\ addrs.local = [head |-> local.head, tail |-> s]
          /\ addrs.remote = [head |-> remote.head, tail |-> s]
      BY <3>1, Zenon
    <3>3. local.ver = 4 /\ remote.ver = 4 /\ IsAddr(local) /\ IsAddr(remote)
      BY <1>1, <1>2, <2>1, Zenon
    <3> QED BY <3>2, <3>3, AddrDecodes, Zenon
  <2>2. CASE addrs \in fill_addrs_v6(sk)
    <3>1. addrs.ip_ver = 6 /\ addrs.local = Bytes(local) /\ addrs.remote = Bytes(remote)
      BY <1>2, <2>2 DEF fill_addrs_v6
    <3>2. IsAddr(local) /\ IsAddr(remote)
      BY <1>1, <1>2, Zenon
    <3> QED BY <3>1, <3>2, AddrDecodes
  <2> QED BY <2>1, <2>2, Zenon
<1> DEFINE ev == Event(sk, pid, st, port, ntohs(socket[sk].dport), addrs)
<1>4. /\ ev.ip_ver = addrs.ip_ver /\ ev.local_addr = addrs.local /\ ev.remote_addr = addrs.remote
      /\ ev.local_port = port /\ ev.remote_port = ntohs(socket[sk].dport)
  BY Zenon DEF Event
<1> HIDE DEF ev
<1>5. keyFrom(ev) = KeyOf(sk, bound)
  BY <1>2, <1>3, <1>4, Zenon DEF keyFrom, KeyOf
<1> QED BY <1>5, Zenon DEF ev

(* One event is submitted to a ring. *)
LEMMA SubmitKeepsRings ==
  ASSUME TypeOK, RingsTyped, RingsTrue, NEW m \in Modes, NEW ev,
         ring' = [ring EXCEPT ![m] = Submit(ring[m], ev)],
         socket' = socket, Reports \subseteq Reports', Trusted' => Trusted,
         IF m = "sockstate" THEN StateEventTrue(ev)' ELSE (m = "kprobe" => Trusted) => ConnectEventTrue(ev)'
  PROVE  RingsTyped' /\ (\A n \in Modes : Len(ring'[n]) <= RingSize) /\ RingsTrue'
<1>1. /\ DOMAIN ring' = Modes /\ ring'[m] = Submit(ring[m], ev) /\ \A n \in Modes \ {m} : ring'[n] = ring[n]
      /\ \A n \in Modes : ring[n] \in Seq(Range(ring[n]))
  BY Zenon DEF RingsTyped
<1>2. \A n \in Modes : Len(ring[n]) <= RingSize
  BY PlanShape, Zenon DEF TypeOK
<1>3. /\ ring'[m] \in Seq(Range(ring'[m])) /\ Len(ring'[m]) <= RingSize
      /\ \A i \in DOMAIN ring'[m] : ring'[m][i] = ev \/ \E j \in DOMAIN ring[m] : ring'[m][i] = ring[m][j]
  <2>1. PICK r : r = ring[m]
    OBVIOUS
  <2> QED BY <1>1, <1>2, <2>1, SubmitShape
<1>4. RingsTyped' /\ \A n \in Modes : Len(ring'[n]) <= RingSize
  BY <1>1, <1>2, <1>3, Zenon DEF RingsTyped
<1>5. ASSUME NEW n \in Modes, NEW i \in DOMAIN ring'[n]
      PROVE  (n = m /\ ring'[n][i] = ev) \/ \E j \in DOMAIN ring[n] : ring'[n][i] = ring[n][j]
  BY <1>1, <1>3, <1>5
<1>6. ASSUME NEW i \in DOMAIN ring'["fentry"] PROVE ConnectEventTrue(ring["fentry"][i])'
  <2>1. PICK e : e = ring'["fentry"][i]
    OBVIOUS
  <2>2. ConnectEventTrue(e)'
    BY <1>5, <1>6, <2>1, EventsStayTrue, Zenon DEF RingsTrue, Modes
  <2> QED BY <2>1, <2>2, Zenon DEF ConnectEventTrue
<1>7. ASSUME NEW i \in DOMAIN ring'["kprobe"], Trusted' PROVE ConnectEventTrue(ring["kprobe"][i])'
  <2>1. PICK e : e = ring'["kprobe"][i]
    OBVIOUS
  <2>2. ConnectEventTrue(e)'
    BY <1>5, <1>7, <2>1, EventsStayTrue, Zenon DEF RingsTrue, Modes
  <2> QED BY <2>1, <2>2, Zenon DEF ConnectEventTrue
<1>8. ASSUME NEW i \in DOMAIN ring'["sockstate"] PROVE StateEventTrue(ring["sockstate"][i])'
  <2>1. PICK e : e = ring'["sockstate"][i]
    OBVIOUS
  <2>2. StateEventTrue(e)'
    BY <1>5, <1>8, <2>1, EventsStayTrue, Zenon DEF RingsTrue, Modes
  <2> QED BY <2>1, <2>2, Zenon DEF StateEventTrue
<1>9. RingsTrue'
  BY <1>6, <1>7, <1>8, Zenon DEF RingsTrue
<1> QED BY <1>4, <1>9

(* The tracepoint submits at most one event, of the socket it is called for. *)
LEMMA TracepointKeepsRings ==
  ASSUME KernelInv, NEW sk \in Socks, NEW cur, NEW newstate, NEW bound \in BOOLEAN,
         tracepoint_inet_sock_set_state(sk, cur, newstate, bound),
         UNCHANGED <<socket, pc, stage>>, Reports \subseteq Reports'
  PROVE  RingsTyped' /\ (\A n \in Modes : Len(ring'[n]) <= RingSize) /\ RingsTrue'
<1> USE DEF KernelInv
<1> DEFINE port == KeyOf(sk, bound).local_port
           event(addrs) == Event(sk, cur, newstate, port, ntohs(socket[sk].dport), addrs)
<1>1. PICK addrs \in IF socket[sk].family = "AF_INET" THEN fill_addrs_v4(sk) ELSE fill_addrs_v6(sk) :
        ring' = IF <<"tracepoint", "inet_sock_set_state">> \in open /\ socket[sk].protocol = "IPPROTO_TCP"
                THEN [ring EXCEPT !["sockstate"] = Submit(@, event(addrs))]
                ELSE ring
  BY Zenon DEF tracepoint_inet_sock_set_state
<1> HIDE DEF port, event
<1>2. Trusted' => Trusted
  BY Zenon DEF Trusted
<1>3. CASE ring' = ring
  <2>1. \A n \in Modes : Len(ring'[n]) <= RingSize
    BY <1>3, PlanShape, Zenon DEF TypeOK
  <2> QED BY <1>2, <1>3, <2>1, RingsStayTrue, Zenon DEF RingsTyped
<1>4. CASE ring' # ring
  <2>1. /\ socket[sk].protocol = "IPPROTO_TCP"
        /\ ring' = [ring EXCEPT !["sockstate"] = Submit(ring["sockstate"], event(addrs))]
    BY <1>1, <1>4, Zenon
  <2>2. \/ addrs \in fill_addrs_v4(sk) /\ socket[sk].remote.ver = 4
        \/ addrs \in fill_addrs_v6(sk)
    <3>1. IsSocket(socket[sk])
      BY HooksAssumption, Zenon DEF TypeOK
    <3> QED BY <1>1, <3>1, Zenon DEF IsSocket
  <2>3. PICK p : p = port
    BY Zenon
  <2>4. p = IF bound THEN socket[sk].num ELSE 0
    BY <2>3, Zenon DEF port, KeyOf
  <2>5. keyFrom(Event(sk, cur, newstate, p, ntohs(socket[sk].dport), addrs)) = KeyOf(sk, bound)
    BY <2>2, <2>4, EventDecodes, Zenon
  <2>6. PICK ev : ev = event(addrs)
    BY Zenon
  <2>7. keyFrom(ev) = KeyOf(sk, bound) /\ ev.skaddr = sk
    BY <2>3, <2>5, <2>6, Zenon DEF event, Event
  <2>8. StateEventTrue(ev)
    BY <2>1, <2>7, Zenon DEF StateEventTrue
  <2>9. StateEventTrue(ev)'
    BY <2>8, EventsStayTrue, Zenon
  <2>10. ring' = [ring EXCEPT !["sockstate"] = Submit(ring["sockstate"], ev)] /\ "sockstate" \in Modes
    BY <2>1, <2>6 DEF Modes
  <2> QED BY <1>2, <2>9, <2>10, SubmitKeepsRings, Zenon
<1> QED BY <1>3, <1>4, Zenon

(* No call but one that gives up changes. *)
CallsGoOn ==
  \A u \in Tids : \/ call'[u] = call[u]
                  \/ /\ call[u] # Nil /\ call'[u] # Nil /\ call'[u].sk = call[u].sk
                     /\ call[u].ret = Nil /\ call'[u].ret = -1
                     /\ call'[u].stack = call[u].stack /\ call'[u].missed = call[u].missed
                     /\ call'[u].dropped = call[u].dropped

(* A socket changes state: TCP_SYN_SENT, giving up, or later. *)
LEMMA StateStepKeepsKernelInv ==
  ASSUME AttachInv, KernelInv, NEW sk \in Socks, NEW cur, NEW newstate, NEW bound \in BOOLEAN,
         tracepoint_inet_sock_set_state(sk, cur, newstate, bound),
         UNCHANGED <<owner, socket, connect_args_map, attachVars, historyVars>>,
         state' \in [Socks -> {"CLOSE", "SYN_SENT", "ESTABLISHED"}],
         call' \in [Tids -> ConnectCalls \cup {Nil}],
         CallsGoOn,
         \A u \in Tids : call'[u] # Nil /\ call'[u].ret = 0 => state'[call'[u].sk] = "SYN_SENT"
  PROVE  KernelInv'
<1> USE DEF KernelInv
<1>0. UNCHANGED <<owner, socket, connect_args_map, pc, stage, open, acquired, consumers, done, unpaired>>
  BY Zenon DEF attachVars, historyVars
<1>1. Reports \subseteq Reports'
  <2>1. ASSUME NEW u \in Tids PROVE Calls(u) \subseteq Reports'
    <3>1. CASE call'[u] = call[u]
      BY <1>0, <3>1, CallStays, Zenon
    <3>2. CASE call[u].ret = Nil
      BY <3>2, HooksAssumption, Zenon DEF Calls
    <3> QED BY <3>1, <3>2, Zenon DEF CallsGoOn
  <2> QED BY <1>0, <2>1, ReportsStay, Zenon
<1>2. RingsTyped' /\ (\A n \in Modes : Len(ring'[n]) <= RingSize) /\ RingsTrue'
  BY <1>0, <1>1, TracepointKeepsRings, Zenon
<1>3. TypeOK'
  <2>1. DOMAIN Plan = Modes
    BY PlanShape, Zenon DEF Modes
  <2> QED BY <1>0, <1>2, <2>1, Zenon DEF TypeOK
<1>4. OneVariant'
  <2>1. (NoFexit' <=> NoFexit) /\ (NoKprobe' <=> NoKprobe) /\ (MapEmpty' <=> MapEmpty) /\ stage' = stage
    BY <1>0, Zenon DEF NoFexit, NoKprobe, MapEmpty
  <2> QED BY <2>1, Zenon DEF OneVariant
<1>5. ASSUME NEW u \in Tids
      PROVE  /\ call'[u] # Nil <=> call[u] # Nil
             /\ call'[u] # Nil => /\ call'[u].sk = call[u].sk /\ call'[u].stack = call[u].stack
                                  /\ call'[u].missed = call[u].missed /\ call'[u].dropped = call[u].dropped
  BY Zenon DEF CallsGoOn
<1>6. ArmedOrMissed'
  <2> SUFFICES ASSUME NEW u \in Tids, call'[u] # Nil, ~call'[u].missed, NEW i \in DOMAIN call'[u].stack
               PROVE  call'[u].stack[i].armed # {}
    BY Zenon DEF ArmedOrMissed
  <2>1. call[u] # Nil /\ ~call[u].missed /\ call'[u].stack = call[u].stack
    BY <1>5, Zenon
  <2> QED BY <2>1, Zenon DEF ArmedOrMissed
<1>7. ScratchAccounted'
  BY <1>0, <1>5, Zenon DEF ScratchAccounted
<1>8. Nested'
  <2>1. \A u \in Tids : call'[u] # Nil => call[u] # Nil /\ call'[u].sk = call[u].sk /\ call'[u].stack = call[u].stack
    BY <1>5, Zenon
  <2>2. socket' = socket
    BY <1>0, Zenon
  <2> QED BY <2>1, <2>2, NestedStays, Zenon
<1>9. ScratchTrue'
  BY <1>0, <1>5, Zenon DEF ScratchTrue, Trusted, KretArmed
<1>10. Counted'
  <2>1. -1 # Nil /\ -1 # 0
    <3>1. -1 # Nil
      BY HooksAssumption, Zenon
    <3>2. -1 # 0
      OBVIOUS
    <3> QED BY <3>1, <3>2, Zenon
  <2> SUFFICES ASSUME NEW u \in Tids, call'[u] # Nil, ~call'[u].missed, ~call'[u].dropped
               PROVE  /\ call'[u].ret = Nil => /\ call'[u].events = 0
                                               /\ KretArmed(call'[u].stack[1]) => connect_args_map'[u] = call'[u].sk
                      /\ call'[u].ret = 0 => Len(call'[u].stack) = 1 /\ call'[u].events = 1
    BY Zenon DEF Counted, KretArmed
  <2>2. CASE call'[u] = call[u]
    BY <1>0, <2>2, Zenon DEF Counted
  <2>3. CASE call'[u].ret = -1
    BY <2>1, <2>3, Zenon
  <2> QED BY <2>2, <2>3, Zenon DEF CallsGoOn
<1>11. CallsAreReported'
  BY <1>0, Zenon DEF CallsAreReported
<1> QED BY <1>2, <1>3, <1>4, <1>6, <1>7, <1>8, <1>9, <1>10, <1>11

LEMMA SynKeepsKernelInv ==
  ASSUME AttachInv, KernelInv, NEW t \in Tids, Syn(t)
  PROVE  KernelInv'
<1>1. /\ call[t] # Nil /\ state[call[t].sk] = "CLOSE"
      /\ state' = [state EXCEPT ![call[t].sk] = "SYN_SENT"] /\ call' = call
      /\ tracepoint_inet_sock_set_state(call[t].sk, owner[t], "SYN_SENT", FALSE)
      /\ UNCHANGED <<owner, socket, connect_args_map, attachVars, historyVars>>
  BY Zenon DEF Syn, Deciding
<1>2. call[t].sk \in Socks
  BY <1>1, Zenon DEF KernelInv, TypeOK, ConnectCalls
<1>3. PICK sk \in Socks : sk = call[t].sk
  BY <1>2
<1>4. PICK cur : cur = owner[t]
  OBVIOUS
<1>5. state' \in [Socks -> {"CLOSE", "SYN_SENT", "ESTABLISHED"}] /\ call' \in [Tids -> ConnectCalls \cup {Nil}]
  BY <1>1, <1>2, Zenon DEF KernelInv, TypeOK
<1>6. ASSUME NEW u \in Tids, call'[u] # Nil, call'[u].ret = 0
      PROVE  state'[call'[u].sk] = "SYN_SENT"
  <2>1. state[call[u].sk] = "SYN_SENT" /\ call[u].sk \in Socks
    <3>1. call[u] # Nil /\ call[u].ret = 0 /\ call[u] \in ConnectCalls
      BY <1>1, <1>6, Zenon DEF KernelInv, TypeOK
    <3> QED BY <3>1, Zenon DEF KernelInv, Nested, NestedCall, ConnectCalls
  <2> QED BY <1>1, <1>2, <2>1, Zenon DEF KernelInv, TypeOK
<1>7. tracepoint_inet_sock_set_state(sk, cur, "SYN_SENT", FALSE) /\ FALSE \in BOOLEAN
  BY <1>1, <1>3, <1>4, Zenon
<1>8. CallsGoOn
  BY <1>1, Zenon DEF CallsGoOn
<1> QED BY <1>1, <1>5, <1>6, <1>7, <1>8, StateStepKeepsKernelInv, Zenon

LEMMA GiveUpKeepsKernelInv ==
  ASSUME AttachInv, KernelInv, NEW t \in Tids, GiveUp(t)
  PROVE  KernelInv'
<1>1. /\ call[t] # Nil /\ call[t].ret = Nil
      /\ state' = [state EXCEPT ![call[t].sk] = "CLOSE"] /\ call' = [call EXCEPT ![t].ret = -1]
      /\ tracepoint_inet_sock_set_state(call[t].sk, owner[t], "CLOSE", FALSE)
      /\ UNCHANGED <<owner, socket, connect_args_map, attachVars, historyVars>>
  BY Zenon DEF GiveUp, Deciding
<1>2. call[t].sk \in Socks /\ call[t] \in ConnectCalls
  BY <1>1, Zenon DEF KernelInv, TypeOK, ConnectCalls
<1>3. PICK sk \in Socks : sk = call[t].sk
  BY <1>2
<1>4. PICK cur : cur = owner[t]
  OBVIOUS
<1>5. /\ call'[t] = [call[t] EXCEPT !.ret = -1] /\ \A u \in Tids \ {t} : call'[u] = call[u]
      /\ DOMAIN call' = Tids
  BY <1>1, Zenon DEF KernelInv, TypeOK
<1>6. call'[t] \in ConnectCalls /\ call'[t] # Nil
  <2>1. call'[t] \in ConnectCalls
    BY <1>2, <1>5 DEF ConnectCalls
  <2> QED BY <2>1, HooksAssumption
<1>7. /\ call'[t].sk = call[t].sk /\ call'[t].ret = -1 /\ call'[t].stack = call[t].stack
      /\ call'[t].missed = call[t].missed /\ call'[t].dropped = call[t].dropped
  BY <1>2, <1>5 DEF ConnectCalls
<1>8. call' \in [Tids -> ConnectCalls \cup {Nil}]
  BY <1>1, <1>5, <1>6, Zenon DEF KernelInv, TypeOK
<1>9. state' \in [Socks -> {"CLOSE", "SYN_SENT", "ESTABLISHED"}]
  BY <1>1, <1>2, Zenon DEF KernelInv, TypeOK
<1>10. ASSUME NEW u \in Tids, call'[u] # Nil, call'[u].ret = 0
       PROVE  state'[call'[u].sk] = "SYN_SENT"
  <2>1. u # t
    BY <1>7, <1>10
  <2>2. call[u] # Nil /\ call'[u] = call[u] /\ call[u].sk # call[t].sk /\ state[call[u].sk] = "SYN_SENT"
    BY <1>1, <1>5, <1>10, <2>1 DEF KernelInv, Nested, NestedCall
  <2>3. call[u].sk \in Socks
    BY <2>2, Zenon DEF KernelInv, TypeOK, ConnectCalls
  <2> QED BY <1>1, <1>2, <2>2, <2>3, Zenon DEF KernelInv, TypeOK
<1>11. CallsGoOn
  BY <1>1, <1>5, <1>6, <1>7, Zenon DEF CallsGoOn
<1>12. tracepoint_inet_sock_set_state(sk, cur, "CLOSE", FALSE) /\ FALSE \in BOOLEAN
  BY <1>1, <1>3, <1>4, Zenon
<1> QED BY <1>1, <1>8, <1>9, <1>10, <1>11, <1>12, StateStepKeepsKernelInv, Zenon

LEMMA SetStateKeepsKernelInv ==
  ASSUME AttachInv, KernelInv, NEW sk \in Socks, NEW cur \in Pids, NEW st \in {"ESTABLISHED", "CLOSE"},
         SetState(sk, cur, st)
  PROVE  KernelInv'
<1>1. /\ \A t \in Tids : call[t] # Nil => call[t].sk # sk
      /\ state' = [state EXCEPT ![sk] = st] /\ call' = call
      /\ tracepoint_inet_sock_set_state(sk, cur, st, TRUE)
      /\ UNCHANGED <<owner, socket, connect_args_map, attachVars, historyVars>>
  BY Zenon DEF SetState
<1>2. state' \in [Socks -> {"CLOSE", "SYN_SENT", "ESTABLISHED"}] /\ call' \in [Tids -> ConnectCalls \cup {Nil}]
  BY <1>1, Zenon DEF KernelInv, TypeOK
<1>3. ASSUME NEW u \in Tids, call'[u] # Nil, call'[u].ret = 0
      PROVE  state'[call'[u].sk] = "SYN_SENT"
  <2>1. state[call[u].sk] = "SYN_SENT" /\ call[u].sk \in Socks /\ call[u].sk # sk
    <3>1. call[u] # Nil /\ call[u].ret = 0 /\ call[u] \in ConnectCalls
      BY <1>1, <1>3, Zenon DEF KernelInv, TypeOK
    <3> QED BY <1>1, <3>1, Zenon DEF KernelInv, Nested, NestedCall, ConnectCalls
  <2> QED BY <1>1, <2>1, Zenon DEF KernelInv, TypeOK
<1>4. TRUE \in BOOLEAN
  OBVIOUS
<1>5. CallsGoOn
  BY <1>1, Zenon DEF CallsGoOn
<1> QED BY <1>1, <1>2, <1>3, <1>4, <1>5, StateStepKeepsKernelInv, Zenon

LEMMA RecycleKeepsKernelInv ==
  ASSUME AttachInv, KernelInv, NEW t \in Tids, NEW p \in Pids, Recycle(t, p)
  PROVE  KernelInv'
<1> USE DEF KernelInv
<1>1. /\ call[t] = Nil /\ owner' = [owner EXCEPT ![t] = p]
      /\ UNCHANGED <<socket, state, call, ncalls, connect_args_map, ring, pc, stage, open, acquired, closers,
                     rings, todo, consumers, done, unpaired>>
  BY Zenon DEF Recycle, attachVars, historyVars
<1>2. TypeOK' /\ RingsTyped'
  BY <1>1, Zenon DEF TypeOK, RingsTyped
<1>3. OneVariant' /\ ArmedOrMissed' /\ ScratchAccounted'
  BY <1>1, Zenon DEF OneVariant, NoFexit, NoKprobe, MapEmpty, ArmedOrMissed, ScratchAccounted
<1>4. Nested' /\ Counted' /\ CallsAreReported'
  <2>1. Nested'
    <3>1. socket' = socket /\ state' = state /\ call' = call
      BY <1>1, Zenon
    <3>2. \A u \in Tids : call'[u] # Nil /\ call'[u].ret = 0 => state'[call'[u].sk] = "SYN_SENT"
      BY <3>1, Zenon DEF Nested, NestedCall
    <3> QED BY <3>1, <3>2, NestedStays, Zenon
  <2>2. Counted'
    BY <1>1, Zenon DEF Counted, KretArmed
  <2>3. CallsAreReported'
    BY <1>1, Zenon DEF CallsAreReported
  <2> QED BY <2>1, <2>2, <2>3
<1>5. ScratchTrue'
  BY <1>1, Zenon DEF ScratchTrue, Trusted, KretArmed
<1>6. ASSUME NEW u \in Tids PROVE Calls(u) \subseteq Reports'
  <2>1. CASE u = t
    BY <1>1, <2>1, Zenon DEF Calls
  <2>2. CASE u # t
    <3>1. owner'[u] = owner[u]
      BY <1>1, <2>2, Zenon DEF TypeOK
    <3>2. Report(u)' = Report(u)
      BY <1>1, <3>1, Zenon DEF Report, KeyOf
    <3>3. Calls(u)' = Calls(u)
      BY <1>1, <3>2, Zenon DEF Calls
    <3> QED BY <3>3 DEF Reports
  <2> QED BY <2>1, <2>2
<1>7. Reports \subseteq Reports'
  BY <1>1, <1>6, ReportsStay
<1>8. RingsTrue'
  BY <1>1, <1>7, RingsStayTrue, Zenon DEF Trusted
<1> QED BY <1>2, <1>3, <1>4, <1>5, <1>8

-----------------------------------------------------------------------------
(* Returning. *)

(* How many connect events a step has submitted. *)
Submitted == Len(ring'["fentry"]) + Len(ring'["kprobe"]) - Len(ring["fentry"]) - Len(ring["kprobe"])

LEMMA OneMore ==
  ASSUME NEW a \in Nat, NEW b \in Nat
  PROVE  (a + 1) + b - a - b = 1
OBVIOUS

(* The call a thread returns from. *)
LEMMA CallShape ==
  ASSUME TypeOK, Nested, NEW t \in Tids, call[t] # Nil
  PROVE  /\ call[t] \in ConnectCalls /\ call[t].sk \in Socks /\ call[t].ret \in {0, -1, Nil}
         /\ call[t].missed \in BOOLEAN /\ call[t].dropped \in BOOLEAN /\ call[t].events \in Int
         /\ call[t].stack \in Seq(Frames) /\ call[t].stack # << >> /\ Top(t) = call[t].stack[1]
         /\ Top(t) \in Frames /\ 1 \in DOMAIN call[t].stack
         /\ Top(t).armed \subseteq ReturnHooks(Top(t).fn) /\ Top(t).fn \in Fns
         /\ IsSocket(socket[call[t].sk])
         /\ Tail(call[t].stack) # << >> =>
              /\ Len(call[t].stack) = 2 /\ Len(Tail(call[t].stack)) = 1
              /\ Tail(call[t].stack) \in Seq(Frames) /\ DOMAIN Tail(call[t].stack) = {1}
              /\ Tail(call[t].stack)[1] = call[t].stack[2] /\ 2 \in DOMAIN call[t].stack
              /\ call[t].stack[2].fn = "tcp_v6_connect"
<1>1. call[t] \in ConnectCalls
  BY DEF TypeOK
<1>2. /\ call[t].sk \in Socks /\ call[t].ret \in {0, -1, Nil} /\ call[t].missed \in BOOLEAN
      /\ call[t].dropped \in BOOLEAN /\ call[t].events \in Int
      /\ call[t].stack \in Seq(Frames) /\ call[t].stack # << >>
  BY <1>1, Zenon DEF ConnectCalls
<1>3. Top(t) = call[t].stack[1] /\ Top(t) \in Frames /\ 1 \in DOMAIN call[t].stack
  BY <1>2 DEF Top
<1>4. Top(t).armed \subseteq ReturnHooks(Top(t).fn) /\ Top(t).fn \in Fns
  BY <1>3, Zenon DEF Frames
<1>5. IsSocket(socket[call[t].sk])
  BY <1>2, HooksAssumption, Zenon DEF TypeOK
<1>6. ASSUME Tail(call[t].stack) # << >>
      PROVE  /\ Len(call[t].stack) = 2 /\ Len(Tail(call[t].stack)) = 1
             /\ Tail(call[t].stack) \in Seq(Frames) /\ DOMAIN Tail(call[t].stack) = {1}
             /\ Tail(call[t].stack)[1] = call[t].stack[2] /\ 2 \in DOMAIN call[t].stack
             /\ call[t].stack[2].fn = "tcp_v6_connect"
  <2>0. PICK s \in Seq(Frames) : s = call[t].stack
    BY <1>2
  <2>1. Len(s) = 1 \/ (Len(s) = 2 /\ s[2].fn = "tcp_v6_connect")
    BY <2>0, Zenon DEF Nested, NestedCall
  <2>2. Tail(s) \in Seq(Frames) /\ Len(Tail(s)) = Len(s) - 1 /\ Tail(s) # << >> /\ s # << >>
    BY <1>2, <1>6, <2>0
  <2>3. Len(Tail(s)) # 0
    <3>1. \A q \in Seq(Frames) : q # << >> => Len(q) \in Nat \ {0}
      BY EmptySeq
    <3> QED BY <2>2, <3>1
  <2>4. Len(s) = 2 /\ Len(Tail(s)) = 1
    BY <2>0, <2>1, <2>2, <2>3
  <2>5. DOMAIN Tail(s) = 1 .. 1 /\ DOMAIN s = 1 .. 2
    <3>1. DOMAIN Tail(s) = 1 .. Len(Tail(s))
      BY <2>2, LenProperties
    <3>2. DOMAIN s = 1 .. Len(s)
      BY <2>0, LenProperties
    <3> QED BY <2>4, <3>1, <3>2, Zenon
  <2>6. Tail(s)[1] = s[2]
    BY <2>0, <2>4
  <2>7. 1 .. 1 = {1} /\ 2 \in 1 .. 2
    OBVIOUS
  <2> QED BY <2>0, <2>1, <2>2, <2>4, <2>5, <2>6, <2>7
<1> QED BY <1>1, <1>2, <1>3, <1>4, <1>5, <1>6, Zenon

(* A return hook reports its own call, if any; and submits at most one event. *)
LEMMA ReturnHookStep ==
  ASSUME AttachInv, KernelInv, NEW t \in Tids, NEW ret \in {0, -1}, MayReturn(t, ret),
         NEW h \in Top(t).armed \cap open, ReturnHook(t, h, ret), UNCHANGED <<socket, pc, stage>>,
         Reports \subseteq Reports', ret = 0 => Report(t) \in Reports'
  PROVE  /\ RingsTyped' /\ (\A n \in Modes : Len(ring'[n]) <= RingSize) /\ RingsTrue'
         /\ connect_args_map' \in [Tids -> Socks \cup {Nil}]
         /\ \A u \in Tids \ {t} : connect_args_map'[u] = connect_args_map[u]
         /\ connect_args_map'[t] = Nil
         /\ Submitted \in {0, 1}
         /\ ret = 0 /\ Found(t, h) # Nil /\ HasRoom(ring[RingOf(h)]) => Submitted = 1
<1> USE DEF KernelInv
<1>1. call[t] # Nil
  BY Zenon DEF MayReturn
<1>2. /\ call[t].sk \in Socks /\ Top(t) = call[t].stack[1] /\ 1 \in DOMAIN call[t].stack
      /\ Top(t).fn \in Fns /\ h \in {<<"fexit", Top(t).fn>>, <<"kretprobe", Top(t).fn>>}
  BY <1>1, CallShape, Zenon DEF ReturnHooks
<1>3. /\ h[1] \in {"fexit", "kretprobe"} /\ h[2] = Top(t).fn
      /\ h = <<"fexit", Top(t).fn>> <=> h[1] = "fexit"
      /\ h = <<"kretprobe", Top(t).fn>> <=> h[1] = "kretprobe"
  BY <1>2
<1>4. PICK m \in {"fentry", "kprobe"} : m = RingOf(h)
  BY DEF RingOf
<1>5. m \in Modes /\ m # "sockstate" /\ (m = "kprobe" => h[1] = "kretprobe")
  BY <1>3, <1>4 DEF Modes, RingOf
<1>6. /\ connect_args_map' \in [Tids -> Socks \cup {Nil}]
      /\ \A u \in Tids \ {t} : connect_args_map'[u] = connect_args_map[u]
      /\ connect_args_map'[t] = Nil
  <2>1. CASE h[1] = "kretprobe"
    BY <2>1, Zenon DEF ReturnHook, deleted, TypeOK
  <2>2. CASE h[1] = "fexit"
    <3>1. connect_args_map' = connect_args_map
      BY <2>2, Zenon DEF ReturnHook, deleted
    <3>2. ~NoFexit
      BY <1>2, <1>3, <2>2, Zenon DEF NoFexit
    <3> QED BY <3>1, <3>2, Zenon DEF OneVariant, MapEmpty, TypeOK
  <2> QED BY <1>3, <2>1, <2>2, Zenon
<1>7. \A n \in Modes : ring[n] \in Seq(Range(ring[n])) /\ Len(ring[n]) \in Nat /\ Len(ring[n]) <= RingSize
  <2> TAKE n \in Modes
  <2>1. ring[n] \in Seq(Range(ring[n])) /\ Len(ring[n]) <= RingSize
    BY PlanShape, Zenon DEF RingsTyped, TypeOK
  <2>2. PICK r, S : r = ring[n] /\ S = Range(ring[n])
    BY Zenon
  <2>3. r \in Seq(S)
    BY <2>1, <2>2, Zenon
  <2>4. Len(r) \in Nat
    BY <2>3
  <2> QED BY <2>1, <2>2, <2>4, Zenon
<1>8. Trusted' => Trusted
  BY DEF Trusted
<1>9. CASE ~(ret = 0 /\ Found(t, h) # Nil)
  <2>1. ring' = ring
    BY <1>9, Zenon DEF ReturnHook
  <2>2. RingsTyped' /\ (\A n \in Modes : Len(ring'[n]) <= RingSize) /\ RingsTrue'
    BY <1>7, <1>8, <2>1, RingsStayTrue DEF RingsTyped
  <2>3. Submitted = 0
    <3>1. PICK a \in Nat, b \in Nat : a = Len(ring["fentry"]) /\ b = Len(ring["kprobe"])
      BY <1>7, Zenon DEF Modes
    <3>2. Submitted = a + b - a - b
      BY <2>1, <3>1, Zenon DEF Submitted
    <3> QED BY <3>2
  <2> QED BY <1>6, <1>9, <2>2, <2>3
<1>10. CASE ret = 0 /\ Found(t, h) # Nil
  <2>1. PICK sk : sk = Found(t, h)
    OBVIOUS
  <2>2. PICK ev \in ConnectEvents(sk, owner[t], IpVer(h[2])) : ring' = [ring EXCEPT ![m] = Submit(ring[m], ev)]
    BY <1>4, <1>10, <2>1, Zenon DEF ReturnHook
  <2>3. ASSUME m = "kprobe" => Trusted PROVE ConnectEventTrue(ev)'
    <3>1. sk = call[t].sk
      <4>1. CASE h[1] = "fexit"
        BY <2>1, <4>1 DEF Found
      <4>2. CASE h[1] = "kretprobe"
        <5>1. Trusted
          BY <1>4, <2>3, <4>2 DEF RingOf
        <5>2. KretArmed(call[t].stack[1])
          BY <1>2, <1>3, <4>2, Zenon DEF KretArmed
        <5>3. connect_args_map[t] \in {Nil, call[t].sk}
          BY <1>1, <1>2, <5>1, <5>2, Zenon DEF ScratchTrue
        <5> QED BY <1>10, <2>1, <4>2, <5>3 DEF Found
      <4> QED BY <1>3, <4>1, <4>2
    <3>2. PICK addrs \in IF IpVer(h[2]) = 4 THEN fill_addrs_v4(sk) ELSE fill_addrs_v6(sk) :
            ev = Event(sk, owner[t], state[sk], socket[sk].num, ntohs(socket[sk].dport), addrs)
      BY <2>2, Zenon DEF ConnectEvents
    <3>3. \/ addrs \in fill_addrs_v4(sk) /\ socket[sk].remote.ver = 4
          \/ addrs \in fill_addrs_v6(sk)
      <4>1. CASE h[2] = "tcp_v4_connect"
        BY <1>1, <1>2, <1>3, <3>1, <3>2, <4>1, Zenon DEF IpVer, Nested, NestedCall
      <4>2. CASE h[2] # "tcp_v4_connect"
        <5>1. IpVer(h[2]) # 4
          BY <4>2 DEF IpVer
        <5> QED BY <3>2, <5>1, Zenon
      <4> QED BY <4>1, <4>2, Zenon
    <3>4. PICK pid, st, port : pid = owner[t] /\ st = state[sk] /\ port = socket[sk].num
      BY Zenon
    <3>5. sk \in Socks /\ port = (IF TRUE THEN socket[sk].num ELSE 0) /\ TRUE \in BOOLEAN
      BY <1>2, <3>1, <3>4, Zenon
    <3>6. keyFrom(ev) = KeyOf(sk, TRUE)
      BY <3>2, <3>3, <3>4, <3>5, EventDecodes, Zenon
    <3>7. ev.skaddr = sk /\ ev.pid = owner[t] /\ ev.new_state = state[sk]
      BY <3>2, Zenon DEF Event
    <3>8. state[sk] = "SYN_SENT"
      <4>1. call[t] # Nil /\ IF call[t].ret # Nil THEN 0 = call[t].ret
                             ELSE 0 = IF state[call[t].sk] = "SYN_SENT" THEN 0 ELSE -1
        BY <1>10, Zenon DEF MayReturn
      <4>2. call[t].ret = 0 => state[call[t].sk] = "SYN_SENT"
        BY <1>1, <4>1, Zenon DEF Nested, NestedCall
      <4> QED BY <3>1, <4>1, <4>2, NotMinusOne, Zenon
    <3>9. [sk |-> ev.skaddr, pid |-> ev.pid, key |-> keyFrom(ev)] \in Reports'
      BY <1>10, <3>1, <3>6, <3>7, Zenon DEF Report
    <3>10. keyFrom(ev)' = keyFrom(ev)
      BY Zenon DEF keyFrom, addrFromEventBytes, Unmap
    <3> QED BY <3>7, <3>8, <3>9, <3>10, Zenon DEF ConnectEventTrue
  <2>4. RingsTyped' /\ (\A n \in Modes : Len(ring'[n]) <= RingSize) /\ RingsTrue'
    BY <1>5, <1>8, <2>2, <2>3, SubmitKeepsRings, Zenon
  <2>5. /\ ring'[m] = Submit(ring[m], ev) /\ \A n \in Modes \ {m} : ring'[n] = ring[n]
    BY <1>5, <2>2 DEF RingsTyped
  <2>6. Len(ring'[m]) = IF HasRoom(ring[m]) THEN Len(ring[m]) + 1 ELSE Len(ring[m])
    <3>1. ring[m] \in Seq(Range(ring[m])) /\ Len(ring[m]) <= RingSize
      BY <1>5, <1>7, Zenon
    <3>2. Len(Submit(ring[m], ev)) = IF HasRoom(ring[m]) THEN Len(ring[m]) + 1 ELSE Len(ring[m])
      BY <3>1, SubmitShape, Zenon
    <3> QED BY <2>5, <3>2, Zenon
  <2>7. Submitted = IF HasRoom(ring[m]) THEN 1 ELSE 0
    <3>1. Len(ring["fentry"]) \in Nat /\ Len(ring["kprobe"]) \in Nat
      BY <1>7 DEF Modes
    <3>2. CASE m = "fentry"
      <4>1. ring'["kprobe"] = ring["kprobe"]
        BY <2>5, <3>2 DEF Modes
      <4>2. Len(ring'["fentry"]) = IF HasRoom(ring["fentry"]) THEN Len(ring["fentry"]) + 1 ELSE Len(ring["fentry"])
        BY <2>6, <3>2
      <4>3. CASE HasRoom(ring["fentry"])
        <5>1. Len(ring'["fentry"]) = Len(ring["fentry"]) + 1 /\ Len(ring'["kprobe"]) = Len(ring["kprobe"])
          BY <4>1, <4>2, <4>3
        <5>2. PICK a \in Nat, b \in Nat : a = Len(ring["fentry"]) /\ b = Len(ring["kprobe"])
          BY <3>1
        <5>3. Submitted = (a + 1) + b - a - b
          BY <5>1, <5>2 DEF Submitted
        <5>4. (a + 1) + b - a - b = 1
          BY <5>2, OneMore, Zenon
        <5>5. Submitted = 1
          BY <5>3, <5>4
        <5> QED BY <3>2, <4>3, <5>5
      <4>4. CASE ~HasRoom(ring["fentry"])
        <5>1. Len(ring'["fentry"]) = Len(ring["fentry"]) /\ Len(ring'["kprobe"]) = Len(ring["kprobe"])
          BY <4>1, <4>2, <4>4
        <5>2. Submitted = 0
          BY <3>1, <5>1 DEF Submitted
        <5> QED BY <3>2, <4>4, <5>2
      <4> QED BY <4>3, <4>4
    <3>3. CASE m = "kprobe"
      <4>1. ring'["fentry"] = ring["fentry"]
        BY <2>5, <3>3 DEF Modes
      <4>2. Len(ring'["kprobe"]) = IF HasRoom(ring["kprobe"]) THEN Len(ring["kprobe"]) + 1 ELSE Len(ring["kprobe"])
        BY <2>6, <3>3
      <4>3. CASE HasRoom(ring["kprobe"])
        <5>1. Len(ring'["kprobe"]) = Len(ring["kprobe"]) + 1 /\ Len(ring'["fentry"]) = Len(ring["fentry"])
          BY <4>1, <4>2, <4>3
        <5>2. Submitted = 1
          BY <3>1, <5>1 DEF Submitted
        <5> QED BY <3>3, <4>3, <5>2
      <4>4. CASE ~HasRoom(ring["kprobe"])
        <5>1. Len(ring'["kprobe"]) = Len(ring["kprobe"]) /\ Len(ring'["fentry"]) = Len(ring["fentry"])
          BY <4>1, <4>2, <4>4
        <5>2. Submitted = 0
          BY <3>1, <5>1 DEF Submitted
        <5> QED BY <3>3, <4>4, <5>2
      <4> QED BY <4>3, <4>4
    <3> QED BY <3>2, <3>3
  <2> QED BY <1>4, <1>6, <2>4, <2>7, Zenon
<1> QED BY <1>9, <1>10, Zenon

(* The last function of a call, or the inner one of two, returns. *)
LEMMA ReturnKeepsKernelInv ==
  ASSUME AttachInv, KernelInv, NEW t \in Tids, NEW ret \in {0, -1}, Return(t, ret)
  PROVE  KernelInv'
<1> USE DEF KernelInv
<1> DEFINE fired == Top(t).armed \cap open
           outer == Tail(call[t].stack)
           missed == call[t].missed \/ fired # Top(t).armed
           dropped == call[t].dropped \/ \E h \in fired : ~HasRoom(ring[RingOf(h)])
           events == call[t].events + Submitted
           new == [sk |-> call[t].sk, ret |-> ret, missed |-> missed, dropped |-> dropped,
                   events |-> events, stack |-> outer]
           entry == [report |-> Report(t), missed |-> missed, dropped |-> dropped, events |-> events]
<1>1. /\ MayReturn(t, ret) /\ call[t] # Nil
      /\ IF fired = {} THEN UNCHANGED <<ring, connect_args_map>>
                       ELSE \E h \in fired : ReturnHook(t, h, ret)
      /\ UNCHANGED <<owner, socket, state, pc, stage, open, acquired, consumers>>
  BY Zenon DEF Return, MayReturn, attachVars
<1>2. outer = << >> =>
        /\ call' = [call EXCEPT ![t] = Nil]
        /\ unpaired' = IF missed THEN unpaired \cup {t} ELSE unpaired \ {t}
        /\ done' = IF ret # 0 THEN done ELSE done \cup {entry}
  BY Zenon DEF Return, Submitted
<1>3. outer # << >> => call' = [call EXCEPT ![t] = new] /\ unpaired' = unpaired /\ done' = done
  BY Zenon DEF Return, Submitted
<1>4. /\ call[t] \in ConnectCalls /\ call[t].sk \in Socks /\ call[t].ret \in {0, -1, Nil}
      /\ call[t].missed \in BOOLEAN /\ call[t].dropped \in BOOLEAN /\ call[t].events \in Int
      /\ Top(t) = call[t].stack[1] /\ 1 \in DOMAIN call[t].stack
      /\ Top(t).armed \subseteq ReturnHooks(Top(t).fn) /\ Top(t).fn \in Fns
  BY <1>1, CallShape, Zenon
<1>5. outer # << >> =>
        /\ Len(call[t].stack) = 2 /\ Len(outer) = 1 /\ outer \in Seq(Frames) /\ DOMAIN outer = {1}
        /\ outer[1] = call[t].stack[2] /\ 2 \in DOMAIN call[t].stack /\ outer[1].fn = "tcp_v6_connect"
  BY <1>1, CallShape, Zenon
<1>6. missed \in BOOLEAN /\ dropped \in BOOLEAN
  BY Zenon
<1>7. /\ new.sk = call[t].sk /\ new.ret = ret /\ new.missed = missed /\ new.dropped = dropped
      /\ new.events = events /\ new.stack = outer
      /\ entry.report = Report(t) /\ entry.missed = missed /\ entry.dropped = dropped
      /\ entry.events = events
  BY Zenon
<1>8. /\ DOMAIN call = Tids /\ (outer = << >> => call'[t] = Nil) /\ (outer # << >> => call'[t] = new)
      /\ \A u \in Tids \ {t} : call'[u] = call[u]
  BY <1>2, <1>3, Zenon DEF TypeOK
<1>9. events = call[t].events + Submitted /\ events \in Int
  <2>1. \A n \in Modes : ring[n] \in Seq(Range(ring[n])) /\ Len(ring[n]) \in Nat /\ Len(ring[n]) <= RingSize
    BY PlanShape DEF RingsTyped, TypeOK
  <2>2. ring' = ring \/ \E m \in Modes : \E ev : ring' = [ring EXCEPT ![m] = Submit(ring[m], ev)]
    <3>1. CASE fired # {}
      <4>1. PICK h \in fired : ReturnHook(t, h, ret)
        BY <1>1, <3>1
      <4>2. RingOf(h) \in Modes
        BY DEF RingOf, Modes
      <4> QED BY <4>1, <4>2 DEF ReturnHook
    <3> QED BY <1>1, <3>1, Zenon
  <2>3. ASSUME NEW m \in Modes, NEW ev, ring' = [ring EXCEPT ![m] = Submit(ring[m], ev)]
        PROVE  \A n \in Modes : Len(ring'[n]) \in Nat
    <3>1. ring'[m] = Submit(ring[m], ev) /\ \A n \in Modes \ {m} : ring'[n] = ring[n]
      BY <2>3 DEF RingsTyped
    <3>2. PICK r : r = ring[m]
      OBVIOUS
    <3>3. Len(Submit(r, ev)) \in Nat
      BY <2>1, <3>2, SubmitShape
    <3> QED BY <2>1, <3>1, <3>2, <3>3
  <2>4. \A n \in Modes : Len(ring'[n]) \in Nat /\ Len(ring[n]) \in Nat
    BY <2>1, <2>2, <2>3
  <2>5. Submitted \in Int
    BY <2>4 DEF Submitted, Modes
  <2> QED BY <1>4, <2>5
<1> HIDE DEF fired, outer, missed, dropped, events, new, entry
<1>10. outer # << >> => new \in ConnectCalls /\ new # Nil
  <2> SUFFICES ASSUME outer # << >> PROVE new \in ConnectCalls /\ new # Nil
    OBVIOUS
  <2>1. new \in ConnectCalls
    BY <1>4, <1>5, <1>6, <1>9, Zenon DEF ConnectCalls, new
  <2> QED BY <2>1, HooksAssumption
<1>11. call[t].ret = 0 => ret = 0
  BY <1>1, HooksAssumption, Zenon DEF MayReturn
<1>12. ret = 0 => Report(t) \in Reports'
  <2>1. CASE outer = << >>
    BY <1>2, <1>7, <2>1 DEF Reports
  <2>2. CASE outer # << >>
    <3>1. call'[t].sk = call[t].sk /\ call'[t].ret = ret /\ call'[t] # Nil
      BY <1>7, <1>8, <1>10, <2>2
    <3>2. Report(t)' = Report(t)
      BY <1>1, <3>1, Zenon DEF Report, KeyOf
    <3>3. ret = 0 => Calls(t)' = {Report(t)}
      BY <3>1, <3>2 DEF Calls
    <3> QED BY <3>3 DEF Reports
  <2> QED BY <2>1, <2>2
<1>13. Reports \subseteq Reports'
  <2>1. done \subseteq done'
    BY <1>2, <1>3
  <2>2. ASSUME NEW u \in Tids PROVE Calls(u) \subseteq Reports'
    <3>1. CASE u = t
      BY <1>11, <1>12, <3>1 DEF Calls
    <3>2. CASE u # t
      BY <1>1, <1>8, <3>2, CallStays
    <3> QED BY <3>1, <3>2
  <2> QED BY <2>1, <2>2, ReportsStay
<1>14. /\ RingsTyped' /\ (\A n \in Modes : Len(ring'[n]) <= RingSize) /\ RingsTrue'
       /\ connect_args_map' \in [Tids -> Socks \cup {Nil}]
       /\ \A u \in Tids \ {t} : connect_args_map'[u] = connect_args_map[u]
       /\ connect_args_map'[t] \in {connect_args_map[t], Nil}
       /\ fired # {} => connect_args_map'[t] = Nil
       /\ Submitted \in {0, 1}
  <2>1. CASE fired = {}
    <3>1. ring' = ring /\ connect_args_map' = connect_args_map
      BY <1>1, <2>1
    <3>2. \A n \in Modes : ring[n] \in Seq(Range(ring[n])) /\ Len(ring[n]) \in Nat /\ Len(ring[n]) <= RingSize
      BY PlanShape DEF RingsTyped, TypeOK
    <3>3. Submitted = 0
      BY <3>1, <3>2 DEF Submitted, Modes
    <3>4. RingsTrue'
      BY <1>1, <1>13, <3>1, RingsStayTrue DEF Trusted
    <3> QED BY <2>1, <3>1, <3>2, <3>3, <3>4 DEF RingsTyped, TypeOK
  <2>2. CASE fired # {}
    <3>1. PICK h \in Top(t).armed \cap open : ReturnHook(t, h, ret)
      BY <1>1, <2>2 DEF fired
    <3> QED BY <1>1, <1>12, <1>13, <3>1, ReturnHookStep, Zenon
  <2> QED BY <2>1, <2>2, Zenon
<1>15. ~missed => fired = Top(t).armed /\ fired # {} /\ ~call[t].missed
  <2> SUFFICES ASSUME ~missed PROVE fired = Top(t).armed /\ fired # {} /\ ~call[t].missed
    OBVIOUS
  <2>1. fired = Top(t).armed /\ ~call[t].missed
    BY Zenon DEF missed
  <2>2. Top(t).armed # {}
    BY <1>1, <1>4, <2>1, Zenon DEF ArmedOrMissed
  <2> QED BY <2>1, <2>2
<1>16. ASSUME ret = 0, call[t].ret = Nil, ~missed, ~dropped
       PROVE  events = 1
  <2>1. ~call[t].missed /\ fired # {} /\ fired = Top(t).armed
    BY <1>15, <1>16
  <2>2. ~call[t].dropped /\ \A h \in fired : HasRoom(ring[RingOf(h)])
    BY <1>16, Zenon DEF dropped
  <2>3. /\ call[t].events = 0
        /\ KretArmed(call[t].stack[1]) => connect_args_map[t] = call[t].sk
    BY <1>1, <1>16, <2>1, <2>2, Zenon DEF Counted
  <2>4. PICK h \in Top(t).armed \cap open : ReturnHook(t, h, ret)
    BY <1>1, <2>1, Zenon DEF fired
  <2>5. HasRoom(ring[RingOf(h)])
    BY <2>2, <2>4 DEF fired
  <2>6. Found(t, h) # Nil
    <3>1. h = <<"fexit", Top(t).fn>> \/ h = <<"kretprobe", Top(t).fn>>
      BY <1>4, <2>4, Zenon DEF ReturnHooks
    <3>2. call[t].sk # Nil
      BY <1>4, HooksAssumption, Zenon
    <3>3. CASE h = <<"fexit", Top(t).fn>>
      BY <3>2, <3>3 DEF Found
    <3>4. CASE h = <<"kretprobe", Top(t).fn>>
      <4>1. KretArmed(call[t].stack[1])
        BY <1>4, <2>4, <3>4, Zenon DEF KretArmed
      <4> QED BY <2>3, <3>2, <3>4, <4>1 DEF Found
    <3> QED BY <3>1, <3>3, <3>4
  <2>7. Submitted = 1
    BY <1>1, <1>12, <1>13, <1>16, <2>4, <2>5, <2>6, ReturnHookStep, Zenon
  <2> QED BY <1>9, <2>3, <2>7
<1>17. TypeOK'
  <2>1. DOMAIN Plan = Modes
    BY PlanShape, Zenon DEF Modes
  <2>2. call' \in [Tids -> ConnectCalls \cup {Nil}]
    <3>1. CASE outer = << >>
      BY <1>2, <3>1 DEF TypeOK
    <3>2. CASE outer # << >>
      BY <1>3, <1>10, <3>2 DEF TypeOK
    <3> QED BY <3>1, <3>2
  <2>3. unpaired' \subseteq Tids
    BY <1>2, <1>3 DEF TypeOK
  <2> QED BY <1>1, <1>14, <2>1, <2>2, <2>3, Zenon DEF TypeOK
<1>18. OneVariant'
  <2>1. MapEmpty => MapEmpty'
    BY <1>14 DEF MapEmpty
  <2> QED BY <1>1, <2>1, Zenon DEF OneVariant, NoFexit, NoKprobe
<1>19. ArmedOrMissed'
  <2>1. ASSUME call'[t] # Nil, ~call'[t].missed
        PROVE  \A i \in DOMAIN call'[t].stack : call'[t].stack[i].armed # {}
    <3>1. outer # << >> /\ call'[t].stack = outer /\ ~missed
      BY <1>7, <1>8, <2>1
    <3>2. DOMAIN outer = {1} /\ outer[1] = call[t].stack[2] /\ 2 \in DOMAIN call[t].stack
      BY <1>5, <3>1
    <3>3. call[t].stack[2].armed # {}
      BY <1>1, <1>15, <3>1, <3>2, Zenon DEF ArmedOrMissed
    <3> QED BY <3>1, <3>2, <3>3
  <2> QED BY <1>8, <2>1, Zenon DEF ArmedOrMissed
<1>20. ScratchAccounted'
  <2> SUFFICES ASSUME NEW u \in Tids, connect_args_map'[u] # Nil
               PROVE  u \in unpaired' \/ (call'[u] # Nil /\ connect_args_map'[u] = call'[u].sk)
    BY DEF ScratchAccounted
  <2>1. CASE u # t
    <3>1. call'[u] = call[u] /\ connect_args_map'[u] = connect_args_map[u]
      BY <1>8, <1>14, <2>1
    <3>2. u \in unpaired => u \in unpaired'
      BY <1>2, <1>3, <2>1
    <3> QED BY <3>1, <3>2 DEF ScratchAccounted
  <2>2. CASE u = t
    <3>1. fired = {} /\ connect_args_map'[t] = connect_args_map[t]
      BY <1>14, <2>2
    <3>2. missed
      BY <1>15, <3>1
    <3>3. CASE outer = << >>
      BY <1>2, <2>2, <3>2, <3>3
    <3>4. CASE outer # << >>
      BY <1>3, <1>7, <1>8, <1>10, <2>2, <3>1, <3>4 DEF ScratchAccounted
    <3> QED BY <3>3, <3>4
  <2> QED BY <2>1, <2>2
<1>21. Nested'
  <2>1. ret = 0 => state[call[t].sk] = "SYN_SENT"
    <3> SUFFICES ASSUME ret = 0 PROVE state[call[t].sk] = "SYN_SENT"
      OBVIOUS
    <3>1. call[t] # Nil /\ IF call[t].ret # Nil THEN ret = call[t].ret
                           ELSE ret = IF state[call[t].sk] = "SYN_SENT" THEN 0 ELSE -1
      BY <1>1, Zenon DEF MayReturn
    <3>2. call[t].ret = 0 => state[call[t].sk] = "SYN_SENT"
      BY <3>1, Zenon DEF Nested, NestedCall
    <3> QED BY <3>1, <3>2, NotMinusOne, Zenon
  <2>2. ASSUME NEW u \in Tids, call'[u] # Nil PROVE call[u] # Nil /\ call'[u].sk = call[u].sk
    BY <1>1, <1>7, <1>8, <2>2, Zenon
  <2> SUFFICES ASSUME NEW u \in Tids, call'[u] # Nil
               PROVE  NestedCall(u)'
    BY DEF Nested
  <2>3. \A v \in Tids : call'[v] # Nil /\ call'[v].sk = call'[u].sk => v = u
    <3> SUFFICES ASSUME NEW v \in Tids, call'[v] # Nil, call'[v].sk = call'[u].sk PROVE v = u
      BY Zenon
    <3>1. call[u] # Nil /\ call[v] # Nil /\ call[v].sk = call[u].sk
      BY <2>2, Zenon
    <3> QED BY <3>1, Zenon DEF Nested, NestedCall
  <2>4. CASE u = t
    <3>1. outer # << >> /\ call'[t].stack = outer /\ call'[t].ret = ret
      BY <1>7, <1>8, <2>4
    <3>2. Len(outer) = 1 /\ outer[1].fn = "tcp_v6_connect"
      BY <1>5, <3>1
    <3> QED BY <1>1, <2>1, <2>2, <2>3, <2>4, <3>1, <3>2, Zenon DEF Nested, NestedCall
  <2>5. CASE u # t
    <3>1. call'[u] = call[u] /\ call[u] # Nil
      BY <1>8, <2>2, <2>5
    <3>2. NestedCall(u) /\ socket' = socket /\ state' = state
      BY <1>1, <3>1, Zenon DEF Nested
    <3> QED BY <2>3, <3>1, <3>2, Zenon DEF NestedCall
  <2> QED BY <2>4, <2>5
<1>22. ASSUME NEW u \in Tids, call'[u] # Nil, NEW i \in DOMAIN call'[u].stack
       PROVE  /\ call[u] # Nil /\ call'[u].sk = call[u].sk
              /\ \E j \in DOMAIN call[u].stack : call'[u].stack[i] = call[u].stack[j]
              /\ connect_args_map'[u] \in {connect_args_map[u], Nil}
  <2>1. CASE u # t
    BY <1>8, <1>14, <1>22, <2>1, Zenon
  <2>2. CASE u = t
    <3>1. outer # << >> /\ call'[t].stack = outer /\ call'[t].sk = call[t].sk
      BY <1>7, <1>8, <1>22, <2>2
    <3>2. i = 1 /\ outer[1] = call[t].stack[2] /\ 2 \in DOMAIN call[t].stack
      BY <1>5, <1>22, <2>2, <3>1
    <3> QED BY <1>1, <1>14, <2>2, <3>1, <3>2, Zenon
  <2> QED BY <2>1, <2>2, Zenon
<1>23. ScratchTrue'
  <2>1. ASSUME Trusted, NEW u \in Tids, call'[u] # Nil, NEW i \in DOMAIN call'[u].stack,
               KretArmed(call'[u].stack[i])
        PROVE  connect_args_map'[u] \in {Nil, call'[u].sk}
    <3>1. PICK j \in DOMAIN call[u].stack : call'[u].stack[i] = call[u].stack[j]
      BY <1>22, <2>1, Zenon
    <3>2. call[u] # Nil /\ call'[u].sk = call[u].sk /\ connect_args_map'[u] \in {connect_args_map[u], Nil}
      BY <1>22, <2>1, Zenon
    <3>3. connect_args_map[u] \in {Nil, call[u].sk}
      BY <2>1, <3>1, <3>2, Zenon DEF ScratchTrue
    <3> QED BY <3>2, <3>3
  <2>2. ASSUME stage = "fentry" \/ (stage = "kprobe" /\ pc = "attach" /\ acquired = << >>),
               NEW u \in Tids, call'[u] # Nil, NEW i \in DOMAIN call'[u].stack
        PROVE  ~KretArmed(call'[u].stack[i])
    <3>1. PICK j \in DOMAIN call[u].stack : call'[u].stack[i] = call[u].stack[j]
      BY <1>22, <2>2, Zenon
    <3>2. call[u] # Nil
      BY <1>22, <2>2, Zenon
    <3> QED BY <2>2, <3>1, <3>2, Zenon DEF ScratchTrue
  <2> QED BY <1>1, <2>1, <2>2, Zenon DEF ScratchTrue, Trusted, KretArmed
<1>24. Counted'
  <2> SUFFICES ASSUME NEW u \in Tids, call'[u] # Nil, ~call'[u].missed, ~call'[u].dropped
               PROVE  /\ call'[u].ret = Nil => /\ call'[u].events = 0
                                               /\ KretArmed(call'[u].stack[1]) => connect_args_map'[u] = call'[u].sk
                      /\ call'[u].ret = 0 => Len(call'[u].stack) = 1 /\ call'[u].events = 1
    BY Zenon DEF Counted, KretArmed
  <2>1. CASE u # t
    BY <1>8, <1>14, <2>1, Zenon DEF Counted
  <2>2. CASE u = t
    <3>1. /\ outer # << >> /\ call'[t].stack = outer /\ call'[t].ret = ret /\ call'[t].events = events
          /\ ~missed /\ ~dropped /\ Len(outer) = 1 /\ Len(call[t].stack) = 2
      BY <1>5, <1>7, <1>8, <2>2, Zenon
    <3>2. ret # Nil
      BY HooksAssumption
    <3>3. call[t].ret # 0
      <4>1. ~call[t].missed /\ ~call[t].dropped
        <5>1. ~call[t].dropped
          BY <3>1, Zenon DEF dropped
        <5> QED BY <1>15, <3>1, <5>1
      <4>2. ~(Len(call[t].stack) = 1)
        BY <3>1
      <4>3. call[t].ret = 0 => Len(call[t].stack) = 1
        BY <1>1, <4>1, Zenon DEF Counted
      <4> QED BY <4>2, <4>3, Zenon
    <3>4. ret = 0 => call[t].ret = Nil
      BY <1>1, <3>3, Zenon DEF MayReturn
    <3> QED BY <1>16, <2>2, <3>1, <3>2, <3>4
  <2> QED BY <2>1, <2>2, Zenon
<1>25. CallsAreReported'
  <2>1. ASSUME outer = << >>, ret = 0, ~missed, ~dropped PROVE events \in 1 .. 2
    <3>1. CASE call[t].ret = Nil
      BY <1>16, <2>1, <3>1
    <3>2. CASE call[t].ret # Nil
      <4>1. call[t].ret = 0
        BY <1>1, <2>1, <3>2 DEF MayReturn
      <4>2. ~call[t].missed /\ ~call[t].dropped
        <5>1. ~call[t].dropped
          BY <2>1, Zenon DEF dropped
        <5> QED BY <1>15, <2>1, <5>1
      <4>3. call[t].events = 1
        BY <1>1, <4>1, <4>2, Zenon DEF Counted
      <4> QED BY <1>9, <1>14, <4>3
    <3> QED BY <3>1, <3>2
  <2>2. done' \subseteq done \cup {entry}
    BY <1>2, <1>3
  <2>3. entry \in done' /\ entry \notin done => outer = << >> /\ ret = 0
    BY <1>2, <1>3
  <2> QED BY <1>7, <2>1, <2>2, <2>3 DEF CallsAreReported
<1> QED BY <1>14, <1>17, <1>18, <1>19, <1>20, <1>21, <1>23, <1>24, <1>25

-----------------------------------------------------------------------------
(* The source's steps. *)

LEMMA AcquireKeepsKernelInv ==
  ASSUME AttachInv, KernelInv, AttachInv', AcquireNext
  PROVE  KernelInv'
<1> USE DEF KernelInv
<1> DEFINE item == Plan[stage][Len(acquired) + 1]
           last == Len(acquired) + 1 = Len(Plan[stage])
<1>1. /\ pc = "attach" /\ open' = open \cup {item}
      /\ ring' = IF item[1] = "objs" THEN [ring EXCEPT ![stage] = << >>] ELSE ring
      /\ connect_args_map' = IF item = <<"objs", "kprobe">> THEN [t \in Tids |-> Nil] ELSE connect_args_map
      /\ unpaired' = IF item = <<"objs", "kprobe">> THEN {} ELSE unpaired
      /\ UNCHANGED <<owner, socket, state, call, consumers, done>>
  BY Zenon DEF AcquireNext
<1>2. /\ stage' = IF last THEN "sockstate" ELSE stage
      /\ ~last => acquired' = Append(acquired, item)
  BY Zenon DEF AcquireNext
<1>3. stage \in Modes /\ acquired \in Seq(Resources) /\ Len(acquired) + 1 \in 1 .. Len(Plan[stage])
  <2>1. stage \in Modes /\ acquired \in Seq(Resources) /\ Len(acquired) < Len(Plan[stage])
    BY Zenon DEF AttachInv, AttachTyped
  <2>2. Len(Plan[stage]) \in Nat
    BY <2>1, PlanShape, Zenon
  <2> QED BY <2>1, <2>2
<1>4. \A fn \in Fns : /\ item = <<"fexit", fn>> => stage = "fentry"
                      /\ item = <<"kprobe", fn>> => stage = "kprobe"
                      /\ item = <<"kretprobe", fn>> => stage = "kprobe"
  BY <1>3, PlanShape
<1>5. item = <<"objs", "kprobe">> => stage = "kprobe" /\ acquired = << >>
  <2> SUFFICES ASSUME item = <<"objs", "kprobe">> PROVE stage = "kprobe" /\ acquired = << >>
    OBVIOUS
  <2>1. item[1] = "objs" /\ item[2] = "kprobe"
    OBVIOUS
  <2>2. Len(acquired) + 1 = 1
    BY <1>3, <2>1, PlanShape, Zenon
  <2>3. item = <<"objs", stage>>
    BY <1>3, <2>2, PlanShape, Zenon
  <2>4. Len(acquired) = 0
    BY <1>3, <2>2
  <2> QED BY <1>3, <2>1, <2>3, <2>4
<1> HIDE DEF item, last
<1>6. (Trusted /\ acquired' # << >>) \/ stage' = "sockstate"
  BY <1>1, <1>2, <1>3 DEF Trusted
<1>7. \A t \in Tids : connect_args_map'[t] \in {connect_args_map[t], Nil}
  BY <1>1
<1>8. \A m \in Modes : ring'[m] = ring[m] \/ ring'[m] = << >>
  BY <1>1, <1>3 DEF RingsTyped
<1>9. RingsTyped'
  <2>1. << >> \in Seq(Range(<< >>))
    OBVIOUS
  <2>2. DOMAIN ring' = Modes
    BY <1>1 DEF RingsTyped
  <2> QED BY <1>8, <2>1, <2>2, Zenon DEF RingsTyped
<1>10. TypeOK'
  <2>1. DOMAIN Plan = Modes /\ RingSize \in Nat /\ Len(<< >>) = 0
    BY PlanShape, HooksAssumption, Zenon DEF Modes
  <2>2. \A m \in Modes : Len(ring'[m]) <= RingSize
    BY <1>8, <2>1 DEF TypeOK
  <2>3. open' \subseteq Resources
    BY Zenon DEF AttachInv, AttachTyped
  <2>4. connect_args_map' \in [Tids -> Socks \cup {Nil}] /\ unpaired' \subseteq Tids
    BY <1>1, Zenon DEF TypeOK
  <2> QED BY <1>1, <2>1, <2>2, <2>3, <2>4, Zenon DEF TypeOK
<1>11. OneVariant'
  <2>1. MapEmpty => MapEmpty'
    BY <1>7 DEF MapEmpty
  <2>2. stage # "kprobe" /\ NoKprobe => NoKprobe'
    BY <1>1, <1>4, Zenon DEF NoKprobe
  <2>3. stage # "fentry" /\ NoFexit => NoFexit'
    BY <1>1, <1>4, Zenon DEF NoFexit
  <2> QED BY <1>2, <1>3, <2>1, <2>2, <2>3 DEF OneVariant, Modes
<1>12. ArmedOrMissed' /\ Nested' /\ CallsAreReported'
  BY <1>1, Zenon DEF ArmedOrMissed, Nested, NestedCall, CallsAreReported
<1>13. ScratchAccounted'
  BY <1>1, Zenon DEF ScratchAccounted
<1>14. ScratchTrue'
  <2>1. Trusted
    BY <1>1 DEF Trusted
  <2>2. stage' = "fentry" => stage = "fentry"
    BY <1>2
  <2> QED BY <1>1, <1>6, <1>7, <2>1, <2>2, Zenon DEF ScratchTrue, KretArmed
<1>15. RingsTrue'
  <2>1. \A u \in Tids : Calls(u) \subseteq Reports'
    BY <1>1, CallStays
  <2>2. Reports \subseteq Reports'
    BY <1>1, <2>1, ReportsStay
  <2>3. \A m \in Modes : \A i \in DOMAIN ring'[m] : \E j \in DOMAIN ring[m] : ring'[m][i] = ring[m][j]
    BY <1>8
  <2>4. Trusted
    BY <1>1 DEF Trusted
  <2> QED BY <1>1, <2>2, <2>3, <2>4, RingsStayTrue, Zenon
<1>16. Counted'
  <2>1. CASE item = <<"objs", "kprobe">>
    <3>1. \A t \in Tids : call[t] # Nil => ~KretArmed(call[t].stack[1])
      <4> SUFFICES ASSUME NEW t \in Tids, call[t] # Nil PROVE ~KretArmed(call[t].stack[1])
        OBVIOUS
      <4>1. 1 \in DOMAIN call[t].stack
        BY CallShape, Zenon
      <4> QED BY <1>1, <1>5, <2>1, <4>1, Zenon DEF ScratchTrue
    <3> QED BY <1>1, <3>1, Zenon DEF Counted, KretArmed
  <2>2. CASE item # <<"objs", "kprobe">>
    BY <1>1, <2>2, Zenon DEF Counted, KretArmed
  <2> QED BY <2>1, <2>2
<1> QED BY <1>9, <1>10, <1>11, <1>12, <1>13, <1>14, <1>15, <1>16

LEMMA ConsumeKeepsKernelInv ==
  ASSUME AttachInv, KernelInv, NEW r \in consumers, consume(r)
  PROVE  KernelInv'
<1> USE DEF KernelInv
<1>1. /\ ring[r[2]] # << >> /\ ring' = [ring EXCEPT ![r[2]] = Tail(ring[r[2]])]
      /\ UNCHANGED <<owner, socket, state, call, connect_args_map, pc, stage, open, acquired, consumers,
                     done, unpaired>>
  BY Zenon DEF consume, attachVars, historyVars
<1>2. r[2] \in Modes
  BY DEF AttachInv, AttachTyped, Readers
<1>3. PICK m \in Modes : m = r[2]
  BY <1>2
<1>4. /\ DOMAIN ring' = Modes /\ ring'[m] = Tail(ring[m]) /\ \A n \in Modes \ {m} : ring'[n] = ring[n]
      /\ \A n \in Modes : ring[n] \in Seq(Range(ring[n])) /\ Len(ring[n]) <= RingSize
  BY <1>1, <1>3, PlanShape, Zenon DEF RingsTyped, TypeOK
<1>5. /\ ring'[m] \in Seq(Range(ring'[m])) /\ Len(ring'[m]) <= RingSize
      /\ \A i \in DOMAIN ring'[m] : \E j \in DOMAIN ring[m] : ring'[m][i] = ring[m][j]
  <2>1. PICK q : q = ring[m]
    OBVIOUS
  <2>2. q \in Seq(Range(q)) /\ q # << >> /\ Len(q) <= RingSize
    BY <1>1, <1>3, <1>4, <2>1, Zenon
  <2>3. /\ Tail(q) \in Seq(Range(Tail(q))) /\ Len(Tail(q)) = Len(q) - 1
        /\ \A i \in DOMAIN Tail(q) : \E j \in DOMAIN q : Tail(q)[i] = q[j]
    BY <2>2, TailShape
  <2>4. Len(Tail(q)) <= RingSize
    BY <2>2, <2>3, HooksAssumption
  <2> QED BY <1>4, <2>1, <2>3, <2>4
<1>6. RingsTyped'
  BY <1>4, <1>5, Zenon DEF RingsTyped
<1>7. TypeOK'
  <2>1. DOMAIN Plan = Modes
    BY PlanShape, Zenon DEF Modes
  <2> QED BY <1>1, <1>4, <1>5, <2>1, Zenon DEF TypeOK
<1>8. OneVariant' /\ ArmedOrMissed' /\ ScratchAccounted'
  BY <1>1, Zenon DEF OneVariant, NoFexit, NoKprobe, MapEmpty, ArmedOrMissed, ScratchAccounted
<1>9. Nested' /\ Counted' /\ CallsAreReported'
  <2>1. Nested'
    BY <1>1, Zenon DEF Nested, NestedCall
  <2>2. Counted'
    BY <1>1, Zenon DEF Counted, KretArmed
  <2>3. CallsAreReported'
    BY <1>1, Zenon DEF CallsAreReported
  <2> QED BY <2>1, <2>2, <2>3
<1>10. ScratchTrue'
  BY <1>1, Zenon DEF ScratchTrue, Trusted, KretArmed
<1>11. RingsTrue'
  <2>1. \A u \in Tids : Calls(u) \subseteq Reports'
    BY <1>1, CallStays
  <2>2. Reports \subseteq Reports'
    BY <1>1, <2>1, ReportsStay
  <2>3. \A n \in Modes : \A i \in DOMAIN ring'[n] : \E j \in DOMAIN ring[n] : ring'[n][i] = ring[n][j]
    BY <1>4, <1>5, Zenon
  <2> QED BY <1>1, <2>2, <2>3, RingsStayTrue, Zenon DEF Trusted
<1> QED BY <1>6, <1>7, <1>8, <1>9, <1>10, <1>11

(* Every other step of the source only closes, or moves on. *)
LEMMA QuietKeepsKernelInv ==
  ASSUME AttachInv, KernelInv, AttachInv', UNCHANGED <<kernelVars, historyVars>>,
         open' \subseteq open, stage' = stage \/ (stage = "fentry" /\ open = {} /\ stage' = "kprobe"),
         Trusted' => Trusted, stage' = "kprobe" /\ pc' = "attach" => stage = "fentry" \/ pc = "attach",
         acquired' = acquired \/ pc' # "attach"
  PROVE  KernelInv'
<1> USE DEF KernelInv
<1>1. UNCHANGED <<owner, socket, state, call, connect_args_map, ring, done, unpaired>>
  BY DEF kernelVars, historyVars
<1>2. TypeOK'
  <2>1. open' \subseteq Resources /\ consumers' \subseteq Resources
    BY ReadersAreResources, Zenon DEF AttachInv, AttachTyped
  <2> QED BY <1>1, <2>1, Zenon DEF TypeOK
<1>3. RingsTyped' /\ ArmedOrMissed' /\ ScratchAccounted'
  BY <1>1, Zenon DEF RingsTyped, ArmedOrMissed, ScratchAccounted
<1>4. Nested' /\ Counted' /\ CallsAreReported'
  <2>1. Nested'
    BY <1>1, Zenon DEF Nested, NestedCall
  <2>2. Counted'
    BY <1>1, Zenon DEF Counted, KretArmed
  <2>3. CallsAreReported'
    BY <1>1, Zenon DEF CallsAreReported
  <2> QED BY <2>1, <2>2, <2>3
<1>5. OneVariant'
  BY <1>1, Zenon DEF OneVariant, NoFexit, NoKprobe, MapEmpty
<1>6. ScratchTrue'
  BY <1>1, Zenon DEF ScratchTrue, KretArmed
<1>7. RingsTrue'
  <2>1. \A u \in Tids : Calls(u) \subseteq Reports'
    BY <1>1, CallStays
  <2>2. Reports \subseteq Reports'
    BY <1>1, <2>1, ReportsStay
  <2> QED BY <1>1, <2>2, RingsStayTrue
<1> QED BY <1>2, <1>3, <1>4, <1>5, <1>6, <1>7

LEMMA SourceKeepsKernelInv ==
  ASSUME AttachInv, KernelInv, Source
  PROVE  KernelInv'
<1>0. AttachInv'
  BY SourceKeepsAttachInv
<1>1. CASE RemoveMemlock
  <2>1. /\ pc = "start" /\ stage = "fentry" /\ stage' \in {"fentry", "kprobe"}
        /\ UNCHANGED <<kernelVars, historyVars, open, acquired>>
    BY <1>1 DEF RemoveMemlock, AttachInv, Phased
  <2>2. open = {}
    <3>1. acquired = << >> /\ todo = << >> /\ rings = << >> /\ closers = << >>
      BY <2>1 DEF AttachInv, Phased
    <3> QED BY <2>1, <3>1 DEF AttachInv, OpenAccounted, Range
  <2> QED BY <1>0, <2>1, <2>2, QuietKeepsKernelInv DEF Trusted
<1>2. CASE AcquireNext
  BY <1>0, <1>2, AcquireKeepsKernelInv
<1>3. CASE AcquireFails
  <2>1. pc = "attach" /\ pc' = "unwind" /\ UNCHANGED <<kernelVars, historyVars, open, stage>>
    BY <1>3 DEF AcquireFails
  <2> QED BY <1>0, <2>1, QuietKeepsKernelInv DEF Trusted
<1>4. CASE CloseNext
  <2>1. open' \subseteq open /\ UNCHANGED <<kernelVars, historyVars, pc, stage, acquired>>
    BY <1>4 DEF CloseNext
  <2> QED BY <1>0, <2>1, QuietKeepsKernelInv DEF Trusted
<1>5. CASE Unwound
  <2>1. /\ pc = "unwind" /\ todo = << >> /\ UNCHANGED <<kernelVars, historyVars, open, acquired>>
        /\ stage = "fentry" => pc' = "attach" /\ stage' = "kprobe"
        /\ stage # "fentry" => pc' = "abandon" /\ stage' = stage
    BY <1>5 DEF Unwound
  <2>2. stage = "fentry" => open = {}
    <3>1. stage = "fentry" => acquired = << >> /\ rings = << >> /\ closers = << >>
      BY <2>1 DEF AttachInv, Phased
    <3> QED BY <2>1, <3>1 DEF AttachInv, OpenAccounted, Range
  <2> QED BY <1>0, <2>1, <2>2, QuietKeepsKernelInv DEF Trusted
<1>6. CASE NewPoller \/ RunStarts \/ RunCloses \/ RunReturns
  <2>1. pc' # "attach" /\ UNCHANGED <<kernelVars, historyVars, open, stage, acquired>>
    BY <1>6 DEF NewPoller, RunStarts, RunCloses, RunReturns
  <2> QED BY <1>0, <2>1, QuietKeepsKernelInv DEF Trusted
<1>7. CASE CloseReader
  <2>1. open' \subseteq open /\ UNCHANGED <<kernelVars, historyVars, pc, stage, acquired>>
    BY <1>7 DEF CloseReader
  <2> QED BY <1>0, <2>1, QuietKeepsKernelInv DEF Trusted
<1>8. ASSUME NEW r \in consumers, consume(r) PROVE KernelInv'
  BY <1>8, ConsumeKeepsKernelInv
<1>9. ASSUME NEW r \in consumers, consumeEnds(r) PROVE KernelInv'
  <2>1. UNCHANGED <<kernelVars, historyVars, pc, stage, open, acquired>>
    BY <1>9 DEF consumeEnds
  <2> QED BY <1>0, <2>1, QuietKeepsKernelInv DEF Trusted
<1> QED BY <1>1, <1>2, <1>3, <1>4, <1>5, <1>6, <1>7, <1>8, <1>9 DEF Source

LEMMA InitKernelInv ==
  ASSUME Init
  PROVE  KernelInv
<1>1. DOMAIN Plan = Modes /\ RingSize \in Nat
  BY PlanShape, HooksAssumption, Zenon DEF Modes
<1>2. /\ owner \in [Tids -> Pids] /\ socket \in Layouts
      /\ state = [sk \in Socks |-> IF socket[sk].protocol = "IPPROTO_TCP" THEN "CLOSE" ELSE "SYN_SENT"]
      /\ call = [t \in Tids |-> Nil] /\ connect_args_map = [t \in Tids |-> Nil]
      /\ ring = [m \in Modes |-> << >>] /\ stage = "fentry"
      /\ open = {} /\ consumers = {} /\ unpaired = {} /\ done = {}
  BY <1>1 DEF Init
<1>3. TypeOK
  BY <1>1, <1>2 DEF TypeOK
<1>4. RingsTyped
  BY <1>2 DEF RingsTyped
<1>5. OneVariant /\ ArmedOrMissed /\ ScratchAccounted
  BY <1>2 DEF OneVariant, NoFexit, NoKprobe, MapEmpty, ArmedOrMissed, ScratchAccounted
<1>6. Nested /\ Counted /\ CallsAreReported /\ ScratchTrue
  BY <1>2, Zenon DEF Nested, NestedCall, Counted, CallsAreReported, ScratchTrue
<1>7. RingsTrue
  <2>1. \A m \in Modes : ring[m] = << >>
    BY <1>2, Zenon
  <2>2. "fentry" \in Modes /\ "kprobe" \in Modes /\ "sockstate" \in Modes
    BY DEF Modes
  <2>3. ring["fentry"] = << >> /\ ring["kprobe"] = << >> /\ ring["sockstate"] = << >>
    BY <2>1, <2>2, Zenon
  <2>4. \A i : i \notin DOMAIN << >>
    OBVIOUS
  <2> QED BY <2>3, <2>4, Zenon DEF RingsTrue
<1> QED BY <1>3, <1>4, <1>5, <1>6, <1>7 DEF KernelInv

(* The inductive invariant of the hooks: what is attached is accounted for,     *)
(* what a return hook finds is its own call's, and what was submitted is true. *)
THEOREM Invariance == Spec => [](AttachInv /\ KernelInv)
<1>1. Init => AttachInv /\ KernelInv
  BY InitAttachInv, InitKernelInv
<1>2. AttachInv /\ KernelInv /\ [Next]_vars => (AttachInv /\ KernelInv)'
  <2> SUFFICES ASSUME AttachInv, KernelInv, [Next]_vars PROVE AttachInv' /\ KernelInv'
    OBVIOUS
  <2>1. CASE Kernel
    <3>1. AttachInv'
      BY <2>1, KernelLeavesAttach, KernelKeepsAttachInv
    <3>2. KernelInv'
      BY <2>1, ConnectKeepsKernelInv, NestKeepsKernelInv, SynKeepsKernelInv, GiveUpKeepsKernelInv,
         ReturnKeepsKernelInv, RecycleKeepsKernelInv, SetStateKeepsKernelInv DEF Kernel
    <3> QED BY <3>1, <3>2
  <2>2. CASE Source
    BY <2>2, SourceKeepsAttachInv, SourceKeepsKernelInv
  <2>3. CASE UNCHANGED vars
    <3>1. UNCHANGED <<kernelVars, historyVars, attachVars>>
      BY <2>3 DEF vars
    <3>2. AttachInv'
      BY <3>1, KernelKeepsAttachInv
    <3>3. UNCHANGED <<open, stage, pc, acquired>>
      BY <3>1 DEF attachVars
    <3>4. KernelInv'
      BY <3>1, <3>2, <3>3, QuietKeepsKernelInv DEF Trusted
    <3> QED BY <3>2, <3>4
  <2> QED BY <2>1, <2>2, <2>3 DEF Next
<1> QED BY <1>1, <1>2, PTL DEF Spec

(* connect_args_map holds only what a call in flight stored or what a thread   *)
(* left behind whose last call met no return hook (kprobe_connect_entry,       *)
(* kretprobe_connect_exit), at every moment of attach and of closeAll.         *)
THEOREM ScratchMapAccounted == Spec => []ScratchAccounted
<1>1. KernelInv => ScratchAccounted
  BY DEF KernelInv
<1> QED BY <1>1, Invariance, PTL

(* Every connect event that waits for handleEvent is that of one successful    *)
(* call, with its socket, process and tuple, and every call that no hook       *)
(* missed and no ring dropped has its event: with threads that interleave,     *)
(* nest, end and leave their ids to others, in both attach modes, while hooks  *)
(* come and go, and whatever the memory of the rings held before.              *)
THEOREM EventsAreTheCalls == Spec => []EventsMatchCalls
<1>1. AttachInv /\ KernelInv => EventsMatchCalls
  <2> SUFFICES ASSUME AttachInv, KernelInv PROVE EventsAreTrue
    BY DEF KernelInv, EventsMatchCalls
  <2> SUFFICES ASSUME NEW r \in Range(rings) \cap open, NEW i \in DOMAIN ring[r[2]]
               PROVE  IF r[2] = "sockstate" THEN StateEventTrue(ring[r[2]][i])
                                            ELSE ConnectEventTrue(ring[r[2]][i])
    BY Zenon DEF EventsAreTrue, StateEventTrue, ConnectEventTrue
  <2>1. r[2] \in Modes
    BY DEF AttachInv, AttachTyped, Range, Readers
  <2>2. rings # << >>
    BY DEF Range
  <2>3. Trusted
    BY <2>2 DEF AttachInv, Phased, Trusted
  <2> QED BY <2>1, <2>3 DEF KernelInv, RingsTrue, Modes
<1> QED BY <1>1, Invariance, PTL
=============================================================================
