---------------------------- MODULE ReverseNames ----------------------------
(***************************************************************************)
(* What dns.Resolver promises the render loop, without generations, slots, *)
(* goroutines or deadlines: an address is unknown, asked about or known;   *)
(* an answer stays as it is until it is forgotten, and none is forgotten   *)
(* while few are known.                                                    *)
(***************************************************************************)
EXTENDS Integers, FiniteSets

CONSTANTS
  Addrs,
  Answers,
  Unknown,
  MaxAsked,   \* questions asked at one time
  Remembered  \* answers that are certain to be remembered

VARIABLES
  known,   \* the answer for each address, or Unknown
  asked,   \* addresses asked about
  stopped

vars == <<known, asked, stopped>>

Known == {a \in Addrs : known[a] # Unknown}

Init == known = [a \in Addrs |-> Unknown] /\ asked = {} /\ stopped = FALSE

(* A set of answers may go when more than Remembered are known, and as many   *)
(* stay.                                                                     *)
Forgettable(K) ==
  {F \in SUBSET K : F # {} => Cardinality(K) > Remembered /\ Cardinality(K \ F) >= Remembered}

Ask(a) ==
  /\ a \notin Known \cup asked /\ Cardinality(asked) < MaxAsked
  /\ asked' = asked \cup {a}
  /\ UNCHANGED <<known, stopped>>

Learn(a, ans) ==
  /\ a \in asked /\ ~stopped
  /\ asked' = asked \ {a}
  /\ \E F \in Forgettable(Known) :
       known' = [b \in Addrs |-> IF b = a THEN ans ELSE IF b \in F THEN Unknown ELSE known[b]]
  /\ UNCHANGED stopped

(* An address in use is not forgotten; keeping it may push out others. *)
Use(a) ==
  /\ a \in Known
  /\ \E F \in Forgettable(Known) :
       a \notin F /\ known' = [b \in Addrs |-> IF b \in F THEN Unknown ELSE known[b]]
  /\ UNCHANGED <<asked, stopped>>

(* A question is given up only when the program stops. *)
Abandon(a) ==
  /\ a \in asked /\ stopped
  /\ asked' = asked \ {a}
  /\ UNCHANGED <<known, stopped>>

Stop == stopped' = TRUE /\ UNCHANGED <<known, asked>>

Next ==
  \/ \E a \in Addrs : Ask(a) \/ Use(a) \/ Abandon(a) \/ \E ans \in Answers : Learn(a, ans)
  \/ Stop

Spec == Init /\ [][Next]_vars
=============================================================================
