---------------------------- MODULE StartupProofs ----------------------------
(***************************************************************************)
(* Theorems of Startup, for all setups and every size of a FIFO: the types,*)
(* and that nobody waits in a circle. The FIFOs are ranked so that every   *)
(* module opens its own in ascending order (the order in which the mains   *)
(* make their calls), and the end of the chain of those who wait is the    *)
(* one that is to open the FIFO of least rank.                             *)
(***************************************************************************)
EXTENDS Startup, WellFoundedInduction, TLAPS

Step == [do : {"open"}, fifo : Names \X Names] \cup [do : {"event"}]

\* What opens a and b open, in any order.
Opens(a) == {a[i].fifo : i \in {j \in DOMAIN a : a[j].do = "open"}}

(***************************************************************************)
(* The place of the FIFOs between m, which connects, and n, which accepts. *)
(***************************************************************************)
Place(m, n) ==
  CASE n = "device_driver"                             -> 1
    [] m = "arp_module" /\ n = "ethernet_mux"          -> 2
    [] m = "ip_module" /\ n = "ethernet_mux"           -> 3
    [] m = "other_module"                              -> 4
    [] m = "ip_module" /\ n = "arp_module"             -> 5
    [] m = "ip_mux"                                    -> 6
    [] m = "udp_module" /\ n = "ip_mux"                -> 7
    [] m = "tcp_module" /\ n = "ip_mux"                -> 8
    [] m = "icmp_module" /\ n = "ip_mux"               -> 9
    [] m = "ipother_module" /\ n = "ip_mux"            -> 10
    [] m = "sock_module" /\ n = "tcp_module"           -> 11
    [] m = "sock_module" /\ n = "udp_module"           -> 12
    [] m = "sock_module" /\ n = "icmp_module"          -> 13
    [] m = "sock_module" /\ n = "ipother_module"       -> 14
    [] OTHER                                           -> 15

\* The one to the monitor first; of two, first the one that is read by the
\* module that connects.
Rank(fifo) ==
  IF fifo[2] = "monitor" THEN 0
  ELSE IF fifo[2] \in MayConnect(fifo[1]) THEN 2 * Place(fifo[1], fifo[2]) + 1
  ELSE 2 * Place(fifo[2], fifo[1])

\* The FIFOs between m and n, if the setup has n.
Served(s, n) ==
  IF n = "socklib_module" THEN Lists(s.config, "app") \/ Lists(s.config, "socklib_module")
  ELSE Lists(s.config, n)

Link(s, m, n) == IF Served(s, n) THEN {<<m, n>>, <<n, m>>} ELSE {}

Neighbours(m) == MayConnect(m) \cup (MayAccept(m) \ {"app"})

ToMonitor(s, m) == IF MinetIsModuleMonitored(s, m) THEN {<<m, "monitor">>} ELSE {}

Sorted(a) ==
  \A i, j \in 1 .. Len(a) :
    i < j /\ a[i].do = "open" /\ a[j].do = "open" => Rank(a[i].fifo) < Rank(a[j].fifo)

(***************************************************************************)
(* a is a part of m's start: it opens the FIFOs in set, in ascending order *)
(* of ranks from lo on and below hi, and sends events if m is monitored.   *)
(***************************************************************************)
Part(s, m, a, lo, hi, set) ==
  /\ a \in Seq(Step)
  /\ Opens(a) = set
  /\ \A f \in set : Rank(f) \in lo .. hi - 1
  /\ Sorted(a)
  /\ \A i \in 1 .. Len(a) : a[i].do = "event" => MinetIsModuleMonitored(s, m)

(***************************************************************************)
(* A nonempty set of naturals has a least element.                         *)
(***************************************************************************)
LEMMA NatWellFounded == IsWellFoundedOn({ss \in Nat \X Nat : ss[1] < ss[2]}, Nat)
  BY NatLessThanWellFounded DEF OpToRel

LEMMA NatLeast ==
  ASSUME NEW T, T \subseteq Nat, T # {}
  PROVE  \E x \in T : \A y \in T : x <= y
<1> DEFINE R == {ss \in Nat \X Nat : ss[1] < ss[2]}
<1>1. \A x, y \in Nat : x < y => <<x, y>> \in R
  OBVIOUS
<1>2. IsWellFoundedOn(R, Nat)
  BY NatWellFounded
<1> HIDE DEF R
<1>3. PICK x \in T : \A y \in T : ~ (<<y, x>> \in R)
  BY <1>2, WFMin
<1>4. \A y \in T : ~ (y < x)
  BY <1>1, <1>3
<1> QED BY <1>4

LEMMA OpensEmpty == Opens(<<>>) = {}
  BY DEF Opens

LEMMA OpensConcat ==
  ASSUME NEW a \in Seq(Step), NEW b \in Seq(Step)
  PROVE  Opens(a \o b) = Opens(a) \cup Opens(b)
<1>1. \A i \in 1 .. Len(a) : (a \o b)[i] = a[i]
  OBVIOUS
<1>2. \A i \in 1 .. Len(b) : i + Len(a) \in 1 .. Len(a \o b) /\ (a \o b)[i + Len(a)] = b[i]
  OBVIOUS
<1>3. ASSUME NEW f \in Opens(a \o b)
      PROVE  f \in Opens(a) \cup Opens(b)
  <2>1. PICK i \in 1 .. Len(a \o b) : (a \o b)[i].do = "open" /\ f = (a \o b)[i].fifo
    BY DEF Opens
  <2>2. CASE i <= Len(a)
    <3>1. i \in 1 .. Len(a) BY <2>2
    <3> QED BY <2>1, <3>1, <1>1 DEF Opens
  <2>3. CASE i > Len(a)
    <3>1. i - Len(a) \in 1 .. Len(b) /\ (a \o b)[i] = b[i - Len(a)] BY <2>3
    <3> QED BY <2>1, <3>1 DEF Opens
  <2> QED BY <2>2, <2>3
<1>4. Opens(a) \subseteq Opens(a \o b)
  <2>1. \A i \in 1 .. Len(a) : i \in 1 .. Len(a \o b) OBVIOUS
  <2> QED BY <1>1, <2>1 DEF Opens
<1>5. Opens(b) \subseteq Opens(a \o b)
  <2>1. SUFFICES ASSUME NEW i \in 1 .. Len(b), b[i].do = "open"
                 PROVE  b[i].fifo \in Opens(a \o b)
    BY DEF Opens
  <2>2. PICK j \in 1 .. Len(a \o b) : (a \o b)[j] = b[i]
    BY <1>2
  <2> QED BY <2>1, <2>2 DEF Opens
<1> QED BY <1>3, <1>4, <1>5

LEMMA PartEmpty ==
  ASSUME NEW s, NEW m, NEW lo, NEW hi
  PROVE  Part(s, m, <<>>, lo, hi, {})
  BY OpensEmpty DEF Part, Sorted

\* Two parts, one after the other.
LEMMA PartConcat ==
  ASSUME NEW s, NEW m, NEW a, NEW b, NEW A, NEW B,
         NEW lo \in Nat, NEW mid \in Nat, NEW hi \in Nat, lo <= mid, mid <= hi,
         Part(s, m, a, lo, mid, A), Part(s, m, b, mid, hi, B)
  PROVE  Part(s, m, a \o b, lo, hi, A \cup B)
<1>1. a \in Seq(Step) /\ b \in Seq(Step)
  BY DEF Part
<1>2. Opens(a \o b) = A \cup B
  BY <1>1, OpensConcat DEF Part
<1>3. \A f \in A \cup B : Rank(f) \in lo .. hi - 1
  <2>1. \A f \in A : Rank(f) \in lo .. mid - 1 BY DEF Part
  <2>2. \A f \in B : Rank(f) \in mid .. hi - 1 BY DEF Part
  <2> QED BY <2>1, <2>2
<1>4. \A i \in 1 .. Len(a \o b) : \/ i \in 1 .. Len(a) /\ (a \o b)[i] = a[i]
                                  \/ /\ i > Len(a) /\ i - Len(a) \in 1 .. Len(b)
                                     /\ (a \o b)[i] = b[i - Len(a)]
  BY <1>1
<1>5. ASSUME NEW i \in 1 .. Len(a \o b), NEW j \in 1 .. Len(a \o b), i < j,
             (a \o b)[i].do = "open", (a \o b)[j].do = "open"
      PROVE  Rank((a \o b)[i].fifo) < Rank((a \o b)[j].fifo)
  <2>0. Len(a) \in Nat /\ Len(b) \in Nat BY <1>1
  <2>a. \A k \in 1 .. Len(a) : a[k].do = "open" => Rank(a[k].fifo) \in lo .. mid - 1
    <3>1. \A k \in 1 .. Len(a) : a[k].do = "open" => a[k].fifo \in A
      BY <1>1 DEF Opens, Part
    <3>2. \A f \in A : Rank(f) \in lo .. mid - 1
      BY DEF Part
    <3> QED BY <3>1, <3>2
  <2>b. \A k \in 1 .. Len(b) : b[k].do = "open" => Rank(b[k].fifo) \in mid .. hi - 1
    <3>1. \A k \in 1 .. Len(b) : b[k].do = "open" => b[k].fifo \in B
      BY <1>1 DEF Opens, Part
    <3>2. \A f \in B : Rank(f) \in mid .. hi - 1
      BY DEF Part
    <3> QED BY <3>1, <3>2
  <2>1. CASE j <= Len(a)
    <3>1. i \in 1 .. Len(a) /\ j \in 1 .. Len(a) BY <2>0, <2>1, <1>5
    <3>2. (a \o b)[i] = a[i] /\ (a \o b)[j] = a[j] BY <1>1, <3>1
    <3>3. Sorted(a) BY DEF Part
    <3> QED BY <1>5, <3>1, <3>2, <3>3 DEF Sorted
  <2>2. CASE i > Len(a)
    <3>1. i - Len(a) \in 1 .. Len(b) /\ j - Len(a) \in 1 .. Len(b)
      BY <2>0, <2>2, <1>4, <1>5
    <3>2. (a \o b)[i] = b[i - Len(a)] /\ (a \o b)[j] = b[j - Len(a)]
      BY <2>0, <2>2, <1>4, <1>5
    <3>3. i - Len(a) < j - Len(a) BY <2>0, <1>5
    <3>4. Sorted(b) BY DEF Part
    <3> QED BY <1>5, <3>1, <3>2, <3>3, <3>4 DEF Sorted
  <2>3. CASE i <= Len(a) /\ j > Len(a)
    <3>1. i \in 1 .. Len(a) /\ (a \o b)[i] = a[i] BY <2>0, <2>3, <1>4
    <3>2. j - Len(a) \in 1 .. Len(b) /\ (a \o b)[j] = b[j - Len(a)] BY <2>0, <2>3, <1>4
    <3>3. Rank(a[i].fifo) \in lo .. mid - 1 BY <1>5, <3>1, <2>a
    <3>4. Rank(b[j - Len(a)].fifo) \in mid .. hi - 1 BY <1>5, <3>2, <2>b
    <3> QED BY <3>1, <3>2, <3>3, <3>4
  <2> QED BY <2>0, <2>1, <2>2, <2>3
<1>6. \A i \in 1 .. Len(a \o b) : (a \o b)[i].do = "event" => MinetIsModuleMonitored(s, m)
  <2>1. /\ \A i \in 1 .. Len(a) : a[i].do = "event" => MinetIsModuleMonitored(s, m)
        /\ \A i \in 1 .. Len(b) : b[i].do = "event" => MinetIsModuleMonitored(s, m)
    BY DEF Part
  <2> QED BY <2>1, <1>4
<1> QED BY <1>1, <1>2, <1>3, <1>5, <1>6 DEF Part, Sorted
\* No two modules connect to each other.
LEMMA ConnectIsOneSided ==
  ASSUME NEW m \in Modules, NEW n \in MayConnect(m)
  PROVE  n \in Modules /\ m \notin MayConnect(n)
  BY DEF Modules, MayConnect, Transports

LEMMA AcceptIsConnect ==
  ASSUME NEW m \in Modules, NEW n \in MayAccept(m), n # "app"
  PROVE  n \in Modules /\ m \in MayConnect(n)
  BY DEF Modules, MayConnect, MayAccept, Transports

LEMMA ConnectIsAccept ==
  ASSUME NEW m \in Modules, NEW n \in MayConnect(m)
  PROVE  n \in Modules /\ m \in MayAccept(n) \ {"app"}
  BY DEF Modules, MayConnect, MayAccept, Transports

LEMMA NeighboursAreMutual ==
  ASSUME NEW m \in Modules, NEW n \in Neighbours(m)
  PROVE  n \in Modules /\ m \in Neighbours(n)
  BY ConnectIsAccept, AcceptIsConnect DEF Neighbours

LEMMA PlaceIsNat ==
  ASSUME NEW m, NEW n
  PROVE  Place(m, n) \in Nat
  BY DEF Place

LEMMA RankOfLink ==
  ASSUME NEW m \in Modules, NEW n \in MayConnect(m)
  PROVE  Rank(<<n, m>>) = 2 * Place(m, n) /\ Rank(<<m, n>>) = 2 * Place(m, n) + 1
<1>1. m # "monitor" /\ n # "monitor"
  BY ConnectIsOneSided DEF Modules
<1>2. m \notin MayConnect(n)
  BY ConnectIsOneSided
<1> QED BY <1>1, <1>2 DEF Rank

\* Two FIFOs, the first opened first.
LEMMA PairPart ==
  ASSUME NEW s, NEW m, NEW f \in Names \X Names, NEW g \in Names \X Names, NEW p \in Nat,
         Rank(f) = p, Rank(g) = p + 1
  PROVE  Part(s, m, <<[do |-> "open", fifo |-> f], [do |-> "open", fifo |-> g]>>, p, p + 2,
              {f, g})
<1> DEFINE a == <<[do |-> "open", fifo |-> f], [do |-> "open", fifo |-> g]>>
<1>1. a \in Seq(Step) /\ Len(a) = 2 /\ DOMAIN a = 1 .. 2
  BY DEF Step
<1>2. a[1].do = "open" /\ a[2].do = "open" /\ a[1].fifo = f /\ a[2].fifo = g
  OBVIOUS
<1> HIDE DEF a
<1>3. Opens(a) = {f, g}
  <2>1. \A i \in DOMAIN a : i = 1 \/ i = 2 BY <1>1
  <2>2. Opens(a) \subseteq {f, g} BY <2>1, <1>2 DEF Opens
  <2>3. 1 \in DOMAIN a /\ 2 \in DOMAIN a BY <1>1
  <2>4. f \in Opens(a) /\ g \in Opens(a) BY <2>3, <1>2 DEF Opens
  <2> QED BY <2>2, <2>4
<1>4. Sorted(a)
  <2>1. SUFFICES ASSUME NEW i \in 1 .. 2, NEW j \in 1 .. 2, i < j
                 PROVE  Rank(a[i].fifo) < Rank(a[j].fifo)
    BY <1>1 DEF Sorted
  <2>2. i = 1 /\ j = 2 BY <2>1
  <2> QED BY <2>2, <1>2
<1>5. \A i \in 1 .. Len(a) : a[i].do # "event"
  <2>1. \A i \in 1 .. Len(a) : i = 1 \/ i = 2 BY <1>1
  <2> QED BY <2>1, <1>2
<1>6. \A h \in {f, g} : Rank(h) \in p .. p + 2 - 1
  OBVIOUS
<1>7. Part(s, m, a, p, p + 2, {f, g})
  BY <1>1, <1>3, <1>4, <1>5, <1>6 DEF Part
<1> QED BY <1>7 DEF a

LEMMA SendToMonitorPart ==
  ASSUME NEW s, NEW m, NEW p
  PROVE  Part(s, m, SendToMonitor(s, m), p, p, {})
<1>1. CASE MinetIsModuleMonitored(s, m)
  <2> DEFINE a == <<Event>>
  <2>1. a \in Seq(Step) /\ Len(a) = 1 /\ DOMAIN a = {1} /\ a[1].do = "event"
    BY DEF Event, Step
  <2> HIDE DEF a
  <2>2. Opens(a) = {} BY <2>1 DEF Opens
  <2>3. Sorted(a) BY <2>1 DEF Sorted
  <2>4. Part(s, m, a, p, p, {}) BY <1>1, <2>1, <2>2, <2>3 DEF Part
  <2> QED BY <1>1, <2>4 DEF SendToMonitor, a
<1>2. CASE ~ MinetIsModuleMonitored(s, m)
  BY <1>2, PartEmpty DEF SendToMonitor
<1> QED BY <1>1, <1>2

LEMMA ConnectPart ==
  ASSUME NEW s, NEW m \in Modules, NEW n \in MayConnect(m)
  PROVE  Part(s, m, MinetConnect(s, m, n), 2 * Place(m, n), 2 * Place(m, n) + 2,
              {<<m, n>>, <<n, m>>})
<1> DEFINE p == 2 * Place(m, n)
<1>1. p \in Nat BY PlaceIsNat
<1>2. n \in Modules /\ Modules \subseteq Names BY ConnectIsOneSided DEF Names
<1>3. Rank(<<n, m>>) = p /\ Rank(<<m, n>>) = p + 1 BY RankOfLink
<1> HIDE DEF p
<1>4. Part(s, m, <<Open(n, m), Open(m, n)>>, p, p + 2, {<<n, m>>, <<m, n>>})
  BY <1>1, <1>2, <1>3, PairPart DEF Open
<1>5. Part(s, m, SendToMonitor(s, m), p + 2, p + 2, {})
  BY SendToMonitorPart
<1>6. Part(s, m, MinetConnect(s, m, n), p, p + 2, {<<n, m>>, <<m, n>>} \cup {})
  BY <1>1, <1>4, <1>5, PartConcat DEF MinetConnect
<1>7. {<<n, m>>, <<m, n>>} \cup {} = {<<m, n>>, <<n, m>>}
  OBVIOUS
<1> QED BY <1>6, <1>7 DEF p

LEMMA AcceptPart ==
  ASSUME NEW s, NEW m \in Modules, NEW n \in Modules, m \in MayConnect(n)
  PROVE  Part(s, m, MinetAccept(s, m, n), 2 * Place(n, m), 2 * Place(n, m) + 2,
              {<<m, n>>, <<n, m>>})
<1> DEFINE p == 2 * Place(n, m)
<1>1. p \in Nat BY PlaceIsNat
<1>2. Modules \subseteq Names BY DEF Names
<1>3. Rank(<<m, n>>) = p /\ Rank(<<n, m>>) = p + 1 BY RankOfLink
<1> HIDE DEF p
<1>4. Part(s, m, <<Open(m, n), Open(n, m)>>, p, p + 2, {<<m, n>>, <<n, m>>})
  BY <1>1, <1>2, <1>3, PairPart DEF Open
<1>5. Part(s, m, SendToMonitor(s, m), p + 2, p + 2, {})
  BY SendToMonitorPart
<1>6. Part(s, m, MinetAccept(s, m, n), p, p + 2, {<<m, n>>, <<n, m>>} \cup {})
  BY <1>1, <1>4, <1>5, PartConcat DEF MinetAccept
<1>7. {<<m, n>>, <<n, m>>} \cup {} = {<<m, n>>, <<n, m>>}
  OBVIOUS
<1> QED BY <1>6, <1>7 DEF p

\* The i-th call of m's main, if it has one.
LEMMA CallPart ==
  ASSUME NEW s, NEW m \in Modules, NEW i \in DOMAIN Calls(s, m), NEW n,
         \/ Calls(s, m)[i] = Connect(n) /\ n \in MayConnect(m)
         \/ Calls(s, m)[i] = Accept(n) /\ n \in MayAccept(m) \ {"app"},
         n # "socklib_module"
  PROVE  Part(s, m, CallSteps(s, m, i),
              2 * Place(IF n \in MayConnect(m) THEN m ELSE n, IF n \in MayConnect(m) THEN n ELSE m),
              2 * Place(IF n \in MayConnect(m) THEN m ELSE n, IF n \in MayConnect(m) THEN n ELSE m) + 2,
              Link(s, m, n))
<1>0. n \in Modules /\ Process(n) = n
  BY ConnectIsOneSided, AcceptIsConnect DEF Process, Modules
<1>1. Served(s, n) <=> MinetIsModuleInConfig(s, n)
  BY DEF Served, MinetIsModuleInConfig
<1>2. CASE ~ Served(s, n)
  <2>1. CallSteps(s, m, i) = <<>> BY <1>1, <1>2 DEF CallSteps, Connect, Accept
  <2>2. Link(s, m, n) = {} BY <1>2 DEF Link
  <2> QED BY <2>1, <2>2, PartEmpty
<1>3. CASE Served(s, n) /\ Calls(s, m)[i] = Connect(n) /\ n \in MayConnect(m)
  <2>1. CallSteps(s, m, i) = MinetConnect(s, m, n)
    BY <1>0, <1>1, <1>3 DEF CallSteps, Connect
  <2>2. Link(s, m, n) = {<<m, n>>, <<n, m>>} BY <1>3 DEF Link
  <2> QED BY <2>1, <2>2, <1>3, ConnectPart
<1>4. CASE Served(s, n) /\ Calls(s, m)[i] = Accept(n) /\ n \in MayAccept(m) \ {"app"}
  <2>1. CallSteps(s, m, i) = MinetAccept(s, m, n)
    BY <1>0, <1>1, <1>4 DEF CallSteps, Accept
  <2>2. Link(s, m, n) = {<<m, n>>, <<n, m>>} BY <1>4 DEF Link
  <2>3. m \in MayConnect(n) BY <1>4, AcceptIsConnect
  <2>4. n \notin MayConnect(m) BY <2>3, <1>0, ConnectIsOneSided
  <2> QED BY <2>1, <2>2, <2>3, <2>4, <1>0, AcceptPart
<1> QED BY <1>2, <1>3, <1>4

LEMMA PartWiden ==
  ASSUME NEW s, NEW m, NEW a, NEW A, NEW lo \in Nat, NEW hi \in Nat, NEW lo1 \in Nat, NEW hi1 \in Nat,
         lo1 <= lo, hi <= hi1, Part(s, m, a, lo, hi, A)
  PROVE  Part(s, m, a, lo1, hi1, A)
<1>1. \A f \in A : Rank(f) \in lo1 .. hi1 - 1
  BY DEF Part
<1> QED BY <1>1 DEF Part

\* Two parts with ranks between them.
LEMMA PartAfter ==
  ASSUME NEW s, NEW m, NEW a, NEW b, NEW A, NEW B, NEW lo \in Nat, NEW hi \in Nat,
         NEW lo1 \in Nat, NEW hi1 \in Nat, lo <= hi, hi <= lo1, lo1 <= hi1,
         Part(s, m, a, lo, hi, A), Part(s, m, b, lo1, hi1, B)
  PROVE  Part(s, m, a \o b, lo, hi1, A \cup B)
<1>1. Part(s, m, b, hi, hi1, B)
  BY PartWiden
<1>2. hi <= hi1
  OBVIOUS
<1> QED BY <1>1, <1>2, PartConcat

LEMMA MinetInitPart ==
  ASSUME NEW s, NEW m \in Modules
  PROVE  Part(s, m, MinetInit(s, m), 0, 1, ToMonitor(s, m))
<1>1. CASE MinetIsModuleMonitored(s, m)
  <2> DEFINE a == <<Open(m, "monitor"), Event>>
  <2>1. /\ a \in Seq(Step) /\ Len(a) = 2 /\ DOMAIN a = 1 .. 2
        /\ a[1].do = "open" /\ a[1].fifo = <<m, "monitor">> /\ a[2].do = "event"
    BY DEF Open, Event, Step, Names
  <2> HIDE DEF a
  <2>2. \A i \in 1 .. 2 : i = 1 \/ i = 2  OBVIOUS
  <2>3. 1 \in DOMAIN a BY <2>1
  <2>4. Opens(a) = {<<m, "monitor">>} BY <2>1, <2>2, <2>3 DEF Opens
  <2>5. Sorted(a) BY <2>1, <2>2 DEF Sorted
  <2>6. Rank(<<m, "monitor">>) = 0 BY DEF Rank
  <2>7. Part(s, m, a, 0, 1, {<<m, "monitor">>}) BY <1>1, <2>1, <2>4, <2>5, <2>6 DEF Part
  <2> QED BY <1>1, <2>7 DEF MinetInit, ToMonitor, a
<1>2. CASE ~ MinetIsModuleMonitored(s, m)
  BY <1>2, PartEmpty DEF MinetInit, ToMonitor
<1> QED BY <1>1, <1>2

\* The whole start of a module, from its calls.
LEMMA FiveCalls ==
  ASSUME NEW s, NEW m \in Modules, NEW A, NEW p \in [1 .. 5 -> Nat],
         1 <= p[1], \A i \in 1 .. 4 : p[i] < p[i + 1],
         \A i \in 1 .. 5 : Part(s, m, CallSteps(s, m, i), 2 * p[i], 2 * p[i] + 2, A[i])
  PROVE  Part(s, m, Steps(s, m), 0, 2 * p[5] + 2,
              ToMonitor(s, m) \cup A[1] \cup A[2] \cup A[3] \cup A[4] \cup A[5])
<1> DEFINE a0 == MinetInit(s, m)
           a1 == a0 \o CallSteps(s, m, 1)
           a2 == a1 \o CallSteps(s, m, 2)
           a3 == a2 \o CallSteps(s, m, 3)
           a4 == a3 \o CallSteps(s, m, 4)
           a5 == a4 \o CallSteps(s, m, 5)
           S0 == ToMonitor(s, m)
           S1 == S0 \cup A[1]
           S2 == S1 \cup A[2]
           S3 == S2 \cup A[3]
           S4 == S3 \cup A[4]
           S5 == S4 \cup A[5]
           ext == MinetAddExternalConnection(s, m)
<1>p. /\ \A i \in 1 .. 5 : p[i] \in Nat /\ 2 * p[i] \in Nat /\ 2 * p[i] + 2 \in Nat
      /\ 1 <= 2 * p[1]
      /\ \A i \in 1 .. 4 : 2 * p[i] + 2 <= 2 * p[i + 1]
  OBVIOUS
<1>0. Part(s, m, a0, 0, 1, S0)
  BY MinetInitPart
<1>s. Steps(s, m) = a5 \o ext
  BY DEF Steps, Modules
<1>e. Part(s, m, ext, 2 * p[5] + 2, 2 * p[5] + 2, {})
  BY SendToMonitorPart, PartEmpty DEF MinetAddExternalConnection
<1> HIDE DEF a0, S0, ext
<1>1. Part(s, m, a1, 0, 2 * p[1] + 2, S1)
  <2>1. 1 <= 2 * p[1] /\ 2 * p[1] <= 2 * p[1] + 2 /\ 2 * p[1] \in Nat /\ 2 * p[1] + 2 \in Nat
    BY <1>p
  <2>2. Part(s, m, CallSteps(s, m, 1), 2 * p[1], 2 * p[1] + 2, A[1])
    OBVIOUS
  <2> QED BY <2>1, <2>2, <1>0, PartAfter
<1> HIDE DEF a1, S1
<1>2. Part(s, m, a2, 0, 2 * p[2] + 2, S2)
  <2>1. 2 * p[1] + 2 <= 2 * p[2] /\ 2 * p[2] <= 2 * p[2] + 2 /\ 2 * p[2] \in Nat /\ 2 * p[2] + 2 \in Nat /\ 2 * p[1] + 2 \in Nat /\ 0 <= 2 * p[1] + 2
    BY <1>p
  <2>2. Part(s, m, CallSteps(s, m, 2), 2 * p[2], 2 * p[2] + 2, A[2])
    OBVIOUS
  <2> QED BY <2>1, <2>2, <1>1, PartAfter
<1> HIDE DEF a2, S2
<1>3. Part(s, m, a3, 0, 2 * p[3] + 2, S3)
  <2>1. 2 * p[2] + 2 <= 2 * p[3] /\ 2 * p[3] <= 2 * p[3] + 2 /\ 2 * p[3] \in Nat /\ 2 * p[3] + 2 \in Nat /\ 2 * p[2] + 2 \in Nat /\ 0 <= 2 * p[2] + 2
    BY <1>p
  <2>2. Part(s, m, CallSteps(s, m, 3), 2 * p[3], 2 * p[3] + 2, A[3])
    OBVIOUS
  <2> QED BY <2>1, <2>2, <1>2, PartAfter
<1> HIDE DEF a3, S3
<1>4. Part(s, m, a4, 0, 2 * p[4] + 2, S4)
  <2>1. 2 * p[3] + 2 <= 2 * p[4] /\ 2 * p[4] <= 2 * p[4] + 2 /\ 2 * p[4] \in Nat /\ 2 * p[4] + 2 \in Nat /\ 2 * p[3] + 2 \in Nat /\ 0 <= 2 * p[3] + 2
    BY <1>p
  <2>2. Part(s, m, CallSteps(s, m, 4), 2 * p[4], 2 * p[4] + 2, A[4])
    OBVIOUS
  <2> QED BY <2>1, <2>2, <1>3, PartAfter
<1> HIDE DEF a4, S4
<1>5. Part(s, m, a5, 0, 2 * p[5] + 2, S5)
  <2>1. 2 * p[4] + 2 <= 2 * p[5] /\ 2 * p[5] <= 2 * p[5] + 2 /\ 2 * p[5] \in Nat /\ 2 * p[5] + 2 \in Nat /\ 2 * p[4] + 2 \in Nat /\ 0 <= 2 * p[4] + 2
    BY <1>p
  <2>2. Part(s, m, CallSteps(s, m, 5), 2 * p[5], 2 * p[5] + 2, A[5])
    OBVIOUS
  <2> QED BY <2>1, <2>2, <1>4, PartAfter
<1> HIDE DEF a5, S5
<1>6. Part(s, m, a5 \o ext, 0, 2 * p[5] + 2, S5 \cup {})
  BY <1>5, <1>e, <1>p, PartAfter
<1>7. S5 \cup {} = ToMonitor(s, m) \cup A[1] \cup A[2] \cup A[3] \cup A[4] \cup A[5]
  BY DEF S0, S1, S2, S3, S4, S5
<1> QED BY <1>6, <1>7, <1>s

\* A call's part, with its place.
LEMMA CallAt ==
  ASSUME NEW s, NEW m \in Modules, NEW i \in DOMAIN Calls(s, m), NEW n, NEW p,
         n # "socklib_module",
         \/ Calls(s, m)[i] = Connect(n) /\ n \in MayConnect(m) /\ Place(m, n) = p
         \/ Calls(s, m)[i] = Accept(n) /\ n \in MayAccept(m) \ {"app"} /\ Place(n, m) = p
  PROVE  Part(s, m, CallSteps(s, m, i), 2 * p, 2 * p + 2, Link(s, m, n))
<1>1. n \in MayAccept(m) \ {"app"} => n \notin MayConnect(m)
  BY AcceptIsConnect, ConnectIsOneSided
<1> QED BY <1>1, CallPart

LEMMA NoCallAt ==
  ASSUME NEW s, NEW m, NEW i, i \notin DOMAIN Calls(s, m), NEW lo, NEW hi
  PROVE  Part(s, m, CallSteps(s, m, i), lo, hi, {})
  BY PartEmpty DEF CallSteps

\* All that m is to open.
ToOpen(s, m) == ToMonitor(s, m) \cup UNION {Link(s, m, n) : n \in Neighbours(m)}

StartPart(s, m) ==
  /\ \E hi \in Nat : Part(s, m, Steps(s, m), 0, hi, ToOpen(s, m))
  /\ \A i \in 1 .. 5 : CallSteps(s, m, i) \in Seq(Step)


LEMMA DeviceDriverStart ==
  ASSUME NEW s
  PROVE  StartPart(s, "device_driver")
<1> DEFINE m == "device_driver"
<1>1. /\ m \in Modules /\ DOMAIN Calls(s, m) = 1 .. 1
      /\ Calls(s, m)[1] = Accept("ethernet_mux")
  BY DEF Calls, DeviceDriverMain, Modules, Transports
<1>2. /\ "ethernet_mux" \in MayAccept(m) \ {"app"} /\ Place("ethernet_mux", m) = 1
  BY DEF MayConnect, MayAccept, Place, Transports
<1>3. Neighbours(m) = {"ethernet_mux"}
  BY DEF Neighbours, MayConnect, MayAccept, Transports
<1> DEFINE p == <<1, 2, 3, 4, 5>>
           A == <<Link(s, m, "ethernet_mux"), {}, {}, {}, {}>>
<1>p. /\ p \in [1 .. 5 -> Nat] /\ 1 <= p[1] /\ \A i \in 1 .. 4 : p[i] < p[i + 1]
      /\ p[1] = 1 /\ p[2] = 2 /\ p[3] = 3 /\ p[4] = 4 /\ p[5] = 5
  OBVIOUS
<1>a. A[1] = Link(s, m, "ethernet_mux") /\ A[2] = {} /\ A[3] = {} /\ A[4] = {} /\ A[5] = {}
  OBVIOUS
<1> HIDE DEF m, p, A
<1>c1. Part(s, m, CallSteps(s, m, 1), 2 * p[1], 2 * p[1] + 2, A[1])
  <2>1. Part(s, m, CallSteps(s, m, 1), 2 * 1, 2 * 1 + 2, Link(s, m, "ethernet_mux"))
    BY <1>1, <1>2, CallAt
  <2> QED BY <2>1, <1>p, <1>a
<1>c2. Part(s, m, CallSteps(s, m, 2), 2 * p[2], 2 * p[2] + 2, A[2])
  BY <1>1, <1>a, NoCallAt
<1>c3. Part(s, m, CallSteps(s, m, 3), 2 * p[3], 2 * p[3] + 2, A[3])
  BY <1>1, <1>a, NoCallAt
<1>c4. Part(s, m, CallSteps(s, m, 4), 2 * p[4], 2 * p[4] + 2, A[4])
  BY <1>1, <1>a, NoCallAt
<1>c5. Part(s, m, CallSteps(s, m, 5), 2 * p[5], 2 * p[5] + 2, A[5])
  BY <1>1, <1>a, NoCallAt
<1>c. \A i \in 1 .. 5 : Part(s, m, CallSteps(s, m, i), 2 * p[i], 2 * p[i] + 2, A[i])
  <2>1. \A i \in 1 .. 5 : i = 1 \/ i = 2 \/ i = 3 \/ i = 4 \/ i = 5
    OBVIOUS
  <2> QED BY <2>1, <1>c1, <1>c2, <1>c3, <1>c4, <1>c5
<1>4. Part(s, m, Steps(s, m), 0, 2 * p[5] + 2, ToMonitor(s, m) \cup A[1] \cup A[2] \cup A[3] \cup A[4] \cup A[5])
  BY <1>1, <1>p, <1>c, FiveCalls
<1>5. ToMonitor(s, m) \cup A[1] \cup A[2] \cup A[3] \cup A[4] \cup A[5] = ToOpen(s, m)
  BY <1>3, <1>a DEF ToOpen
<1>p5. 2 * p[5] + 2 \in Nat
  BY <1>p
<1>6. \A i \in 1 .. 5 : CallSteps(s, m, i) \in Seq(Step)
  BY <1>c DEF Part
<1>7. StartPart(s, m)
  BY <1>4, <1>5, <1>6, <1>p5 DEF StartPart
<1> QED BY <1>7 DEF m

LEMMA EthernetMuxStart ==
  ASSUME NEW s
  PROVE  StartPart(s, "ethernet_mux")
<1> DEFINE m == "ethernet_mux"
<1>1. /\ m \in Modules /\ DOMAIN Calls(s, m) = 1 .. 4
      /\ Calls(s, m)[1] = Connect("device_driver")
      /\ Calls(s, m)[2] = Accept("arp_module")
      /\ Calls(s, m)[3] = Accept("ip_module")
      /\ Calls(s, m)[4] = Accept("other_module")
  BY DEF Calls, EthernetMuxMain, Modules, Transports
<1>2. /\ "device_driver" \in MayConnect(m) /\ Place(m, "device_driver") = 1
      /\ "arp_module" \in MayAccept(m) \ {"app"} /\ Place("arp_module", m) = 2
      /\ "ip_module" \in MayAccept(m) \ {"app"} /\ Place("ip_module", m) = 3
      /\ "other_module" \in MayAccept(m) \ {"app"} /\ Place("other_module", m) = 4
  BY DEF MayConnect, MayAccept, Place, Transports
<1>3. Neighbours(m) = {"device_driver", "arp_module", "ip_module", "other_module"}
  BY DEF Neighbours, MayConnect, MayAccept, Transports
<1> DEFINE p == <<1, 2, 3, 4, 5>>
           A == <<Link(s, m, "device_driver"), Link(s, m, "arp_module"), Link(s, m, "ip_module"), Link(s, m, "other_module"), {}>>
<1>p. /\ p \in [1 .. 5 -> Nat] /\ 1 <= p[1] /\ \A i \in 1 .. 4 : p[i] < p[i + 1]
      /\ p[1] = 1 /\ p[2] = 2 /\ p[3] = 3 /\ p[4] = 4 /\ p[5] = 5
  OBVIOUS
<1>a. A[1] = Link(s, m, "device_driver") /\ A[2] = Link(s, m, "arp_module") /\ A[3] = Link(s, m, "ip_module") /\ A[4] = Link(s, m, "other_module") /\ A[5] = {}
  OBVIOUS
<1> HIDE DEF m, p, A
<1>c1. Part(s, m, CallSteps(s, m, 1), 2 * p[1], 2 * p[1] + 2, A[1])
  <2>1. Part(s, m, CallSteps(s, m, 1), 2 * 1, 2 * 1 + 2, Link(s, m, "device_driver"))
    BY <1>1, <1>2, CallAt
  <2> QED BY <2>1, <1>p, <1>a
<1>c2. Part(s, m, CallSteps(s, m, 2), 2 * p[2], 2 * p[2] + 2, A[2])
  <2>1. Part(s, m, CallSteps(s, m, 2), 2 * 2, 2 * 2 + 2, Link(s, m, "arp_module"))
    BY <1>1, <1>2, CallAt
  <2> QED BY <2>1, <1>p, <1>a
<1>c3. Part(s, m, CallSteps(s, m, 3), 2 * p[3], 2 * p[3] + 2, A[3])
  <2>1. Part(s, m, CallSteps(s, m, 3), 2 * 3, 2 * 3 + 2, Link(s, m, "ip_module"))
    BY <1>1, <1>2, CallAt
  <2> QED BY <2>1, <1>p, <1>a
<1>c4. Part(s, m, CallSteps(s, m, 4), 2 * p[4], 2 * p[4] + 2, A[4])
  <2>1. Part(s, m, CallSteps(s, m, 4), 2 * 4, 2 * 4 + 2, Link(s, m, "other_module"))
    BY <1>1, <1>2, CallAt
  <2> QED BY <2>1, <1>p, <1>a
<1>c5. Part(s, m, CallSteps(s, m, 5), 2 * p[5], 2 * p[5] + 2, A[5])
  BY <1>1, <1>a, NoCallAt
<1>c. \A i \in 1 .. 5 : Part(s, m, CallSteps(s, m, i), 2 * p[i], 2 * p[i] + 2, A[i])
  <2>1. \A i \in 1 .. 5 : i = 1 \/ i = 2 \/ i = 3 \/ i = 4 \/ i = 5
    OBVIOUS
  <2> QED BY <2>1, <1>c1, <1>c2, <1>c3, <1>c4, <1>c5
<1>4. Part(s, m, Steps(s, m), 0, 2 * p[5] + 2, ToMonitor(s, m) \cup A[1] \cup A[2] \cup A[3] \cup A[4] \cup A[5])
  BY <1>1, <1>p, <1>c, FiveCalls
<1>5. ToMonitor(s, m) \cup A[1] \cup A[2] \cup A[3] \cup A[4] \cup A[5] = ToOpen(s, m)
  BY <1>3, <1>a DEF ToOpen
<1>p5. 2 * p[5] + 2 \in Nat
  BY <1>p
<1>6. \A i \in 1 .. 5 : CallSteps(s, m, i) \in Seq(Step)
  BY <1>c DEF Part
<1>7. StartPart(s, m)
  BY <1>4, <1>5, <1>6, <1>p5 DEF StartPart
<1> QED BY <1>7 DEF m

LEMMA ArpModuleStart ==
  ASSUME NEW s
  PROVE  StartPart(s, "arp_module")
<1> DEFINE m == "arp_module"
<1>1. /\ m \in Modules /\ DOMAIN Calls(s, m) = 1 .. 2
      /\ Calls(s, m)[1] = Connect("ethernet_mux")
      /\ Calls(s, m)[2] = Accept("ip_module")
  BY DEF Calls, ArpMain, Modules, Transports
<1>2. /\ "ethernet_mux" \in MayConnect(m) /\ Place(m, "ethernet_mux") = 2
      /\ "ip_module" \in MayAccept(m) \ {"app"} /\ Place("ip_module", m) = 5
  BY DEF MayConnect, MayAccept, Place, Transports
<1>3. Neighbours(m) = {"ethernet_mux", "ip_module"}
  BY DEF Neighbours, MayConnect, MayAccept, Transports
<1> DEFINE p == <<2, 5, 6, 7, 8>>
           A == <<Link(s, m, "ethernet_mux"), Link(s, m, "ip_module"), {}, {}, {}>>
<1>p. /\ p \in [1 .. 5 -> Nat] /\ 1 <= p[1] /\ \A i \in 1 .. 4 : p[i] < p[i + 1]
      /\ p[1] = 2 /\ p[2] = 5 /\ p[3] = 6 /\ p[4] = 7 /\ p[5] = 8
  OBVIOUS
<1>a. A[1] = Link(s, m, "ethernet_mux") /\ A[2] = Link(s, m, "ip_module") /\ A[3] = {} /\ A[4] = {} /\ A[5] = {}
  OBVIOUS
<1> HIDE DEF m, p, A
<1>c1. Part(s, m, CallSteps(s, m, 1), 2 * p[1], 2 * p[1] + 2, A[1])
  <2>1. Part(s, m, CallSteps(s, m, 1), 2 * 2, 2 * 2 + 2, Link(s, m, "ethernet_mux"))
    BY <1>1, <1>2, CallAt
  <2> QED BY <2>1, <1>p, <1>a
<1>c2. Part(s, m, CallSteps(s, m, 2), 2 * p[2], 2 * p[2] + 2, A[2])
  <2>1. Part(s, m, CallSteps(s, m, 2), 2 * 5, 2 * 5 + 2, Link(s, m, "ip_module"))
    BY <1>1, <1>2, CallAt
  <2> QED BY <2>1, <1>p, <1>a
<1>c3. Part(s, m, CallSteps(s, m, 3), 2 * p[3], 2 * p[3] + 2, A[3])
  BY <1>1, <1>a, NoCallAt
<1>c4. Part(s, m, CallSteps(s, m, 4), 2 * p[4], 2 * p[4] + 2, A[4])
  BY <1>1, <1>a, NoCallAt
<1>c5. Part(s, m, CallSteps(s, m, 5), 2 * p[5], 2 * p[5] + 2, A[5])
  BY <1>1, <1>a, NoCallAt
<1>c. \A i \in 1 .. 5 : Part(s, m, CallSteps(s, m, i), 2 * p[i], 2 * p[i] + 2, A[i])
  <2>1. \A i \in 1 .. 5 : i = 1 \/ i = 2 \/ i = 3 \/ i = 4 \/ i = 5
    OBVIOUS
  <2> QED BY <2>1, <1>c1, <1>c2, <1>c3, <1>c4, <1>c5
<1>4. Part(s, m, Steps(s, m), 0, 2 * p[5] + 2, ToMonitor(s, m) \cup A[1] \cup A[2] \cup A[3] \cup A[4] \cup A[5])
  BY <1>1, <1>p, <1>c, FiveCalls
<1>5. ToMonitor(s, m) \cup A[1] \cup A[2] \cup A[3] \cup A[4] \cup A[5] = ToOpen(s, m)
  BY <1>3, <1>a DEF ToOpen
<1>p5. 2 * p[5] + 2 \in Nat
  BY <1>p
<1>6. \A i \in 1 .. 5 : CallSteps(s, m, i) \in Seq(Step)
  BY <1>c DEF Part
<1>7. StartPart(s, m)
  BY <1>4, <1>5, <1>6, <1>p5 DEF StartPart
<1> QED BY <1>7 DEF m

LEMMA IpModuleStart ==
  ASSUME NEW s
  PROVE  StartPart(s, "ip_module")
<1> DEFINE m == "ip_module"
<1>1. /\ m \in Modules /\ DOMAIN Calls(s, m) = 1 .. 3
      /\ Calls(s, m)[1] = Connect("ethernet_mux")
      /\ Calls(s, m)[2] = Connect("arp_module")
      /\ Calls(s, m)[3] = Accept("ip_mux")
  BY DEF Calls, IpMain, Modules, Transports
<1>2. /\ "ethernet_mux" \in MayConnect(m) /\ Place(m, "ethernet_mux") = 3
      /\ "arp_module" \in MayConnect(m) /\ Place(m, "arp_module") = 5
      /\ "ip_mux" \in MayAccept(m) \ {"app"} /\ Place("ip_mux", m) = 6
  BY DEF MayConnect, MayAccept, Place, Transports
<1>3. Neighbours(m) = {"ethernet_mux", "arp_module", "ip_mux"}
  BY DEF Neighbours, MayConnect, MayAccept, Transports
<1> DEFINE p == <<3, 5, 6, 7, 8>>
           A == <<Link(s, m, "ethernet_mux"), Link(s, m, "arp_module"), Link(s, m, "ip_mux"), {}, {}>>
<1>p. /\ p \in [1 .. 5 -> Nat] /\ 1 <= p[1] /\ \A i \in 1 .. 4 : p[i] < p[i + 1]
      /\ p[1] = 3 /\ p[2] = 5 /\ p[3] = 6 /\ p[4] = 7 /\ p[5] = 8
  OBVIOUS
<1>a. A[1] = Link(s, m, "ethernet_mux") /\ A[2] = Link(s, m, "arp_module") /\ A[3] = Link(s, m, "ip_mux") /\ A[4] = {} /\ A[5] = {}
  OBVIOUS
<1> HIDE DEF m, p, A
<1>c1. Part(s, m, CallSteps(s, m, 1), 2 * p[1], 2 * p[1] + 2, A[1])
  <2>1. Part(s, m, CallSteps(s, m, 1), 2 * 3, 2 * 3 + 2, Link(s, m, "ethernet_mux"))
    BY <1>1, <1>2, CallAt
  <2> QED BY <2>1, <1>p, <1>a
<1>c2. Part(s, m, CallSteps(s, m, 2), 2 * p[2], 2 * p[2] + 2, A[2])
  <2>1. Part(s, m, CallSteps(s, m, 2), 2 * 5, 2 * 5 + 2, Link(s, m, "arp_module"))
    BY <1>1, <1>2, CallAt
  <2> QED BY <2>1, <1>p, <1>a
<1>c3. Part(s, m, CallSteps(s, m, 3), 2 * p[3], 2 * p[3] + 2, A[3])
  <2>1. Part(s, m, CallSteps(s, m, 3), 2 * 6, 2 * 6 + 2, Link(s, m, "ip_mux"))
    BY <1>1, <1>2, CallAt
  <2> QED BY <2>1, <1>p, <1>a
<1>c4. Part(s, m, CallSteps(s, m, 4), 2 * p[4], 2 * p[4] + 2, A[4])
  BY <1>1, <1>a, NoCallAt
<1>c5. Part(s, m, CallSteps(s, m, 5), 2 * p[5], 2 * p[5] + 2, A[5])
  BY <1>1, <1>a, NoCallAt
<1>c. \A i \in 1 .. 5 : Part(s, m, CallSteps(s, m, i), 2 * p[i], 2 * p[i] + 2, A[i])
  <2>1. \A i \in 1 .. 5 : i = 1 \/ i = 2 \/ i = 3 \/ i = 4 \/ i = 5
    OBVIOUS
  <2> QED BY <2>1, <1>c1, <1>c2, <1>c3, <1>c4, <1>c5
<1>4. Part(s, m, Steps(s, m), 0, 2 * p[5] + 2, ToMonitor(s, m) \cup A[1] \cup A[2] \cup A[3] \cup A[4] \cup A[5])
  BY <1>1, <1>p, <1>c, FiveCalls
<1>5. ToMonitor(s, m) \cup A[1] \cup A[2] \cup A[3] \cup A[4] \cup A[5] = ToOpen(s, m)
  BY <1>3, <1>a DEF ToOpen
<1>p5. 2 * p[5] + 2 \in Nat
  BY <1>p
<1>6. \A i \in 1 .. 5 : CallSteps(s, m, i) \in Seq(Step)
  BY <1>c DEF Part
<1>7. StartPart(s, m)
  BY <1>4, <1>5, <1>6, <1>p5 DEF StartPart
<1> QED BY <1>7 DEF m

LEMMA OtherModuleStart ==
  ASSUME NEW s
  PROVE  StartPart(s, "other_module")
<1> DEFINE m == "other_module"
<1>1. /\ m \in Modules /\ DOMAIN Calls(s, m) = 1 .. 1
      /\ Calls(s, m)[1] = Connect("ethernet_mux")
  BY DEF Calls, OtherMain, Modules, Transports
<1>2. /\ "ethernet_mux" \in MayConnect(m) /\ Place(m, "ethernet_mux") = 4
  BY DEF MayConnect, MayAccept, Place, Transports
<1>3. Neighbours(m) = {"ethernet_mux"}
  BY DEF Neighbours, MayConnect, MayAccept, Transports
<1> DEFINE p == <<4, 5, 6, 7, 8>>
           A == <<Link(s, m, "ethernet_mux"), {}, {}, {}, {}>>
<1>p. /\ p \in [1 .. 5 -> Nat] /\ 1 <= p[1] /\ \A i \in 1 .. 4 : p[i] < p[i + 1]
      /\ p[1] = 4 /\ p[2] = 5 /\ p[3] = 6 /\ p[4] = 7 /\ p[5] = 8
  OBVIOUS
<1>a. A[1] = Link(s, m, "ethernet_mux") /\ A[2] = {} /\ A[3] = {} /\ A[4] = {} /\ A[5] = {}
  OBVIOUS
<1> HIDE DEF m, p, A
<1>c1. Part(s, m, CallSteps(s, m, 1), 2 * p[1], 2 * p[1] + 2, A[1])
  <2>1. Part(s, m, CallSteps(s, m, 1), 2 * 4, 2 * 4 + 2, Link(s, m, "ethernet_mux"))
    BY <1>1, <1>2, CallAt
  <2> QED BY <2>1, <1>p, <1>a
<1>c2. Part(s, m, CallSteps(s, m, 2), 2 * p[2], 2 * p[2] + 2, A[2])
  BY <1>1, <1>a, NoCallAt
<1>c3. Part(s, m, CallSteps(s, m, 3), 2 * p[3], 2 * p[3] + 2, A[3])
  BY <1>1, <1>a, NoCallAt
<1>c4. Part(s, m, CallSteps(s, m, 4), 2 * p[4], 2 * p[4] + 2, A[4])
  BY <1>1, <1>a, NoCallAt
<1>c5. Part(s, m, CallSteps(s, m, 5), 2 * p[5], 2 * p[5] + 2, A[5])
  BY <1>1, <1>a, NoCallAt
<1>c. \A i \in 1 .. 5 : Part(s, m, CallSteps(s, m, i), 2 * p[i], 2 * p[i] + 2, A[i])
  <2>1. \A i \in 1 .. 5 : i = 1 \/ i = 2 \/ i = 3 \/ i = 4 \/ i = 5
    OBVIOUS
  <2> QED BY <2>1, <1>c1, <1>c2, <1>c3, <1>c4, <1>c5
<1>4. Part(s, m, Steps(s, m), 0, 2 * p[5] + 2, ToMonitor(s, m) \cup A[1] \cup A[2] \cup A[3] \cup A[4] \cup A[5])
  BY <1>1, <1>p, <1>c, FiveCalls
<1>5. ToMonitor(s, m) \cup A[1] \cup A[2] \cup A[3] \cup A[4] \cup A[5] = ToOpen(s, m)
  BY <1>3, <1>a DEF ToOpen
<1>p5. 2 * p[5] + 2 \in Nat
  BY <1>p
<1>6. \A i \in 1 .. 5 : CallSteps(s, m, i) \in Seq(Step)
  BY <1>c DEF Part
<1>7. StartPart(s, m)
  BY <1>4, <1>5, <1>6, <1>p5 DEF StartPart
<1> QED BY <1>7 DEF m

LEMMA IpMuxStart ==
  ASSUME NEW s
  PROVE  StartPart(s, "ip_mux")
<1> DEFINE m == "ip_mux"
<1>1. /\ m \in Modules /\ DOMAIN Calls(s, m) = 1 .. 5
      /\ Calls(s, m)[1] = Connect("ip_module")
      /\ Calls(s, m)[2] = Accept("udp_module")
      /\ Calls(s, m)[3] = Accept("tcp_module")
      /\ Calls(s, m)[4] = Accept("icmp_module")
      /\ Calls(s, m)[5] = Accept("ipother_module")
  BY DEF Calls, IpMuxMain, Modules, Transports
<1>2. /\ "ip_module" \in MayConnect(m) /\ Place(m, "ip_module") = 6
      /\ "udp_module" \in MayAccept(m) \ {"app"} /\ Place("udp_module", m) = 7
      /\ "tcp_module" \in MayAccept(m) \ {"app"} /\ Place("tcp_module", m) = 8
      /\ "icmp_module" \in MayAccept(m) \ {"app"} /\ Place("icmp_module", m) = 9
      /\ "ipother_module" \in MayAccept(m) \ {"app"} /\ Place("ipother_module", m) = 10
  BY DEF MayConnect, MayAccept, Place, Transports
<1>3. Neighbours(m) = {"ip_module", "udp_module", "tcp_module", "icmp_module", "ipother_module"}
  BY DEF Neighbours, MayConnect, MayAccept, Transports
<1> DEFINE p == <<6, 7, 8, 9, 10>>
           A == <<Link(s, m, "ip_module"), Link(s, m, "udp_module"), Link(s, m, "tcp_module"), Link(s, m, "icmp_module"), Link(s, m, "ipother_module")>>
<1>p. /\ p \in [1 .. 5 -> Nat] /\ 1 <= p[1] /\ \A i \in 1 .. 4 : p[i] < p[i + 1]
      /\ p[1] = 6 /\ p[2] = 7 /\ p[3] = 8 /\ p[4] = 9 /\ p[5] = 10
  OBVIOUS
<1>a. A[1] = Link(s, m, "ip_module") /\ A[2] = Link(s, m, "udp_module") /\ A[3] = Link(s, m, "tcp_module") /\ A[4] = Link(s, m, "icmp_module") /\ A[5] = Link(s, m, "ipother_module")
  OBVIOUS
<1> HIDE DEF m, p, A
<1>c1. Part(s, m, CallSteps(s, m, 1), 2 * p[1], 2 * p[1] + 2, A[1])
  <2>1. Part(s, m, CallSteps(s, m, 1), 2 * 6, 2 * 6 + 2, Link(s, m, "ip_module"))
    BY <1>1, <1>2, CallAt
  <2> QED BY <2>1, <1>p, <1>a
<1>c2. Part(s, m, CallSteps(s, m, 2), 2 * p[2], 2 * p[2] + 2, A[2])
  <2>1. Part(s, m, CallSteps(s, m, 2), 2 * 7, 2 * 7 + 2, Link(s, m, "udp_module"))
    BY <1>1, <1>2, CallAt
  <2> QED BY <2>1, <1>p, <1>a
<1>c3. Part(s, m, CallSteps(s, m, 3), 2 * p[3], 2 * p[3] + 2, A[3])
  <2>1. Part(s, m, CallSteps(s, m, 3), 2 * 8, 2 * 8 + 2, Link(s, m, "tcp_module"))
    BY <1>1, <1>2, CallAt
  <2> QED BY <2>1, <1>p, <1>a
<1>c4. Part(s, m, CallSteps(s, m, 4), 2 * p[4], 2 * p[4] + 2, A[4])
  <2>1. Part(s, m, CallSteps(s, m, 4), 2 * 9, 2 * 9 + 2, Link(s, m, "icmp_module"))
    BY <1>1, <1>2, CallAt
  <2> QED BY <2>1, <1>p, <1>a
<1>c5. Part(s, m, CallSteps(s, m, 5), 2 * p[5], 2 * p[5] + 2, A[5])
  <2>1. Part(s, m, CallSteps(s, m, 5), 2 * 10, 2 * 10 + 2, Link(s, m, "ipother_module"))
    BY <1>1, <1>2, CallAt
  <2> QED BY <2>1, <1>p, <1>a
<1>c. \A i \in 1 .. 5 : Part(s, m, CallSteps(s, m, i), 2 * p[i], 2 * p[i] + 2, A[i])
  <2>1. \A i \in 1 .. 5 : i = 1 \/ i = 2 \/ i = 3 \/ i = 4 \/ i = 5
    OBVIOUS
  <2> QED BY <2>1, <1>c1, <1>c2, <1>c3, <1>c4, <1>c5
<1>4. Part(s, m, Steps(s, m), 0, 2 * p[5] + 2, ToMonitor(s, m) \cup A[1] \cup A[2] \cup A[3] \cup A[4] \cup A[5])
  BY <1>1, <1>p, <1>c, FiveCalls
<1>5. ToMonitor(s, m) \cup A[1] \cup A[2] \cup A[3] \cup A[4] \cup A[5] = ToOpen(s, m)
  BY <1>3, <1>a DEF ToOpen
<1>p5. 2 * p[5] + 2 \in Nat
  BY <1>p
<1>6. \A i \in 1 .. 5 : CallSteps(s, m, i) \in Seq(Step)
  BY <1>c DEF Part
<1>7. StartPart(s, m)
  BY <1>4, <1>5, <1>6, <1>p5 DEF StartPart
<1> QED BY <1>7 DEF m

LEMMA UdpModuleStart ==
  ASSUME NEW s
  PROVE  StartPart(s, "udp_module")
<1> DEFINE m == "udp_module"
<1>1. /\ m \in Modules /\ DOMAIN Calls(s, m) = 1 .. 2
      /\ Calls(s, m)[1] = Connect("ip_mux")
      /\ Calls(s, m)[2] = Accept("sock_module")
  BY DEF Calls, TransportMain, Modules, Transports
<1>2. /\ "ip_mux" \in MayConnect(m) /\ Place(m, "ip_mux") = 7
      /\ "sock_module" \in MayAccept(m) \ {"app"} /\ Place("sock_module", m) = 12
  BY DEF MayConnect, MayAccept, Place, Transports
<1>3. Neighbours(m) = {"ip_mux", "sock_module"}
  BY DEF Neighbours, MayConnect, MayAccept, Transports
<1> DEFINE p == <<7, 12, 13, 14, 15>>
           A == <<Link(s, m, "ip_mux"), Link(s, m, "sock_module"), {}, {}, {}>>
<1>p. /\ p \in [1 .. 5 -> Nat] /\ 1 <= p[1] /\ \A i \in 1 .. 4 : p[i] < p[i + 1]
      /\ p[1] = 7 /\ p[2] = 12 /\ p[3] = 13 /\ p[4] = 14 /\ p[5] = 15
  OBVIOUS
<1>a. A[1] = Link(s, m, "ip_mux") /\ A[2] = Link(s, m, "sock_module") /\ A[3] = {} /\ A[4] = {} /\ A[5] = {}
  OBVIOUS
<1> HIDE DEF m, p, A
<1>c1. Part(s, m, CallSteps(s, m, 1), 2 * p[1], 2 * p[1] + 2, A[1])
  <2>1. Part(s, m, CallSteps(s, m, 1), 2 * 7, 2 * 7 + 2, Link(s, m, "ip_mux"))
    BY <1>1, <1>2, CallAt
  <2> QED BY <2>1, <1>p, <1>a
<1>c2. Part(s, m, CallSteps(s, m, 2), 2 * p[2], 2 * p[2] + 2, A[2])
  <2>1. Part(s, m, CallSteps(s, m, 2), 2 * 12, 2 * 12 + 2, Link(s, m, "sock_module"))
    BY <1>1, <1>2, CallAt
  <2> QED BY <2>1, <1>p, <1>a
<1>c3. Part(s, m, CallSteps(s, m, 3), 2 * p[3], 2 * p[3] + 2, A[3])
  BY <1>1, <1>a, NoCallAt
<1>c4. Part(s, m, CallSteps(s, m, 4), 2 * p[4], 2 * p[4] + 2, A[4])
  BY <1>1, <1>a, NoCallAt
<1>c5. Part(s, m, CallSteps(s, m, 5), 2 * p[5], 2 * p[5] + 2, A[5])
  BY <1>1, <1>a, NoCallAt
<1>c. \A i \in 1 .. 5 : Part(s, m, CallSteps(s, m, i), 2 * p[i], 2 * p[i] + 2, A[i])
  <2>1. \A i \in 1 .. 5 : i = 1 \/ i = 2 \/ i = 3 \/ i = 4 \/ i = 5
    OBVIOUS
  <2> QED BY <2>1, <1>c1, <1>c2, <1>c3, <1>c4, <1>c5
<1>4. Part(s, m, Steps(s, m), 0, 2 * p[5] + 2, ToMonitor(s, m) \cup A[1] \cup A[2] \cup A[3] \cup A[4] \cup A[5])
  BY <1>1, <1>p, <1>c, FiveCalls
<1>5. ToMonitor(s, m) \cup A[1] \cup A[2] \cup A[3] \cup A[4] \cup A[5] = ToOpen(s, m)
  BY <1>3, <1>a DEF ToOpen
<1>p5. 2 * p[5] + 2 \in Nat
  BY <1>p
<1>6. \A i \in 1 .. 5 : CallSteps(s, m, i) \in Seq(Step)
  BY <1>c DEF Part
<1>7. StartPart(s, m)
  BY <1>4, <1>5, <1>6, <1>p5 DEF StartPart
<1> QED BY <1>7 DEF m

LEMMA TcpModuleStart ==
  ASSUME NEW s
  PROVE  StartPart(s, "tcp_module")
<1> DEFINE m == "tcp_module"
<1>1. /\ m \in Modules /\ DOMAIN Calls(s, m) = 1 .. 2
      /\ Calls(s, m)[1] = Connect("ip_mux")
      /\ Calls(s, m)[2] = Accept("sock_module")
  BY DEF Calls, TransportMain, Modules, Transports
<1>2. /\ "ip_mux" \in MayConnect(m) /\ Place(m, "ip_mux") = 8
      /\ "sock_module" \in MayAccept(m) \ {"app"} /\ Place("sock_module", m) = 11
  BY DEF MayConnect, MayAccept, Place, Transports
<1>3. Neighbours(m) = {"ip_mux", "sock_module"}
  BY DEF Neighbours, MayConnect, MayAccept, Transports
<1> DEFINE p == <<8, 11, 12, 13, 14>>
           A == <<Link(s, m, "ip_mux"), Link(s, m, "sock_module"), {}, {}, {}>>
<1>p. /\ p \in [1 .. 5 -> Nat] /\ 1 <= p[1] /\ \A i \in 1 .. 4 : p[i] < p[i + 1]
      /\ p[1] = 8 /\ p[2] = 11 /\ p[3] = 12 /\ p[4] = 13 /\ p[5] = 14
  OBVIOUS
<1>a. A[1] = Link(s, m, "ip_mux") /\ A[2] = Link(s, m, "sock_module") /\ A[3] = {} /\ A[4] = {} /\ A[5] = {}
  OBVIOUS
<1> HIDE DEF m, p, A
<1>c1. Part(s, m, CallSteps(s, m, 1), 2 * p[1], 2 * p[1] + 2, A[1])
  <2>1. Part(s, m, CallSteps(s, m, 1), 2 * 8, 2 * 8 + 2, Link(s, m, "ip_mux"))
    BY <1>1, <1>2, CallAt
  <2> QED BY <2>1, <1>p, <1>a
<1>c2. Part(s, m, CallSteps(s, m, 2), 2 * p[2], 2 * p[2] + 2, A[2])
  <2>1. Part(s, m, CallSteps(s, m, 2), 2 * 11, 2 * 11 + 2, Link(s, m, "sock_module"))
    BY <1>1, <1>2, CallAt
  <2> QED BY <2>1, <1>p, <1>a
<1>c3. Part(s, m, CallSteps(s, m, 3), 2 * p[3], 2 * p[3] + 2, A[3])
  BY <1>1, <1>a, NoCallAt
<1>c4. Part(s, m, CallSteps(s, m, 4), 2 * p[4], 2 * p[4] + 2, A[4])
  BY <1>1, <1>a, NoCallAt
<1>c5. Part(s, m, CallSteps(s, m, 5), 2 * p[5], 2 * p[5] + 2, A[5])
  BY <1>1, <1>a, NoCallAt
<1>c. \A i \in 1 .. 5 : Part(s, m, CallSteps(s, m, i), 2 * p[i], 2 * p[i] + 2, A[i])
  <2>1. \A i \in 1 .. 5 : i = 1 \/ i = 2 \/ i = 3 \/ i = 4 \/ i = 5
    OBVIOUS
  <2> QED BY <2>1, <1>c1, <1>c2, <1>c3, <1>c4, <1>c5
<1>4. Part(s, m, Steps(s, m), 0, 2 * p[5] + 2, ToMonitor(s, m) \cup A[1] \cup A[2] \cup A[3] \cup A[4] \cup A[5])
  BY <1>1, <1>p, <1>c, FiveCalls
<1>5. ToMonitor(s, m) \cup A[1] \cup A[2] \cup A[3] \cup A[4] \cup A[5] = ToOpen(s, m)
  BY <1>3, <1>a DEF ToOpen
<1>p5. 2 * p[5] + 2 \in Nat
  BY <1>p
<1>6. \A i \in 1 .. 5 : CallSteps(s, m, i) \in Seq(Step)
  BY <1>c DEF Part
<1>7. StartPart(s, m)
  BY <1>4, <1>5, <1>6, <1>p5 DEF StartPart
<1> QED BY <1>7 DEF m

LEMMA IcmpModuleStart ==
  ASSUME NEW s
  PROVE  StartPart(s, "icmp_module")
<1> DEFINE m == "icmp_module"
<1>1. /\ m \in Modules /\ DOMAIN Calls(s, m) = 1 .. 2
      /\ Calls(s, m)[1] = Connect("ip_mux")
      /\ Calls(s, m)[2] = Accept("sock_module")
  BY DEF Calls, TransportMain, Modules, Transports
<1>2. /\ "ip_mux" \in MayConnect(m) /\ Place(m, "ip_mux") = 9
      /\ "sock_module" \in MayAccept(m) \ {"app"} /\ Place("sock_module", m) = 13
  BY DEF MayConnect, MayAccept, Place, Transports
<1>3. Neighbours(m) = {"ip_mux", "sock_module"}
  BY DEF Neighbours, MayConnect, MayAccept, Transports
<1> DEFINE p == <<9, 13, 14, 15, 16>>
           A == <<Link(s, m, "ip_mux"), Link(s, m, "sock_module"), {}, {}, {}>>
<1>p. /\ p \in [1 .. 5 -> Nat] /\ 1 <= p[1] /\ \A i \in 1 .. 4 : p[i] < p[i + 1]
      /\ p[1] = 9 /\ p[2] = 13 /\ p[3] = 14 /\ p[4] = 15 /\ p[5] = 16
  OBVIOUS
<1>a. A[1] = Link(s, m, "ip_mux") /\ A[2] = Link(s, m, "sock_module") /\ A[3] = {} /\ A[4] = {} /\ A[5] = {}
  OBVIOUS
<1> HIDE DEF m, p, A
<1>c1. Part(s, m, CallSteps(s, m, 1), 2 * p[1], 2 * p[1] + 2, A[1])
  <2>1. Part(s, m, CallSteps(s, m, 1), 2 * 9, 2 * 9 + 2, Link(s, m, "ip_mux"))
    BY <1>1, <1>2, CallAt
  <2> QED BY <2>1, <1>p, <1>a
<1>c2. Part(s, m, CallSteps(s, m, 2), 2 * p[2], 2 * p[2] + 2, A[2])
  <2>1. Part(s, m, CallSteps(s, m, 2), 2 * 13, 2 * 13 + 2, Link(s, m, "sock_module"))
    BY <1>1, <1>2, CallAt
  <2> QED BY <2>1, <1>p, <1>a
<1>c3. Part(s, m, CallSteps(s, m, 3), 2 * p[3], 2 * p[3] + 2, A[3])
  BY <1>1, <1>a, NoCallAt
<1>c4. Part(s, m, CallSteps(s, m, 4), 2 * p[4], 2 * p[4] + 2, A[4])
  BY <1>1, <1>a, NoCallAt
<1>c5. Part(s, m, CallSteps(s, m, 5), 2 * p[5], 2 * p[5] + 2, A[5])
  BY <1>1, <1>a, NoCallAt
<1>c. \A i \in 1 .. 5 : Part(s, m, CallSteps(s, m, i), 2 * p[i], 2 * p[i] + 2, A[i])
  <2>1. \A i \in 1 .. 5 : i = 1 \/ i = 2 \/ i = 3 \/ i = 4 \/ i = 5
    OBVIOUS
  <2> QED BY <2>1, <1>c1, <1>c2, <1>c3, <1>c4, <1>c5
<1>4. Part(s, m, Steps(s, m), 0, 2 * p[5] + 2, ToMonitor(s, m) \cup A[1] \cup A[2] \cup A[3] \cup A[4] \cup A[5])
  BY <1>1, <1>p, <1>c, FiveCalls
<1>5. ToMonitor(s, m) \cup A[1] \cup A[2] \cup A[3] \cup A[4] \cup A[5] = ToOpen(s, m)
  BY <1>3, <1>a DEF ToOpen
<1>p5. 2 * p[5] + 2 \in Nat
  BY <1>p
<1>6. \A i \in 1 .. 5 : CallSteps(s, m, i) \in Seq(Step)
  BY <1>c DEF Part
<1>7. StartPart(s, m)
  BY <1>4, <1>5, <1>6, <1>p5 DEF StartPart
<1> QED BY <1>7 DEF m

LEMMA IpotherModuleStart ==
  ASSUME NEW s
  PROVE  StartPart(s, "ipother_module")
<1> DEFINE m == "ipother_module"
<1>1. /\ m \in Modules /\ DOMAIN Calls(s, m) = 1 .. 2
      /\ Calls(s, m)[1] = Connect("ip_mux")
      /\ Calls(s, m)[2] = Accept("sock_module")
  BY DEF Calls, TransportMain, Modules, Transports
<1>2. /\ "ip_mux" \in MayConnect(m) /\ Place(m, "ip_mux") = 10
      /\ "sock_module" \in MayAccept(m) \ {"app"} /\ Place("sock_module", m) = 14
  BY DEF MayConnect, MayAccept, Place, Transports
<1>3. Neighbours(m) = {"ip_mux", "sock_module"}
  BY DEF Neighbours, MayConnect, MayAccept, Transports
<1> DEFINE p == <<10, 14, 15, 16, 17>>
           A == <<Link(s, m, "ip_mux"), Link(s, m, "sock_module"), {}, {}, {}>>
<1>p. /\ p \in [1 .. 5 -> Nat] /\ 1 <= p[1] /\ \A i \in 1 .. 4 : p[i] < p[i + 1]
      /\ p[1] = 10 /\ p[2] = 14 /\ p[3] = 15 /\ p[4] = 16 /\ p[5] = 17
  OBVIOUS
<1>a. A[1] = Link(s, m, "ip_mux") /\ A[2] = Link(s, m, "sock_module") /\ A[3] = {} /\ A[4] = {} /\ A[5] = {}
  OBVIOUS
<1> HIDE DEF m, p, A
<1>c1. Part(s, m, CallSteps(s, m, 1), 2 * p[1], 2 * p[1] + 2, A[1])
  <2>1. Part(s, m, CallSteps(s, m, 1), 2 * 10, 2 * 10 + 2, Link(s, m, "ip_mux"))
    BY <1>1, <1>2, CallAt
  <2> QED BY <2>1, <1>p, <1>a
<1>c2. Part(s, m, CallSteps(s, m, 2), 2 * p[2], 2 * p[2] + 2, A[2])
  <2>1. Part(s, m, CallSteps(s, m, 2), 2 * 14, 2 * 14 + 2, Link(s, m, "sock_module"))
    BY <1>1, <1>2, CallAt
  <2> QED BY <2>1, <1>p, <1>a
<1>c3. Part(s, m, CallSteps(s, m, 3), 2 * p[3], 2 * p[3] + 2, A[3])
  BY <1>1, <1>a, NoCallAt
<1>c4. Part(s, m, CallSteps(s, m, 4), 2 * p[4], 2 * p[4] + 2, A[4])
  BY <1>1, <1>a, NoCallAt
<1>c5. Part(s, m, CallSteps(s, m, 5), 2 * p[5], 2 * p[5] + 2, A[5])
  BY <1>1, <1>a, NoCallAt
<1>c. \A i \in 1 .. 5 : Part(s, m, CallSteps(s, m, i), 2 * p[i], 2 * p[i] + 2, A[i])
  <2>1. \A i \in 1 .. 5 : i = 1 \/ i = 2 \/ i = 3 \/ i = 4 \/ i = 5
    OBVIOUS
  <2> QED BY <2>1, <1>c1, <1>c2, <1>c3, <1>c4, <1>c5
<1>4. Part(s, m, Steps(s, m), 0, 2 * p[5] + 2, ToMonitor(s, m) \cup A[1] \cup A[2] \cup A[3] \cup A[4] \cup A[5])
  BY <1>1, <1>p, <1>c, FiveCalls
<1>5. ToMonitor(s, m) \cup A[1] \cup A[2] \cup A[3] \cup A[4] \cup A[5] = ToOpen(s, m)
  BY <1>3, <1>a DEF ToOpen
<1>p5. 2 * p[5] + 2 \in Nat
  BY <1>p
<1>6. \A i \in 1 .. 5 : CallSteps(s, m, i) \in Seq(Step)
  BY <1>c DEF Part
<1>7. StartPart(s, m)
  BY <1>4, <1>5, <1>6, <1>p5 DEF StartPart
<1> QED BY <1>7 DEF m

LEMMA SockModuleStart ==
  ASSUME NEW s
  PROVE  StartPart(s, "sock_module")
<1> DEFINE m == "sock_module"
<1>1. /\ m \in Modules /\ DOMAIN Calls(s, m) = 1 .. 5
      /\ Calls(s, m)[1] = Connect("tcp_module")
      /\ Calls(s, m)[2] = Connect("udp_module")
      /\ Calls(s, m)[3] = Connect("icmp_module")
      /\ Calls(s, m)[4] = Connect("ipother_module")
      /\ Calls(s, m)[5] = Accept(IF MinetIsModuleInConfig(s, "app") THEN "app" ELSE "socklib_module")
  BY DEF Calls, SockMain, Modules, Transports
<1>2. /\ "tcp_module" \in MayConnect(m) /\ Place(m, "tcp_module") = 11
      /\ "udp_module" \in MayConnect(m) /\ Place(m, "udp_module") = 12
      /\ "icmp_module" \in MayConnect(m) /\ Place(m, "icmp_module") = 13
      /\ "ipother_module" \in MayConnect(m) /\ Place(m, "ipother_module") = 14
      /\ "socklib_module" \in MayAccept(m) \ {"app"} /\ Place("socklib_module", m) = 15
  BY DEF MayConnect, MayAccept, Place, Transports
<1>3. Neighbours(m) = {"tcp_module", "udp_module", "icmp_module", "ipother_module", "socklib_module"}
  BY DEF Neighbours, MayConnect, MayAccept, Transports
<1> DEFINE p == <<11, 12, 13, 14, 15>>
           A == <<Link(s, m, "tcp_module"), Link(s, m, "udp_module"), Link(s, m, "icmp_module"), Link(s, m, "ipother_module"), Link(s, m, "socklib_module")>>
<1>p. /\ p \in [1 .. 5 -> Nat] /\ 1 <= p[1] /\ \A i \in 1 .. 4 : p[i] < p[i + 1]
      /\ p[1] = 11 /\ p[2] = 12 /\ p[3] = 13 /\ p[4] = 14 /\ p[5] = 15
  OBVIOUS
<1>a. A[1] = Link(s, m, "tcp_module") /\ A[2] = Link(s, m, "udp_module") /\ A[3] = Link(s, m, "icmp_module") /\ A[4] = Link(s, m, "ipother_module") /\ A[5] = Link(s, m, "socklib_module")
  OBVIOUS
<1> HIDE DEF m, p, A
<1>c1. Part(s, m, CallSteps(s, m, 1), 2 * p[1], 2 * p[1] + 2, A[1])
  <2>1. Part(s, m, CallSteps(s, m, 1), 2 * 11, 2 * 11 + 2, Link(s, m, "tcp_module"))
    BY <1>1, <1>2, CallAt
  <2> QED BY <2>1, <1>p, <1>a
<1>c2. Part(s, m, CallSteps(s, m, 2), 2 * p[2], 2 * p[2] + 2, A[2])
  <2>1. Part(s, m, CallSteps(s, m, 2), 2 * 12, 2 * 12 + 2, Link(s, m, "udp_module"))
    BY <1>1, <1>2, CallAt
  <2> QED BY <2>1, <1>p, <1>a
<1>c3. Part(s, m, CallSteps(s, m, 3), 2 * p[3], 2 * p[3] + 2, A[3])
  <2>1. Part(s, m, CallSteps(s, m, 3), 2 * 13, 2 * 13 + 2, Link(s, m, "icmp_module"))
    BY <1>1, <1>2, CallAt
  <2> QED BY <2>1, <1>p, <1>a
<1>c4. Part(s, m, CallSteps(s, m, 4), 2 * p[4], 2 * p[4] + 2, A[4])
  <2>1. Part(s, m, CallSteps(s, m, 4), 2 * 14, 2 * 14 + 2, Link(s, m, "ipother_module"))
    BY <1>1, <1>2, CallAt
  <2> QED BY <2>1, <1>p, <1>a
<1>c5. Part(s, m, CallSteps(s, m, 5), 2 * p[5], 2 * p[5] + 2, A[5])
  <2>1. CASE Served(s, "socklib_module")
    <3>1. CallSteps(s, m, 5) = MinetAccept(s, m, "socklib_module")
      BY <1>1, <2>1 DEF CallSteps, Served, MinetIsModuleInConfig, Accept, Process
    <3>2. "socklib_module" \in Modules /\ m \in MayConnect("socklib_module")
      BY <1>1, <1>2, AcceptIsConnect
    <3>3. Part(s, m, CallSteps(s, m, 5), 2 * p[5], 2 * p[5] + 2, {<<m, "socklib_module">>, <<"socklib_module", m>>})
      BY <1>1, <1>2, <1>p, <3>1, <3>2, AcceptPart
    <3> QED BY <1>a, <2>1, <3>3 DEF Link
  <2>2. CASE ~ Served(s, "socklib_module")
    <3>1. CallSteps(s, m, 5) = <<>>
      BY <1>1, <2>2 DEF CallSteps, Served, MinetIsModuleInConfig, Accept
    <3> QED BY <1>a, <2>2, <3>1, PartEmpty DEF Link
  <2> QED BY <2>1, <2>2
<1>c. \A i \in 1 .. 5 : Part(s, m, CallSteps(s, m, i), 2 * p[i], 2 * p[i] + 2, A[i])
  <2>1. \A i \in 1 .. 5 : i = 1 \/ i = 2 \/ i = 3 \/ i = 4 \/ i = 5
    OBVIOUS
  <2> QED BY <2>1, <1>c1, <1>c2, <1>c3, <1>c4, <1>c5
<1>4. Part(s, m, Steps(s, m), 0, 2 * p[5] + 2, ToMonitor(s, m) \cup A[1] \cup A[2] \cup A[3] \cup A[4] \cup A[5])
  BY <1>1, <1>p, <1>c, FiveCalls
<1>5. ToMonitor(s, m) \cup A[1] \cup A[2] \cup A[3] \cup A[4] \cup A[5] = ToOpen(s, m)
  BY <1>3, <1>a DEF ToOpen
<1>p5. 2 * p[5] + 2 \in Nat
  BY <1>p
<1>6. \A i \in 1 .. 5 : CallSteps(s, m, i) \in Seq(Step)
  BY <1>c DEF Part
<1>7. StartPart(s, m)
  BY <1>4, <1>5, <1>6, <1>p5 DEF StartPart
<1> QED BY <1>7 DEF m

LEMMA SocklibModuleStart ==
  ASSUME NEW s
  PROVE  StartPart(s, "socklib_module")
<1> DEFINE m == "socklib_module"
<1>1. /\ m \in Modules /\ DOMAIN Calls(s, m) = 1 .. 1
      /\ Calls(s, m)[1] = Connect("sock_module")
  BY DEF Calls, AppMain, Modules, Transports
<1>2. /\ "sock_module" \in MayConnect(m) /\ Place(m, "sock_module") = 15
  BY DEF MayConnect, MayAccept, Place, Transports
<1>3. Neighbours(m) = {"sock_module"}
  BY DEF Neighbours, MayConnect, MayAccept, Transports
<1> DEFINE p == <<15, 16, 17, 18, 19>>
           A == <<Link(s, m, "sock_module"), {}, {}, {}, {}>>
<1>p. /\ p \in [1 .. 5 -> Nat] /\ 1 <= p[1] /\ \A i \in 1 .. 4 : p[i] < p[i + 1]
      /\ p[1] = 15 /\ p[2] = 16 /\ p[3] = 17 /\ p[4] = 18 /\ p[5] = 19
  OBVIOUS
<1>a. A[1] = Link(s, m, "sock_module") /\ A[2] = {} /\ A[3] = {} /\ A[4] = {} /\ A[5] = {}
  OBVIOUS
<1> HIDE DEF m, p, A
<1>c1. Part(s, m, CallSteps(s, m, 1), 2 * p[1], 2 * p[1] + 2, A[1])
  <2>1. Part(s, m, CallSteps(s, m, 1), 2 * 15, 2 * 15 + 2, Link(s, m, "sock_module"))
    BY <1>1, <1>2, CallAt
  <2> QED BY <2>1, <1>p, <1>a
<1>c2. Part(s, m, CallSteps(s, m, 2), 2 * p[2], 2 * p[2] + 2, A[2])
  BY <1>1, <1>a, NoCallAt
<1>c3. Part(s, m, CallSteps(s, m, 3), 2 * p[3], 2 * p[3] + 2, A[3])
  BY <1>1, <1>a, NoCallAt
<1>c4. Part(s, m, CallSteps(s, m, 4), 2 * p[4], 2 * p[4] + 2, A[4])
  BY <1>1, <1>a, NoCallAt
<1>c5. Part(s, m, CallSteps(s, m, 5), 2 * p[5], 2 * p[5] + 2, A[5])
  BY <1>1, <1>a, NoCallAt
<1>c. \A i \in 1 .. 5 : Part(s, m, CallSteps(s, m, i), 2 * p[i], 2 * p[i] + 2, A[i])
  <2>1. \A i \in 1 .. 5 : i = 1 \/ i = 2 \/ i = 3 \/ i = 4 \/ i = 5
    OBVIOUS
  <2> QED BY <2>1, <1>c1, <1>c2, <1>c3, <1>c4, <1>c5
<1>4. Part(s, m, Steps(s, m), 0, 2 * p[5] + 2, ToMonitor(s, m) \cup A[1] \cup A[2] \cup A[3] \cup A[4] \cup A[5])
  BY <1>1, <1>p, <1>c, FiveCalls
<1>5. ToMonitor(s, m) \cup A[1] \cup A[2] \cup A[3] \cup A[4] \cup A[5] = ToOpen(s, m)
  BY <1>3, <1>a DEF ToOpen
<1>p5. 2 * p[5] + 2 \in Nat
  BY <1>p
<1>6. \A i \in 1 .. 5 : CallSteps(s, m, i) \in Seq(Step)
  BY <1>c DEF Part
<1>7. StartPart(s, m)
  BY <1>4, <1>5, <1>6, <1>p5 DEF StartPart
<1> QED BY <1>7 DEF m

LEMMA ModuleStart ==
  ASSUME NEW s, NEW m \in Modules
  PROVE  StartPart(s, m)
  BY DeviceDriverStart, EthernetMuxStart, ArpModuleStart, IpModuleStart, OtherModuleStart, IpMuxStart, UdpModuleStart, TcpModuleStart, IcmpModuleStart, IpotherModuleStart, SockModuleStart, SocklibModuleStart DEF Modules

\* A module that is monitored begins with the FIFO to the monitor.
LEMMA HeadConcat ==
  ASSUME NEW a \in Seq(Step), NEW b \in Seq(Step), NEW x, a # <<>>, Head(a) = x
  PROVE  a \o b \in Seq(Step) /\ a \o b # <<>> /\ Head(a \o b) = x
  OBVIOUS

LEMMA MonitorIsFirst ==
  ASSUME NEW s, NEW m \in Modules, MinetIsModuleMonitored(s, m)
  PROVE  Steps(s, m) # <<>> /\ Head(Steps(s, m)) = Open(m, "monitor")
<1> DEFINE a0 == MinetInit(s, m)
           a1 == a0 \o CallSteps(s, m, 1)
           a2 == a1 \o CallSteps(s, m, 2)
           a3 == a2 \o CallSteps(s, m, 3)
           a4 == a3 \o CallSteps(s, m, 4)
           a5 == a4 \o CallSteps(s, m, 5)
           ext == MinetAddExternalConnection(s, m)
           First(a) == a \in Seq(Step) /\ a # <<>> /\ Head(a) = Open(m, "monitor")
<1>c. \A i \in 1 .. 5 : CallSteps(s, m, i) \in Seq(Step)
  BY ModuleStart DEF StartPart
<1>e. ext \in Seq(Step)
  BY SendToMonitorPart, PartEmpty DEF MinetAddExternalConnection, Part
<1>s. Steps(s, m) = a5 \o ext
  BY DEF Steps, Modules
<1>0. First(a0)
  <2>1. a0 = <<Open(m, "monitor"), Event>> BY DEF MinetInit
  <2>2. a0 \in Seq(Step) BY MinetInitPart DEF Part
  <2> QED BY <2>1, <2>2
<1>f. \A a : \A b \in Seq(Step) : First(a) => First(a \o b)
  BY HeadConcat
<1> HIDE DEF a0, ext, First
<1>1. First(a1) BY <1>0, <1>c, <1>f
<1> HIDE DEF a1
<1>2. First(a2) BY <1>1, <1>c, <1>f
<1> HIDE DEF a2
<1>3. First(a3) BY <1>2, <1>c, <1>f
<1> HIDE DEF a3
<1>4. First(a4) BY <1>3, <1>c, <1>f
<1> HIDE DEF a4
<1>5. First(a5) BY <1>4, <1>c, <1>f
<1> HIDE DEF a5
<1>6. First(a5 \o ext) BY <1>5, <1>e, <1>f
<1> QED BY <1>6, <1>s DEF First

-----------------------------------------------------------------------------
\* What the monitor does: it opens the FIFOs of those that are monitored.
MonitorStep == [do : {"open"}, fifo : (Names \ {"monitor"}) \X {"monitor"}]

Accepts(s, a, k) ==
  /\ a \in Seq(MonitorStep)
  /\ Opens(a) = UNION {ToMonitor(s, MonitorAccepts[i]) : i \in 1 .. k}

LEMMA MonitorStepIsStep == Seq(MonitorStep) \subseteq Seq(Step)
<1>1. MonitorStep \subseteq Step
  BY DEF MonitorStep, Step, Names
<1> QED BY <1>1

LEMMA MonitorAcceptsAll ==
  /\ DOMAIN MonitorAccepts = 1 .. 15
  /\ \A i \in 1 .. 15 : MonitorAccepts[i] \in Names \ {"monitor"}
  /\ \A n \in Names \ {"monitor"} : \E i \in 1 .. 15 : MonitorAccepts[i] = n
  /\ \A i, j \in 1 .. 15 : MonitorAccepts[i] = MonitorAccepts[j] => i = j
<1>1. DOMAIN MonitorAccepts = 1 .. 15
  BY DEF MonitorAccepts
<1>i. \A i \in 1 .. 15 : \/ i = 1 \/ i = 2 \/ i = 3 \/ i = 4 \/ i = 5 \/ i = 6 \/ i = 7 \/ i = 8
                         \/ i = 9 \/ i = 10 \/ i = 11 \/ i = 12 \/ i = 13 \/ i = 14 \/ i = 15
  OBVIOUS
<1>v. /\ MonitorAccepts[1] = "reader" /\ MonitorAccepts[2] = "writer"
      /\ MonitorAccepts[3] = "device_driver" /\ MonitorAccepts[4] = "ethernet_mux"
      /\ MonitorAccepts[5] = "ip_module" /\ MonitorAccepts[6] = "arp_module"
      /\ MonitorAccepts[7] = "other_module" /\ MonitorAccepts[8] = "ip_mux"
      /\ MonitorAccepts[9] = "ipother_module" /\ MonitorAccepts[10] = "icmp_module"
      /\ MonitorAccepts[11] = "udp_module" /\ MonitorAccepts[12] = "tcp_module"
      /\ MonitorAccepts[13] = "sock_module" /\ MonitorAccepts[14] = "socklib_module"
      /\ MonitorAccepts[15] = "app"
  BY DEF MonitorAccepts
<1>2. \A i \in 1 .. 15 : MonitorAccepts[i] \in Names \ {"monitor"}
  BY <1>i, <1>v DEF Names, Modules
<1>3. \A n \in Names \ {"monitor"} : \E i \in 1 .. 15 : MonitorAccepts[i] = n
  <2>1. SUFFICES ASSUME NEW n \in Names \ {"monitor"}
                 PROVE  \E i \in 1 .. 15 : MonitorAccepts[i] = n
    OBVIOUS
  <2>2. n \in {MonitorAccepts[i] : i \in 1 .. 15}
    <3>1. \A i \in 1 .. 15 : MonitorAccepts[i] \in {MonitorAccepts[j] : j \in 1 .. 15}
      OBVIOUS
    <3>2. /\ 1 \in 1 .. 15 /\ 2 \in 1 .. 15 /\ 3 \in 1 .. 15 /\ 4 \in 1 .. 15 /\ 5 \in 1 .. 15
          /\ 6 \in 1 .. 15 /\ 7 \in 1 .. 15 /\ 8 \in 1 .. 15 /\ 9 \in 1 .. 15 /\ 10 \in 1 .. 15
          /\ 11 \in 1 .. 15 /\ 12 \in 1 .. 15 /\ 13 \in 1 .. 15 /\ 14 \in 1 .. 15 /\ 15 \in 1 .. 15
      OBVIOUS
    <3>3. {"reader", "writer", "device_driver", "ethernet_mux", "ip_module", "arp_module",
           "other_module", "ip_mux", "ipother_module", "icmp_module", "udp_module",
           "tcp_module", "sock_module", "socklib_module", "app"}
             \subseteq {MonitorAccepts[i] : i \in 1 .. 15}
      BY <3>1, <3>2, <1>v
    <3> QED BY <3>3 DEF Names, Modules
  <2> QED BY <2>2
<1>4. ASSUME NEW i \in 1 .. 15, NEW j \in 1 .. 15, MonitorAccepts[i] = MonitorAccepts[j]
      PROVE  i = j
  BY <1>4, <1>i, <1>v
<1> QED BY <1>1, <1>2, <1>3, <1>4

LEMMA MonitorAcceptOne ==
  ASSUME NEW s, NEW i \in 1 .. 15
  PROVE  /\ MonitorAccept(s, i) \in Seq(MonitorStep)
         /\ Opens(MonitorAccept(s, i)) = ToMonitor(s, MonitorAccepts[i])
<1> DEFINE n == MonitorAccepts[i]
<1>0. n \in Names \ {"monitor"} /\ i \in DOMAIN MonitorAccepts
  BY MonitorAcceptsAll
<1>1. CASE MinetIsModuleMonitored(s, n)
  <2> DEFINE a == <<Open(n, "monitor")>>
  <2>1. /\ a \in Seq(MonitorStep) /\ DOMAIN a = {1}
        /\ a[1].do = "open" /\ a[1].fifo = <<n, "monitor">>
    BY <1>0 DEF Open, MonitorStep
  <2>2. MonitorAccept(s, i) = a
    BY <1>0, <1>1 DEF MonitorAccept
  <2> HIDE DEF a
  <2>3. Opens(a) = {<<n, "monitor">>}
    BY <2>1 DEF Opens
  <2> QED BY <1>1, <2>1, <2>2, <2>3 DEF ToMonitor
<1>2. CASE ~ MinetIsModuleMonitored(s, n)
  BY <1>0, <1>2, OpensEmpty DEF MonitorAccept, ToMonitor
<1> QED BY <1>1, <1>2

LEMMA AcceptsNext ==
  ASSUME NEW s, NEW a, NEW k \in 1 .. 14, Accepts(s, a, k)
  PROVE  Accepts(s, a \o MonitorAccept(s, k + 1), k + 1)
<1> DEFINE b == MonitorAccept(s, k + 1)
           F(j) == UNION {ToMonitor(s, MonitorAccepts[i]) : i \in 1 .. j}
<1>1. a \in Seq(MonitorStep) /\ Opens(a) = F(k)
  BY DEF Accepts
<1>2. b \in Seq(MonitorStep) /\ Opens(b) = ToMonitor(s, MonitorAccepts[k + 1])
  <2>1. k + 1 \in 1 .. 15 OBVIOUS
  <2> HIDE DEF b
  <2>2. \A i \in 1 .. 15 : /\ MonitorAccept(s, i) \in Seq(MonitorStep)
                          /\ Opens(MonitorAccept(s, i)) = ToMonitor(s, MonitorAccepts[i])
    BY MonitorAcceptOne
  <2>3. MonitorAccept(s, k + 1) \in Seq(MonitorStep)
    BY <2>1, <2>2
  <2>4. Opens(MonitorAccept(s, k + 1)) = ToMonitor(s, MonitorAccepts[k + 1])
    BY <2>1, <2>2
  <2> QED BY <2>3, <2>4 DEF b
<1>3. F(k + 1) = F(k) \cup ToMonitor(s, MonitorAccepts[k + 1])
  <2>1. \A i \in 1 .. k + 1 : i \in 1 .. k \/ i = k + 1
    OBVIOUS
  <2>2. k + 1 \in 1 .. k + 1 /\ \A i \in 1 .. k : i \in 1 .. k + 1
    OBVIOUS
  <2> QED BY <2>1, <2>2
<1> HIDE DEF F, b
<1>4. a \o b \in Seq(MonitorStep)
  BY <1>1, <1>2
<1>5. Opens(a \o b) = Opens(a) \cup Opens(b)
  BY <1>1, <1>2, MonitorStepIsStep, OpensConcat
<1>6. Accepts(s, a \o b, k + 1)
  BY <1>1, <1>2, <1>3, <1>4, <1>5 DEF Accepts, F
<1> QED BY <1>6 DEF b

LEMMA MonitorStart ==
  ASSUME NEW s
  PROVE  /\ MonitorSteps(s) \in Seq(MonitorStep)
         /\ Opens(MonitorSteps(s)) = UNION {ToMonitor(s, n) : n \in Names \ {"monitor"}}
<1> DEFINE a1 == MonitorAccept(s, 1)
           a2 == a1 \o MonitorAccept(s, 2)
           a3 == a2 \o MonitorAccept(s, 3)
           a4 == a3 \o MonitorAccept(s, 4)
           a5 == a4 \o MonitorAccept(s, 5)
           a6 == a5 \o MonitorAccept(s, 6)
           a7 == a6 \o MonitorAccept(s, 7)
           a8 == a7 \o MonitorAccept(s, 8)
           a9 == a8 \o MonitorAccept(s, 9)
           a10 == a9 \o MonitorAccept(s, 10)
           a11 == a10 \o MonitorAccept(s, 11)
           a12 == a11 \o MonitorAccept(s, 12)
           a13 == a12 \o MonitorAccept(s, 13)
           a14 == a13 \o MonitorAccept(s, 14)
           a15 == a14 \o MonitorAccept(s, 15)
<1>1. Accepts(s, a1, 1)
  <2>1. UNION {ToMonitor(s, MonitorAccepts[i]) : i \in 1 .. 1} = ToMonitor(s, MonitorAccepts[1])
    <3>1. 1 .. 1 = {1} OBVIOUS
    <3> QED BY <3>1
  <2>2. 1 \in 1 .. 15 OBVIOUS
  <2>3. a1 \in Seq(MonitorStep) /\ Opens(a1) = ToMonitor(s, MonitorAccepts[1])
    BY <2>2, MonitorAcceptOne
  <2> HIDE DEF a1
  <2> QED BY <2>1, <2>3 DEF Accepts
<1>s. MonitorSteps(s) = a15
  BY DEF MonitorSteps
<1> HIDE DEF a1
<1>2. Accepts(s, a2, 2)
  <2>1. 1 \in 1 .. 14 /\ 1 + 1 = 2  OBVIOUS
  <2> QED BY <2>1, <1>1, AcceptsNext
<1> HIDE DEF a2
<1>3. Accepts(s, a3, 3)
  <2>1. 2 \in 1 .. 14 /\ 2 + 1 = 3  OBVIOUS
  <2> QED BY <2>1, <1>2, AcceptsNext
<1> HIDE DEF a3
<1>4. Accepts(s, a4, 4)
  <2>1. 3 \in 1 .. 14 /\ 3 + 1 = 4  OBVIOUS
  <2> QED BY <2>1, <1>3, AcceptsNext
<1> HIDE DEF a4
<1>5. Accepts(s, a5, 5)
  <2>1. 4 \in 1 .. 14 /\ 4 + 1 = 5  OBVIOUS
  <2> QED BY <2>1, <1>4, AcceptsNext
<1> HIDE DEF a5
<1>6. Accepts(s, a6, 6)
  <2>1. 5 \in 1 .. 14 /\ 5 + 1 = 6  OBVIOUS
  <2> QED BY <2>1, <1>5, AcceptsNext
<1> HIDE DEF a6
<1>7. Accepts(s, a7, 7)
  <2>1. 6 \in 1 .. 14 /\ 6 + 1 = 7  OBVIOUS
  <2> QED BY <2>1, <1>6, AcceptsNext
<1> HIDE DEF a7
<1>8. Accepts(s, a8, 8)
  <2>1. 7 \in 1 .. 14 /\ 7 + 1 = 8  OBVIOUS
  <2> QED BY <2>1, <1>7, AcceptsNext
<1> HIDE DEF a8
<1>9. Accepts(s, a9, 9)
  <2>1. 8 \in 1 .. 14 /\ 8 + 1 = 9  OBVIOUS
  <2> QED BY <2>1, <1>8, AcceptsNext
<1> HIDE DEF a9
<1>10. Accepts(s, a10, 10)
  <2>1. 9 \in 1 .. 14 /\ 9 + 1 = 10  OBVIOUS
  <2> QED BY <2>1, <1>9, AcceptsNext
<1> HIDE DEF a10
<1>11. Accepts(s, a11, 11)
  <2>1. 10 \in 1 .. 14 /\ 10 + 1 = 11  OBVIOUS
  <2> QED BY <2>1, <1>10, AcceptsNext
<1> HIDE DEF a11
<1>12. Accepts(s, a12, 12)
  <2>1. 11 \in 1 .. 14 /\ 11 + 1 = 12  OBVIOUS
  <2> QED BY <2>1, <1>11, AcceptsNext
<1> HIDE DEF a12
<1>13. Accepts(s, a13, 13)
  <2>1. 12 \in 1 .. 14 /\ 12 + 1 = 13  OBVIOUS
  <2> QED BY <2>1, <1>12, AcceptsNext
<1> HIDE DEF a13
<1>14. Accepts(s, a14, 14)
  <2>1. 13 \in 1 .. 14 /\ 13 + 1 = 14  OBVIOUS
  <2> QED BY <2>1, <1>13, AcceptsNext
<1> HIDE DEF a14
<1>15. Accepts(s, a15, 15)
  <2>1. 14 \in 1 .. 14 /\ 14 + 1 = 15  OBVIOUS
  <2> QED BY <2>1, <1>14, AcceptsNext
<1> HIDE DEF a15
<1>16. UNION {ToMonitor(s, MonitorAccepts[i]) : i \in 1 .. 15} = UNION {ToMonitor(s, n) : n \in Names \ {"monitor"}}
  BY MonitorAcceptsAll
<1> QED BY <1>15, <1>16, <1>s DEF Accepts

(***************************************************************************)
(* What a process is to open from its start on.                            *)
(***************************************************************************)
Own(s, m) ==
  IF m = "monitor" THEN UNION {ToMonitor(s, n) : n \in Names \ {"monitor"}}
  ELSE ToOpen(s, m)

OwnFifo(s, m, f) ==
  \/ m = "monitor" /\ \E n \in Names \ {"monitor"} : MinetIsModuleMonitored(s, n) /\ f = <<n, "monitor">>
  \/ m # "monitor" /\ MinetIsModuleMonitored(s, m) /\ f = <<m, "monitor">>
  \/ /\ m # "monitor"
     /\ \E n \in Neighbours(m) : Served(s, n) /\ (f = <<m, n>> \/ f = <<n, m>>)

LEMMA OwnFifos ==
  ASSUME NEW s, NEW m \in Modules \cup {"monitor"}, NEW f
  PROVE  f \in Own(s, m) <=> OwnFifo(s, m, f)
<1>1. CASE m = "monitor"
  BY <1>1 DEF Own, OwnFifo, ToMonitor
<1>2. CASE m # "monitor"
  <2>1. f \in ToMonitor(s, m) <=> MinetIsModuleMonitored(s, m) /\ f = <<m, "monitor">>
    BY DEF ToMonitor
  <2>2. \A n : f \in Link(s, m, n) <=> Served(s, n) /\ (f = <<m, n>> \/ f = <<n, m>>)
    BY DEF Link
  <2> QED BY <1>2, <2>1, <2>2 DEF Own, OwnFifo, ToOpen
<1> QED BY <1>1, <1>2

\* The one at the other end, and that both ends are to open it.
LEMMA OtherEndOwns ==
  ASSUME NEW s, NEW m \in Modules \cup {"monitor"}, NEW f \in Own(s, m)
  PROVE  /\ OtherEnd(m, f) \in Names /\ OtherEnd(m, f) # m
         /\ f = <<m, OtherEnd(m, f)>> \/ f = <<OtherEnd(m, f), m>>
         /\ m = "monitor" => MinetIsModuleMonitored(s, OtherEnd(m, f)) /\ f = <<OtherEnd(m, f), "monitor">>
         /\ m # "monitor" /\ OtherEnd(m, f) = "monitor" =>
              MinetIsModuleMonitored(s, m) /\ f = <<m, "monitor">>
         /\ m # "monitor" /\ OtherEnd(m, f) # "monitor" =>
              OtherEnd(m, f) \in Neighbours(m) /\ Served(s, OtherEnd(m, f))
<1>0. OwnFifo(s, m, f)
  BY OwnFifos
<1>1. CASE m = "monitor"
  BY <1>0, <1>1 DEF OwnFifo, OtherEnd, Names
<1>2. CASE m # "monitor" /\ f = <<m, "monitor">> /\ MinetIsModuleMonitored(s, m)
  BY <1>2 DEF OtherEnd, Names
<1>3. ASSUME m # "monitor", NEW n \in Neighbours(m), Served(s, n), f = <<m, n>> \/ f = <<n, m>>
      PROVE  /\ n \in Names /\ n # m /\ n # "monitor" /\ OtherEnd(m, f) = n
  <2>1. n \in Modules /\ m \in Modules BY <1>3, NeighboursAreMutual
  <2>2. n # m
    BY <1>3, <2>1, ConnectIsOneSided, AcceptIsConnect DEF Neighbours
  <2> QED BY <1>3, <2>1, <2>2 DEF OtherEnd, Names, Modules
<1> QED BY <1>0, <1>1, <1>2, <1>3 DEF OwnFifo

LEMMA BothEndsOwn ==
  ASSUME NEW s, NEW m \in Modules, NEW n \in Neighbours(m), Served(s, n), Served(s, m)
  PROVE  <<m, n>> \in Own(s, n) /\ <<n, m>> \in Own(s, n)
<1>1. n \in Modules /\ m \in Neighbours(n)
  BY NeighboursAreMutual
<1>2. n # "monitor"
  BY <1>1 DEF Modules
<1> QED BY <1>1, <1>2, OwnFifos DEF OwnFifo

(***************************************************************************)
(* Where a process is in its start: a is what is left, done what it has    *)
(* opened.                                                                 *)
(***************************************************************************)
OnTheWay(s, m, a, done) ==
  /\ a \in Seq(Step)
  /\ done \cup Opens(a) = Own(s, m)
  /\ m # "monitor" => Sorted(a)
  /\ m # "monitor" /\ <<m, "monitor">> \in Opens(a) => a # <<>> /\ Head(a) = Open(m, "monitor")
  /\ \A i \in 1 .. Len(a) : a[i].do = "event" => m # "monitor" /\ MinetIsModuleMonitored(s, m)

LEMMA AtStart ==
  ASSUME NEW s, NEW m \in Modules \cup {"monitor"}
  PROVE  OnTheWay(s, m, Steps(s, m), {})
<1>1. CASE m = "monitor"
  <2>1. Steps(s, m) = MonitorSteps(s) BY <1>1 DEF Steps
  <2>2. MonitorSteps(s) \in Seq(MonitorStep) BY MonitorStart
  <2>3. \A i \in 1 .. Len(MonitorSteps(s)) : MonitorSteps(s)[i].do # "event"
    <3>1. \A i \in 1 .. Len(MonitorSteps(s)) : MonitorSteps(s)[i] \in MonitorStep
      BY <2>2
    <3>2. \A x \in MonitorStep : x.do # "event"
      BY DEF MonitorStep
    <3> QED BY <3>1, <3>2
  <2>4. MonitorSteps(s) \in Seq(Step) BY <2>2, MonitorStepIsStep
  <2>5. {} \cup Opens(MonitorSteps(s)) = Own(s, m) BY <1>1, MonitorStart DEF Own
  <2> QED BY <1>1, <2>1, <2>3, <2>4, <2>5 DEF OnTheWay
<1>2. CASE m # "monitor"
  <2> DEFINE a == Steps(s, m)
  <2>0. m \in Modules BY <1>2
  <2>1. PICK hi \in Nat : Part(s, m, a, 0, hi, ToOpen(s, m))
    BY <2>0, ModuleStart DEF StartPart
  <2>2. {} \cup Opens(a) = Own(s, m) BY <1>2, <2>1 DEF Part, Own
  <2>3. <<m, "monitor">> \in Opens(a) => MinetIsModuleMonitored(s, m)
    <3>1. SUFFICES ASSUME <<m, "monitor">> \in Own(s, m)
                   PROVE  MinetIsModuleMonitored(s, m)
      BY <2>2
    <3>2. OtherEnd(m, <<m, "monitor">>) = "monitor" BY DEF OtherEnd
    <3> QED BY <1>2, <3>1, <3>2, OtherEndOwns
  <2>4. <<m, "monitor">> \in Opens(a) => a # <<>> /\ Head(a) = Open(m, "monitor")
    BY <2>0, <2>3, MonitorIsFirst
  <2>5. a \in Seq(Step) /\ Sorted(a)
        /\ \A i \in 1 .. Len(a) : a[i].do = "event" => MinetIsModuleMonitored(s, m)
    BY <2>1 DEF Part
  <2> HIDE DEF a
  <2>6. OnTheWay(s, m, a, {})
    BY <1>2, <2>2, <2>4, <2>5 DEF OnTheWay
  <2> QED BY <2>6 DEF a
<1> QED BY <1>1, <1>2

\* One step of it.
LEMMA OpensTail ==
  ASSUME NEW a \in Seq(Step), a # <<>>
  PROVE  Opens(a) = Opens(Tail(a)) \cup (IF Head(a).do = "open" THEN {Head(a).fifo} ELSE {})
<1>1. Tail(a) \in Seq(Step) /\ Len(Tail(a)) = Len(a) - 1 /\ Len(a) \in Nat \ {0}
  OBVIOUS
<1>2. \A i \in 1 .. Len(Tail(a)) : Tail(a)[i] = a[i + 1] /\ i + 1 \in 1 .. Len(a)
  OBVIOUS
<1>3. \A i \in 1 .. Len(a) : i # 1 => i - 1 \in 1 .. Len(Tail(a)) /\ Tail(a)[i - 1] = a[i]
  BY <1>1, <1>2
<1>4. Head(a) = a[1] /\ 1 \in 1 .. Len(a) /\ DOMAIN a = 1 .. Len(a)
      /\ DOMAIN Tail(a) = 1 .. Len(Tail(a))
  BY <1>1
<1>5. Opens(Tail(a)) \subseteq Opens(a)
  BY <1>2, <1>4 DEF Opens
<1>6. Head(a).do = "open" => Head(a).fifo \in Opens(a)
  BY <1>4 DEF Opens
<1>7. ASSUME NEW f \in Opens(a)
      PROVE  f \in Opens(Tail(a)) \/ (Head(a).do = "open" /\ f = Head(a).fifo)
  <2>1. PICK i \in 1 .. Len(a) : a[i].do = "open" /\ f = a[i].fifo
    BY <1>4, <1>7 DEF Opens
  <2>2. CASE i = 1
    BY <2>1, <2>2, <1>4
  <2>3. CASE i # 1
    <3>1. PICK j \in 1 .. Len(Tail(a)) : Tail(a)[j] = a[i] BY <2>3, <1>3
    <3> QED BY <2>1, <3>1, <1>4 DEF Opens
  <2> QED BY <2>2, <2>3
<1> QED BY <1>5, <1>6, <1>7

LEMMA SortedTail ==
  ASSUME NEW a \in Seq(Step), a # <<>>, Sorted(a)
  PROVE  /\ Sorted(Tail(a))
         /\ Head(a).do = "open" => \A f \in Opens(Tail(a)) : Rank(Head(a).fifo) < Rank(f)
<1>1. Tail(a) \in Seq(Step) /\ Len(Tail(a)) = Len(a) - 1 /\ Len(a) \in Nat \ {0}
  OBVIOUS
<1>2. \A i \in 1 .. Len(Tail(a)) : Tail(a)[i] = a[i + 1] /\ i + 1 \in 1 .. Len(a) /\ 1 < i + 1
  OBVIOUS
<1>3. Head(a) = a[1] /\ 1 \in 1 .. Len(a) /\ DOMAIN Tail(a) = 1 .. Len(Tail(a))
  BY <1>1
<1>4. Sorted(Tail(a))
  <2>1. SUFFICES ASSUME NEW i \in 1 .. Len(Tail(a)), NEW j \in 1 .. Len(Tail(a)), i < j,
                        Tail(a)[i].do = "open", Tail(a)[j].do = "open"
                 PROVE  Rank(Tail(a)[i].fifo) < Rank(Tail(a)[j].fifo)
    BY DEF Sorted
  <2>2. i + 1 < j + 1 BY <2>1, <1>1
  <2> QED BY <2>1, <2>2, <1>2 DEF Sorted
<1>5. ASSUME Head(a).do = "open", NEW f \in Opens(Tail(a))
      PROVE  Rank(Head(a).fifo) < Rank(f)
  <2>1. PICK i \in 1 .. Len(Tail(a)) : Tail(a)[i].do = "open" /\ f = Tail(a)[i].fifo
    BY <1>3, <1>5 DEF Opens
  <2> QED BY <2>1, <1>2, <1>3, <1>5 DEF Sorted
<1> QED BY <1>4, <1>5

LEMMA RankOfOwn ==
  ASSUME NEW m, NEW n
  PROVE  Rank(<<m, n>>) \in Nat
  BY PlaceIsNat DEF Rank

LEMMA OneStep ==
  ASSUME NEW s, NEW m \in Modules \cup {"monitor"}, NEW a, NEW done, OnTheWay(s, m, a, done), a # <<>>,
         NEW new, new = done \cup (IF Head(a).do = "open" THEN {Head(a).fifo} ELSE {})
  PROVE  OnTheWay(s, m, Tail(a), new)
<1>1. a \in Seq(Step) /\ Tail(a) \in Seq(Step) /\ Len(Tail(a)) = Len(a) - 1 /\ Len(a) \in Nat \ {0}
  BY DEF OnTheWay
<1>2. \A i \in 1 .. Len(Tail(a)) : Tail(a)[i] = a[i + 1] /\ i + 1 \in 1 .. Len(a)
  BY <1>1
<1>3. new \cup Opens(Tail(a)) = Own(s, m)
  <2>1. done \cup Opens(a) = Own(s, m) BY DEF OnTheWay
  <2> QED BY <1>1, <2>1, OpensTail
<1>4. m # "monitor" => Sorted(Tail(a))
  BY <1>1, SortedTail DEF OnTheWay
<1>5. m # "monitor" => <<m, "monitor">> \notin Opens(Tail(a))
  <2>1. SUFFICES ASSUME m # "monitor", <<m, "monitor">> \in Opens(Tail(a))
                 PROVE  FALSE
    OBVIOUS
  <2>2. <<m, "monitor">> \in Opens(a) BY <1>1, <2>1, OpensTail
  <2>3. Head(a).do = "open" /\ Head(a).fifo = <<m, "monitor">>
    BY <2>1, <2>2 DEF OnTheWay, Open
  <2>4. Rank(Head(a).fifo) < Rank(<<m, "monitor">>)
    BY <1>1, <2>1, <2>3, SortedTail DEF OnTheWay
  <2>5. Rank(<<m, "monitor">>) \in Nat BY RankOfOwn
  <2> QED BY <2>3, <2>4, <2>5
<1>6. \A i \in 1 .. Len(Tail(a)) : Tail(a)[i].do = "event" => m # "monitor" /\ MinetIsModuleMonitored(s, m)
  BY <1>2 DEF OnTheWay
<1> QED BY <1>1, <1>3, <1>4, <1>5, <1>6 DEF OnTheWay
-----------------------------------------------------------------------------
(***************************************************************************)
(* The inductive invariant: types, every process on its way, and no one    *)
(* dead or waiting for enter unless one may die.                           *)
(***************************************************************************)
StartInv ==
  /\ TypeOK
  /\ \A m \in Runs : OnTheWay(Setups[setup], m, todo[m], opened[m])
  /\ Setups[setup].dies = {} => dead = {} /\ stopped = {}

LEMMA RunsAreModules ==
  ASSUME TypeOK
  PROVE  Runs \subseteq Modules \cup {"monitor"}
  BY StartupAssumption DEF TypeOK, SetupOK

LEMMA InitStartInv ==
  ASSUME Init
  PROVE  StartInv
<1> DEFINE s == Setups[setup]
<1>1. setup \in DOMAIN Setups /\ dead = {} /\ stopped = {}
  BY DEF Init
<1>2. /\ todo = [m \in s.runs |-> Steps(s, m)]
      /\ opened = [m \in s.runs |-> {}]
      /\ events = [m \in s.runs |-> 0]
  BY DEF Init
<1>3. s.runs \subseteq Modules \cup {"monitor"}
  BY <1>1, StartupAssumption DEF SetupOK
<1> HIDE DEF s
<1>4. Runs = s.runs
  BY <1>2 DEF Runs
<1>5. \A m \in Runs : OnTheWay(s, m, todo[m], opened[m])
  BY <1>2, <1>3, <1>4, AtStart
<1>6. \A m \in Runs : \A i \in DOMAIN todo[m] : todo[m][i].do \in {"open", "event"}
  <2>1. \A m \in Runs : todo[m] \in Seq(Step) BY <1>5 DEF OnTheWay
  <2>2. \A x \in Step : x.do \in {"open", "event"} BY DEF Step
  <2> QED BY <2>1, <2>2
<1>7. TypeOK
  <2>1. EventRoom \in Nat BY StartupAssumption
  <2> QED BY <1>1, <1>2, <1>4, <1>6, <2>1 DEF TypeOK, s
<1> QED BY <1>1, <1>5, <1>7 DEF StartInv, s

\* The steps left of a process that is on its way are events and opens of its own.
LEMMA HeadIsOwn ==
  ASSUME NEW s, NEW m, NEW a, NEW done, OnTheWay(s, m, a, done), a # <<>>
  PROVE  /\ Head(a) \in Step
         /\ Head(a).do = "open" => Head(a).fifo \in Own(s, m) /\ Head(a).fifo \in Opens(a)
         /\ Head(a).do = "event" => m # "monitor" /\ MinetIsModuleMonitored(s, m)
<1>1. a \in Seq(Step) /\ 1 \in 1 .. Len(a) /\ Head(a) = a[1] /\ 1 \in DOMAIN a
  BY DEF OnTheWay
<1>2. Head(a).do = "open" => Head(a).fifo \in Opens(a)
  BY <1>1 DEF Opens
<1> QED BY <1>1, <1>2 DEF OnTheWay

\* A step of one process that begins or ends a call.
LEMMA TodoStep ==
  ASSUME StartInv, NEW m \in Runs, todo[m] # <<>>,
         todo' = [todo EXCEPT ![m] = Tail(@)],
         UNCHANGED <<setup, stopped, dead>>,
         DOMAIN opened' = Runs,
         \A n \in Runs \ {m} : opened'[n] = opened[n],
         opened'[m] = opened[m] \cup (IF Head(todo[m]).do = "open" THEN {Head(todo[m]).fifo} ELSE {})
  PROVE  /\ Runs' = Runs
         /\ \A n \in Runs : OnTheWay(Setups[setup], n, todo'[n], opened'[n])
         /\ \A n \in Runs : \A i \in DOMAIN todo'[n] : todo'[n][i].do \in {"open", "event"}
<1>1. Runs' = Runs /\ DOMAIN todo = Runs
  BY DEF Runs
<1>2. todo'[m] = Tail(todo[m]) /\ \A n \in Runs \ {m} : todo'[n] = todo[n]
  BY <1>1
<1>3. OnTheWay(Setups[setup], m, Tail(todo[m]), opened'[m])
  <2>1. OnTheWay(Setups[setup], m, todo[m], opened[m]) BY DEF StartInv
  <2>2. m \in Modules \cup {"monitor"} BY RunsAreModules DEF StartInv
  <2> QED BY <2>1, <2>2, OneStep
<1>4. \A n \in Runs : OnTheWay(Setups[setup], n, todo'[n], opened'[n])
  BY <1>2, <1>3 DEF StartInv
<1>5. \A n \in Runs : \A i \in DOMAIN todo'[n] : todo'[n][i].do \in {"open", "event"}
  <2>1. \A n \in Runs : todo'[n] \in Seq(Step) BY <1>4 DEF OnTheWay
  <2>2. \A x \in Step : x.do \in {"open", "event"} BY DEF Step
  <2> QED BY <2>1, <2>2
<1> QED BY <1>1, <1>4, <1>5

LEMMA OpenFifoInv ==
  ASSUME StartInv, NEW m \in Runs, OpenFifo(m)
  PROVE  StartInv'
<1> DEFINE f == Head(todo[m]).fifo
           s == Setups[setup]
<1>1. /\ todo[m] # <<>> /\ Head(todo[m]).do = "open"
      /\ OtherEnd(m, f) \in Runs
      /\ opened' = [opened EXCEPT ![m] = @ \cup {f}]
      /\ todo' = [todo EXCEPT ![m] = Tail(@)]
      /\ UNCHANGED <<setup, stopped, dead, events>>
  BY DEF OpenFifo, InStep, Returns
<1>2. TypeOK BY DEF StartInv
<1>3. /\ DOMAIN opened' = Runs
      /\ \A n \in Runs \ {m} : opened'[n] = opened[n]
      /\ opened'[m] = opened[m] \cup {f}
  BY <1>1, <1>2 DEF TypeOK
<1>4. f \in Runs \X Runs
  <2>1. m \in Modules \cup {"monitor"} BY <1>2, RunsAreModules
  <2>2. f \in Own(s, m)
    <3>1. OnTheWay(s, m, todo[m], opened[m]) BY DEF StartInv
    <3> QED BY <1>1, <3>1, HeadIsOwn
  <2>3. f = <<m, OtherEnd(m, f)>> \/ f = <<OtherEnd(m, f), m>>
    BY <2>1, <2>2, OtherEndOwns
  <2>4. OtherEnd(m, f) \in Runs BY <1>1
  <2> HIDE DEF f
  <2> QED BY <2>3, <2>4
<1>5. /\ Runs' = Runs
      /\ \A n \in Runs : OnTheWay(s, n, todo'[n], opened'[n])
      /\ \A n \in Runs : \A i \in DOMAIN todo'[n] : todo'[n][i].do \in {"open", "event"}
  <2>1. opened'[m] = opened[m] \cup (IF Head(todo[m]).do = "open" THEN {Head(todo[m]).fifo} ELSE {})
    BY <1>1, <1>3
  <2> HIDE DEF f
  <2> QED BY <2>1, <1>1, <1>3, TodoStep
<1> HIDE DEF f
<1>6. \A n \in Runs : opened'[n] \subseteq Runs \X Runs
  BY <1>2, <1>3, <1>4 DEF TypeOK
<1>7. TypeOK'
  BY <1>1, <1>2, <1>3, <1>5, <1>6 DEF TypeOK
<1>8. (Setups[setup].dies = {} => dead = {} /\ stopped = {})'
  BY <1>1 DEF StartInv
<1> QED BY <1>1, <1>5, <1>7, <1>8 DEF StartInv

LEMMA SendEventInv ==
  ASSUME StartInv, NEW m \in Runs, SendEvent(m)
  PROVE  StartInv'
<1> DEFINE s == Setups[setup]
<1>1. /\ todo[m] # <<>> /\ Head(todo[m]).do = "event"
      /\ events[m] < EventRoom
      /\ events' = [events EXCEPT ![m] = @ + 1]
      /\ todo' = [todo EXCEPT ![m] = Tail(@)]
      /\ UNCHANGED <<setup, stopped, dead, opened>>
  BY DEF SendEvent, InStep, RoomForEvent
<1>2. TypeOK BY DEF StartInv
<1>5. /\ Runs' = Runs
      /\ \A n \in Runs : OnTheWay(s, n, todo'[n], opened'[n])
      /\ \A n \in Runs : \A i \in DOMAIN todo'[n] : todo'[n][i].do \in {"open", "event"}
  <2>1. /\ DOMAIN opened' = Runs
        /\ \A n \in Runs \ {m} : opened'[n] = opened[n]
        /\ opened'[m] = opened[m] \cup (IF Head(todo[m]).do = "open" THEN {Head(todo[m]).fifo} ELSE {})
    BY <1>1, <1>2 DEF TypeOK
  <2> QED BY <2>1, <1>1, TodoStep
<1>6. DOMAIN events' = Runs /\ \A n \in Runs : events'[n] \in 0 .. EventRoom
  <2>1. EventRoom \in Nat BY StartupAssumption
  <2> QED BY <1>1, <1>2, <2>1 DEF TypeOK
<1>7. TypeOK'
  BY <1>1, <1>2, <1>5, <1>6 DEF TypeOK
<1>8. (Setups[setup].dies = {} => dead = {} /\ stopped = {})'
  BY <1>1 DEF StartInv
<1> QED BY <1>1, <1>5, <1>7, <1>8 DEF StartInv

\* The rest change nobody's start.
LEMMA OthersInv ==
  ASSUME StartInv, UNCHANGED <<setup, todo, opened>>,
         dead' \subseteq Runs, stopped' \subseteq Runs,
         Setups[setup].dies = {} => dead' = {} /\ stopped' = {},
         DOMAIN events' = Runs, \A m \in Runs : events'[m] \in 0 .. EventRoom
  PROVE  StartInv'
<1>1. TypeOK' BY DEF StartInv, TypeOK, Runs
<1>2. \A m \in Runs' : OnTheWay(Setups[setup], m, todo[m], opened[m])
  BY DEF StartInv, Runs
<1> QED BY <1>1, <1>2 DEF StartInv

LEMMA EmitInv ==
  ASSUME StartInv, NEW m \in Runs, Emit(m) \/ MonitorReads(m)
  PROVE  StartInv'
<1>1. EventRoom \in Nat BY StartupAssumption
<1>2. DOMAIN events = Runs /\ \A n \in Runs : events[n] \in 0 .. EventRoom
  BY DEF StartInv, TypeOK
<1>3. DOMAIN events' = Runs /\ \A n \in Runs : events'[n] \in 0 .. EventRoom
  BY <1>1, <1>2 DEF Emit, MonitorReads, RoomForEvent
<1>4. UNCHANGED <<setup, todo, opened, stopped, dead>>
  BY DEF Emit, MonitorReads
<1> QED BY <1>3, <1>4, OthersInv DEF StartInv, TypeOK

\* Who dies dies, or waits for enter first; and the first to go is one that may.
LEMMA DieInv ==
  ASSUME StartInv, NEW m \in Runs, HangUp(m) \/ BrokenPipe(m) \/ Exit(m) \/ Enter(m)
  PROVE  StartInv'
<1>1. /\ dead' \subseteq dead \cup {m} /\ stopped' \subseteq stopped \cup {m}
      /\ UNCHANGED <<setup, todo, opened>>
  BY DEF HangUp, BrokenPipe, Exit, Enter, Death
<1>2. dead # {} \/ stopped # {} \/ m \in Setups[setup].dies
  BY DEF HangUp, BrokenPipe, Exit, Enter, EndOfFile
<1>3. Setups[setup].dies # {}
  BY <1>2 DEF StartInv
<1>4. dead' \subseteq Runs /\ stopped' \subseteq Runs
  BY <1>1 DEF StartInv, TypeOK
<1>5. DOMAIN events' = Runs /\ \A n \in Runs : events'[n] \in 0 .. EventRoom
  <2>1. EventRoom \in Nat BY StartupAssumption
  <2>2. DOMAIN events = Runs /\ \A n \in Runs : events[n] \in 0 .. EventRoom
    BY DEF StartInv, TypeOK
  <2>3. \/ events' = events
        \/ events[m] < EventRoom /\ events' = [events EXCEPT ![m] = @ + 1]
    BY DEF HangUp, BrokenPipe, Exit, Enter, RoomForEvent
  <2> QED BY <2>1, <2>2, <2>3
<1> QED BY <1>1, <1>3, <1>4, <1>5, OthersInv

\* What a start keeps: a process has still before it every open of its own
\* that it has not done, those of a module in ascending rank and its monitor's
\* first, and nobody dies where nobody may (Minet.cc, MinetInit, MinetConnect,
\* MinetAccept; the main of every module; monitor.cc, main).
THEOREM StartInvInvariant == Spec => []StartInv
<1>1. Init => StartInv
  BY InitStartInv
<1>2. StartInv /\ [Next]_vars => StartInv'
  <2> SUFFICES ASSUME StartInv, [Next]_vars
               PROVE  StartInv'
    OBVIOUS
  <2>1. ASSUME NEW m \in Runs, OpenFifo(m) \/ SendEvent(m)
        PROVE  StartInv'
    BY <2>1, OpenFifoInv, SendEventInv
  <2>2. ASSUME NEW n \in Runs, MonitorReads(n)
        PROVE  StartInv'
    BY <2>2, EmitInv
  <2>3. ASSUME NEW m \in Runs,
               Emit(m) \/ HangUp(m) \/ BrokenPipe(m) \/ Exit(m) \/ Enter(m)
        PROVE  StartInv'
    BY <2>3, EmitInv, DieInv
  <2>4. CASE UNCHANGED vars
    <3>1. /\ UNCHANGED <<setup, todo, opened>>
          /\ stopped' = stopped /\ dead' = dead /\ events' = events
      BY <2>4 DEF vars
    <3> QED BY <3>1, OthersInv DEF StartInv, TypeOK
  <2> QED BY <2>1, <2>2, <2>3, <2>4 DEF Next, Start, Monitor
<1> QED BY <1>1, <1>2, PTL DEF Spec

\* The types of a start: no process opens what is not its own, and events
\* never exceed the room of a FIFO (Minet.cc, MinetSendToMonitor).
THEOREM TypeCorrect == Spec => []TypeOK
<1>1. StartInv => TypeOK
  BY DEF StartInv
<1> QED BY <1>1, StartInvInvariant, PTL
-----------------------------------------------------------------------------
LEMMA InvOf ==
  ASSUME StartInv, NEW m \in Runs
  PROVE  /\ m \in Modules \cup {"monitor"}
         /\ OnTheWay(Setups[setup], m, todo[m], opened[m])
  BY RunsAreModules DEF StartInv

\* What is to be opened and is not yet is among the steps left.
LEMMA LeftToOpen ==
  ASSUME StartInv, NEW n \in Runs, NEW f \in Own(Setups[setup], n), f \notin opened[n]
  PROVE  f \in Opens(todo[n]) /\ todo[n] # <<>>
<1>1. OnTheWay(Setups[setup], n, todo[n], opened[n])
  BY InvOf
<1>2. f \in Opens(todo[n])
  BY <1>1 DEF OnTheWay
<1> QED BY <1>2, OpensEmpty

\* The FIFO a process is at.
LEMMA OpenIsOwn ==
  ASSUME StartInv, NEW m \in Runs, InStep(m, "open")
  PROVE  /\ Head(todo[m]).fifo \in Own(Setups[setup], m)
         /\ Head(todo[m]) = [do |-> "open", fifo |-> Head(todo[m]).fifo]
<1>1. OnTheWay(Setups[setup], m, todo[m], opened[m])
  BY InvOf
<1>2. todo[m] # <<>> /\ Head(todo[m]).do = "open"
  BY DEF InStep
<1>3. Head(todo[m]) \in Step /\ Head(todo[m]).fifo \in Own(Setups[setup], m)
  BY <1>1, <1>2, HeadIsOwn
<1>4. Head(todo[m]) \in [do : {"open"}, fifo : Names \X Names]
  BY <1>2, <1>3 DEF Step
<1> QED BY <1>3, <1>4

\* Nobody keeps the monitor waiting: a module that is monitored begins with
\* the FIFO to it.
LEMMA MonitorReturns ==
  ASSUME StartInv, "monitor" \in Runs, InStep("monitor", "open"),
         OtherEnd("monitor", Head(todo["monitor"]).fifo) \in Runs
  PROVE  Returns("monitor", Head(todo["monitor"]).fifo)
<1> DEFINE s == Setups[setup]
           f == Head(todo["monitor"]).fifo
           n == OtherEnd("monitor", f)
<1>1. n \in Runs /\ n # "monitor" /\ MinetIsModuleMonitored(s, n) /\ f = <<n, "monitor">>
  BY OpenIsOwn, OtherEndOwns
<1>2. n \in Modules
  BY <1>1, InvOf
<1> HIDE DEF s, f
<1>3. f \in Own(s, n)
  BY <1>1, <1>2, OwnFifos DEF OwnFifo
<1>4. CASE f \in opened[n]
  BY <1>1, <1>4 DEF Returns, f
<1>5. CASE f \notin opened[n]
  <2>1. <<n, "monitor">> \in Opens(todo[n]) /\ todo[n] # <<>>
    BY <1>1, <1>3, <1>5, LeftToOpen DEF s
  <2>2. OnTheWay(s, n, todo[n], opened[n])
    BY <1>1, InvOf DEF s
  <2>3. Head(todo[n]) = Open(n, "monitor")
    BY <1>1, <2>1, <2>2 DEF OnTheWay
  <2>4. Head(todo[n]) = Open(f[1], f[2])
    BY <1>1, <2>3
  <2>5. Returns("monitor", f)
    BY <1>1, <2>1, <2>4 DEF Returns
  <2> QED BY <2>5 DEF f
<1> QED BY <1>4, <1>5

\* Of modules that wait for each other one is at the FIFO of least rank, and
\* the one it waits for has opened it already or opens it next.
LEMMA NoCircle ==
  ASSUME StartInv, NEW W, W \subseteq Runs, W # {}, "monitor" \notin W,
         \A m \in W : /\ InStep(m, "open") /\ ~ Returns(m, Head(todo[m]).fifo)
                      /\ OtherEnd(m, Head(todo[m]).fifo) \in W
                      /\ Served(Setups[setup], m)
  PROVE  FALSE
<1> DEFINE s == Setups[setup]
           F(m) == Head(todo[m]).fifo
           T == {Rank(F(m)) : m \in W}
<1>1. \A m \in W : F(m) \in Own(s, m) /\ Head(todo[m]) = [do |-> "open", fifo |-> F(m)]
  BY OpenIsOwn
<1>2. W \subseteq Modules
  BY InvOf
<1>3. ASSUME NEW m \in W
      PROVE  Rank(F(m)) \in Nat
  <2> HIDE DEF F
  <2>1. F(m) = <<m, OtherEnd(m, F(m))>> \/ F(m) = <<OtherEnd(m, F(m)), m>>
    BY <1>1, <1>2, OtherEndOwns
  <2> QED BY <2>1, RankOfOwn
<1>4. PICK r \in T : \A q \in T : r <= q
  <2>1. T \subseteq Nat BY <1>3
  <2>2. T # {} OBVIOUS
  <2> HIDE DEF T
  <2> QED BY <2>1, <2>2, NatLeast
<1>5. PICK m \in W : r = Rank(F(m))
  OBVIOUS
<1> DEFINE n == OtherEnd(m, F(m))
<1>6. n \in W /\ ~ Returns(m, F(m)) /\ InStep(n, "open") /\ Served(s, m) /\ n # "monitor"
  OBVIOUS
<1>7. Rank(F(m)) <= Rank(F(n)) /\ Rank(F(m)) \in Nat /\ Rank(F(n)) \in Nat
  BY <1>3, <1>4, <1>5, <1>6
<1>8. F(m) \in Own(s, m) /\ Head(todo[n]) = [do |-> "open", fifo |-> F(n)] /\ m \in Modules
  BY <1>1, <1>2, <1>6
<1> HIDE DEF s, F, T
<1>9. n \in Neighbours(m) /\ Served(s, n) /\ (F(m) = <<m, n>> \/ F(m) = <<n, m>>)
  <2>1. m # "monitor" BY <1>8 DEF Modules
  <2> QED BY <1>6, <1>8, <2>1, OtherEndOwns
<1> HIDE DEF n
<1>10. F(m) \in Own(s, n)
  BY <1>6, <1>8, <1>9, BothEndsOwn
<1>11. n \in Runs /\ F(m) \notin opened[n]
       /\ ~ (todo[n] # <<>> /\ Head(todo[n]) = Open(F(m)[1], F(m)[2]))
  BY <1>6 DEF Returns, n
<1>12. F(m) \in Opens(todo[n]) /\ todo[n] # <<>>
  BY <1>10, <1>11, LeftToOpen DEF s
<1>13. F(n) # F(m)
  <2>1. SUFFICES ASSUME F(n) = F(m) PROVE FALSE
    OBVIOUS
  <2>2. <<F(m)[1], F(m)[2]>> = F(m) BY <1>9
  <2>3. Head(todo[n]) = Open(F(m)[1], F(m)[2]) BY <1>8, <2>1, <2>2 DEF Open
  <2> QED BY <1>11, <1>12, <2>3
<1>14. todo[n] \in Seq(Step) /\ Sorted(todo[n])
  <2>1. OnTheWay(s, n, todo[n], opened[n]) BY <1>11, InvOf DEF s
  <2> QED BY <1>6, <2>1 DEF OnTheWay
<1>15. Head(todo[n]).do = "open" /\ Head(todo[n]).fifo = F(n)
  BY <1>8
<1>16. F(m) \in Opens(Tail(todo[n]))
  BY <1>12, <1>13, <1>14, <1>15, OpensTail
<1>17. Rank(F(n)) < Rank(F(m))
  BY <1>12, <1>14, <1>15, <1>16, SortedTail
<1> QED BY <1>7, <1>17

\* Whoever waits, waits at an open or for room for an event.
LEMMA Waiting ==
  ASSUME NEW m \in Runs, WaitsFor(m) # m
  PROVE  /\ Alive(m) /\ ~ Operating(m)
         /\ \/ /\ InStep(m, "open") /\ ~ Returns(m, Head(todo[m]).fifo)
               /\ WaitsFor(m) = OtherEnd(m, Head(todo[m]).fifo)
            \/ InStep(m, "event") /\ ~ RoomForEvent(m) /\ WaitsFor(m) = "monitor"
  BY DEF WaitsFor, InStep, Operating

\* In whatever order the processes start, whatever is configured and monitored
\* and whoever dies, nobody waits in a circle: who waits for an open waits for
\* one that stands at a FIFO of lower rank.
LEMMA NoCircleOfWaits ==
  ASSUME StartInv, NEW W, W \subseteq {m \in Runs : WaitsFor(m) # m}, W # {}
  PROVE  \E m \in W : WaitsFor(m) \notin W
<1> SUFFICES ASSUME \A m \in W : WaitsFor(m) \in W
             PROVE  FALSE
  OBVIOUS
<1> DEFINE s == Setups[setup]
           F(m) == Head(todo[m]).fifo
           V == {WaitsFor(m) : m \in W}
<1>1. \A m \in W : m \in Runs /\ WaitsFor(m) # m
  OBVIOUS
<1>2. "monitor" \notin W
  <2>1. SUFFICES ASSUME "monitor" \in W PROVE FALSE
    OBVIOUS
  <2>2. ~ InStep("monitor", "event")
    <3>1. OnTheWay(s, "monitor", todo["monitor"], opened["monitor"])
      BY <1>1, <2>1, InvOf
    <3> QED BY <3>1, HeadIsOwn DEF InStep
  <2>3. /\ InStep("monitor", "open") /\ ~ Returns("monitor", F("monitor"))
        /\ WaitsFor("monitor") = OtherEnd("monitor", F("monitor"))
    BY <1>1, <2>1, <2>2, Waiting
  <2>4. OtherEnd("monitor", F("monitor")) \in Runs
    BY <1>1, <2>1, <2>3
  <2> QED BY <1>1, <2>1, <2>3, <2>4, MonitorReturns
<1>3. \A m \in W : /\ InStep(m, "open") /\ ~ Returns(m, F(m))
                   /\ WaitsFor(m) = OtherEnd(m, F(m)) /\ OtherEnd(m, F(m)) \in W
  BY <1>1, <1>2, Waiting
<1>4. V \subseteq W /\ V # {}
  OBVIOUS
<1>5. ASSUME NEW m \in V
      PROVE  Served(s, m)
  <2>1. PICK x \in W : m = WaitsFor(x)
    BY <1>5
  <2>2. x \in Modules /\ F(x) \in Own(s, x)
    BY <1>1, <1>2, <1>3, InvOf, OpenIsOwn
  <2>3. m = OtherEnd(x, F(x)) /\ m # "monitor" /\ x # "monitor"
    BY <1>2, <1>3, <2>1
  <2> HIDE DEF F, s
  <2> QED BY <2>2, <2>3, OtherEndOwns
<1>6. ASSUME NEW m \in V
      PROVE  /\ InStep(m, "open") /\ ~ Returns(m, F(m))
             /\ OtherEnd(m, F(m)) \in V
  BY <1>3, <1>4, <1>6
<1>7. V \subseteq Runs /\ "monitor" \notin V
  BY <1>1, <1>2, <1>4
<1> HIDE DEF V
<1> QED BY <1>4, <1>5, <1>6, <1>7, NoCircle

\* No set of processes waits in a circle, in any start (Minet.cc, MinetConnect
\* and MinetAccept; the main of every module; monitor.cc, main).
THEOREM NoCyclicWaitHolds == Spec => []NoCyclicWait
<1>1. StartInv => NoCyclicWait
  BY NoCircleOfWaits DEF NoCyclicWait
<1> QED BY <1>1, StartInvInvariant, PTL
-----------------------------------------------------------------------------
\* In a setup that tells the truth, what is configured runs and what runs is
\* configured.
LEMMA TruthfulRuns ==
  ASSUME TypeOK, Truthful, NEW n \in Modules
  PROVE  n \in Runs <=> Served(Setups[setup], n)
<1> DEFINE s == Setups[setup]
           C == {x \in Modules \cup {"app"} : MinetIsModuleInConfig(s, x)}
<1>1. s.runs \ {"monitor"} = {Process(x) : x \in C} /\ Runs = s.runs
  BY DEF Truthful, TypeOK
<1>2. n # "monitor" /\ "app" \notin Modules
  BY DEF Modules
<1> HIDE DEF s
<1>3. ASSUME n \in Runs
      PROVE  Served(s, n)
  <2>1. n \in s.runs \ {"monitor"} BY <1>1, <1>2, <1>3
  <2>2. PICK x \in C : n = Process(x) BY <1>1, <2>1
  <2> QED BY <1>2, <2>2 DEF Process, Served, MinetIsModuleInConfig
<1>4. ASSUME Served(s, n)
      PROVE  n \in Runs
  <2>1. \E x \in C : n = Process(x)
    <3>1. CASE n # "socklib_module"
      <4>1. n \in C /\ Process(n) = n
        BY <1>2, <1>4, <3>1 DEF Process, Served, MinetIsModuleInConfig
      <4> QED BY <4>1
    <3>2. CASE n = "socklib_module" /\ Lists(s.config, "app")
      <4>1. "app" \in C /\ Process("app") = n
        BY <3>2 DEF Process, MinetIsModuleInConfig
      <4> QED BY <4>1
    <3>3. CASE n = "socklib_module" /\ Lists(s.config, "socklib_module")
      <4>1. n \in C /\ Process(n) = n
        BY <3>3 DEF Process, MinetIsModuleInConfig
      <4> QED BY <4>1
    <3> QED BY <1>4, <3>1, <3>2, <3>3 DEF Served
  <2> QED BY <1>1, <2>1
<1> QED BY <1>3, <1>4 DEF s

LEMMA TruthfulMonitor ==
  ASSUME TypeOK, Truthful, NEW n \in Names, MinetIsModuleMonitored(Setups[setup], n)
  PROVE  n \in Runs /\ "monitor" \in Runs
<1>1. Setups[setup].monitored # {}
  BY DEF MinetIsModuleMonitored, Lists
<1> QED BY <1>1 DEF Truthful, TypeOK

\* Of the modules that have sent events, there is one whose turn it is.
LEMMA SomebodyIsNext ==
  ASSUME StartInv, NEW m \in Runs, m # "monitor", events[m] > 0
  PROVE  \E n \in Runs : events[n] > 0 /\ IsNext(n)
<1> DEFINE T == {i \in 1 .. 15 : MonitorAccepts[i] \in Runs /\ events[MonitorAccepts[i]] > 0}
<1>1. T \subseteq Nat
  OBVIOUS
<1>2. T # {}
  <2>1. m \in Names \ {"monitor"} BY InvOf DEF Names
  <2>2. PICK i \in 1 .. 15 : MonitorAccepts[i] = m BY <2>1, MonitorAcceptsAll
  <2> QED BY <2>2
<1> HIDE DEF T
<1>3. PICK i \in T : \A j \in T : i <= j
  BY <1>1, <1>2, NatLeast
<1>4. i \in 1 .. 15 /\ MonitorAccepts[i] \in Runs /\ events[MonitorAccepts[i]] > 0
  BY DEF T
<1>5. ASSUME NEW k \in 1 .. 15, NEW j \in 1 .. 15, MonitorAccepts[k] = MonitorAccepts[i], j < k,
             MonitorAccepts[j] \in Runs
      PROVE  events[MonitorAccepts[j]] = 0
  <2>1. k = i BY <1>4, <1>5, MonitorAcceptsAll
  <2>2. j \notin T BY <1>3, <1>4, <1>5, <2>1
  <2>3. ~ (events[MonitorAccepts[j]] > 0) BY <1>5, <2>2 DEF T
  <2>4. events[MonitorAccepts[j]] \in 0 .. EventRoom /\ EventRoom \in Nat
    BY <1>5, StartupAssumption DEF StartInv, TypeOK
  <2> QED BY <2>3, <2>4
<1>6. IsNext(MonitorAccepts[i])
  BY <1>5, MonitorAcceptsAll DEF IsNext
<1> QED BY <1>4, <1>6

\* An open is to return when the process at the other end is up.
LEMMA UpReturns ==
  ASSUME StartInv, NEW m \in Runs, NEW f \in Own(Setups[setup], m),
         NEW n \in Runs, n = OtherEnd(m, f), f \in Own(Setups[setup], n), todo[n] = <<>>
  PROVE  Returns(m, f)
<1>1. f \in opened[n]
  BY LeftToOpen
<1> QED BY <1>1 DEF Returns

\* In a setup that tells the truth somebody can go on until all are up.
LEMMA SomebodyGoesOn ==
  ASSUME StartInv, Truthful, NEW x \in Runs, ~ Operating(x),
         \A m \in Runs : Alive(m) /\ ~ Operating(m) => WaitsFor(m) # m,
         ~ (Operating("monitor") /\ \E n \in Runs : events[n] > 0 /\ IsNext(n))
  PROVE  FALSE
<1> DEFINE s == Setups[setup]
           F(m) == Head(todo[m]).fifo
           W == {m \in Runs : ~ Operating(m)}
<1>0. TypeOK BY DEF StartInv
<1>1. \A m \in Runs : Alive(m)
  <2>1. dead = {} /\ stopped = {} BY DEF StartInv, Truthful
  <2> QED BY <2>1 DEF Alive
<1>2. \A m \in W : m \in Runs /\ WaitsFor(m) # m /\ todo[m] # <<>>
  BY <1>1 DEF Operating
<1>u. \A m \in Runs : m \notin W => Operating(m) /\ todo[m] = <<>>
  BY DEF Operating
<1>x. x \in W /\ W \subseteq Runs
  OBVIOUS
<1> HIDE DEF W
<1>3. "monitor" \notin W
  <2>1. SUFFICES ASSUME "monitor" \in W PROVE FALSE
    OBVIOUS
  <2>2. ~ InStep("monitor", "event")
    <3>1. OnTheWay(s, "monitor", todo["monitor"], opened["monitor"])
      BY <1>2, <2>1, InvOf
    <3> QED BY <3>1, HeadIsOwn DEF InStep
  <2>3. InStep("monitor", "open") /\ ~ Returns("monitor", F("monitor"))
    BY <1>2, <2>1, <2>2, Waiting
  <2>4. F("monitor") \in Own(s, "monitor")
    BY <1>2, <2>1, <2>3, OpenIsOwn
  <2>5. /\ OtherEnd("monitor", F("monitor")) \in Names
        /\ MinetIsModuleMonitored(s, OtherEnd("monitor", F("monitor")))
    <3> HIDE DEF F, s
    <3> QED BY <2>4, OtherEndOwns
  <2>6. OtherEnd("monitor", F("monitor")) \in Runs
    BY <1>0, <2>5, TruthfulMonitor
  <2> QED BY <1>2, <2>1, <2>3, <2>6, MonitorReturns
<1>4. ASSUME NEW m \in W
      PROVE  ~ InStep(m, "event")
  <2>1. SUFFICES ASSUME InStep(m, "event") PROVE FALSE
    OBVIOUS
  <2>2. m \in Runs /\ WaitsFor(m) # m BY <1>2
  <2>3. m # "monitor" /\ MinetIsModuleMonitored(s, m)
    <3>1. OnTheWay(s, m, todo[m], opened[m]) BY <2>2, InvOf
    <3> QED BY <2>1, <3>1, HeadIsOwn DEF InStep
  <2>4. m \in Names BY <2>2, InvOf DEF Names
  <2>5. "monitor" \in Runs BY <1>0, <2>3, <2>4, TruthfulMonitor
  <2>6. Operating("monitor") BY <1>3, <1>u, <2>5
  <2>7. ~ RoomForEvent(m) BY <2>1, <2>2, Waiting DEF InStep
  <2>8. events[m] > 0
    <3>1. EventRoom \in Nat \ {0} BY StartupAssumption
    <3>2. events[m] \in 0 .. EventRoom BY <1>0, <2>2 DEF TypeOK
    <3> QED BY <2>7, <3>1, <3>2 DEF RoomForEvent
  <2> QED BY <2>2, <2>3, <2>6, <2>8, SomebodyIsNext
<1>5. ASSUME NEW m \in W
      PROVE  /\ InStep(m, "open") /\ ~ Returns(m, F(m))
             /\ OtherEnd(m, F(m)) \in W
             /\ Served(s, m)
  <2>1. m \in Runs /\ InStep(m, "open") /\ ~ Returns(m, F(m))
    BY <1>2, <1>4, <1>5, Waiting
  <2>2. m \in Modules /\ m # "monitor" BY <1>3, <1>5, <2>1, InvOf
  <2>3. F(m) \in Own(s, m) BY <2>1, OpenIsOwn
  <2>4. Served(s, m) BY <1>0, <2>1, <2>2, TruthfulRuns
  <2> DEFINE f == F(m)
             n == OtherEnd(m, f)
  <2> HIDE DEF F, s
  <2>5. CASE n = "monitor"
    <3>1. MinetIsModuleMonitored(s, m) /\ f = <<m, "monitor">>
      BY <2>2, <2>3, <2>5, OtherEndOwns
    <3>2. m \in Names \ {"monitor"} BY <2>2 DEF Names
    <3>3. "monitor" \in Runs BY <1>0, <3>1, <3>2, TruthfulMonitor DEF s
    <3>4. f \in Own(s, "monitor") BY <3>1, <3>2, OwnFifos DEF OwnFifo
    <3>5. todo["monitor"] = <<>> BY <1>3, <1>u, <3>3
    <3> HIDE DEF f
    <3>6. Returns(m, f) BY <2>1, <2>3, <2>5, <3>3, <3>4, <3>5, UpReturns DEF s, f
    <3> QED BY <2>1, <3>6 DEF f
  <2>6. CASE n # "monitor"
    <3>1. n \in Neighbours(m) /\ Served(s, n) /\ (f = <<m, n>> \/ f = <<n, m>>)
      BY <2>2, <2>3, <2>6, OtherEndOwns
    <3>2. n \in Modules BY <2>2, <3>1, NeighboursAreMutual
    <3>3. n \in Runs BY <1>0, <3>1, <3>2, TruthfulRuns DEF s
    <3> HIDE DEF n
    <3>4. f \in Own(s, n) BY <2>2, <2>4, <3>1, BothEndsOwn
    <3> HIDE DEF f
    <3>5. ~ (todo[n] = <<>>)
      <4>1. SUFFICES ASSUME todo[n] = <<>> PROVE FALSE
        OBVIOUS
      <4>2. f \in Own(s, m) BY <2>3 DEF f
      <4>3. Returns(m, f) BY <2>1, <4>1, <4>2, <3>3, <3>4, UpReturns DEF s, n
      <4> QED BY <2>1, <4>3 DEF f
    <3>6. n \in W BY <1>u, <3>3, <3>5
    <3> QED BY <2>1, <2>4, <3>6 DEF n, f
  <2> QED BY <2>5, <2>6
<1> QED BY <1>x, <1>3, <1>5, NoCircle

\* A stack whose environment tells the truth never stands still before all of
\* it is up: somebody can go on (Minet.cc, MinetInit, MinetConnect,
\* MinetAccept, MinetSendToMonitor; monitor.cc, main).
THEOREM StartGoesOnHolds == Spec => []StartGoesOn
<1>1. StartInv => StartGoesOn
  BY SomebodyGoesOn DEF StartGoesOn
<1> QED BY <1>1, StartInvInvariant, PTL
==============================================================================
