------------------------- MODULE RateLimiterProofs -------------------------
(***************************************************************************)
(* Proofs about RateLimiter, for every rate, clock resolution, size of the *)
(* map and sleep of the daemon.                                            *)
(***************************************************************************)
EXTENDS RateLimiter, FiniteSetTheorems, TLAPS

(* Arithmetic. *)
LEMMA ProductMono ==
    ASSUME NEW n \in Nat, NEW x \in Int, NEW y \in Int, x <= y
    PROVE  n * x \in Int /\ n * y \in Int /\ n * x <= n * y
<1>1. y - x \in Nat  OBVIOUS
<1>2. n * (y - x) \in Nat  BY <1>1
<1>3. n * (y - x) = n * y - n * x  OBVIOUS
<1>. QED  BY <1>2, <1>3

LEMMA DivFacts ==
    ASSUME NEW n \in Nat \ {0}, NEW a \in Int
    PROVE  a \div n \in Int /\ n * (a \div n) <= a /\ a < n * (a \div n) + n
OBVIOUS

LEMMA DivGreatest ==
    ASSUME NEW n \in Nat \ {0}, NEW a \in Int, NEW q \in Int, n * q <= a
    PROVE  q <= a \div n
<1>. DEFINE d == a \div n
<1>1. d \in Int /\ n * d <= a /\ a < n * d + n  BY DivFacts
<1>. HIDE DEF d
<1>. SUFFICES ASSUME d + 1 <= q PROVE FALSE  BY <1>1 DEF d
<1>2. n * (d + 1) <= n * q  BY <1>1, ProductMono
<1>3. n * (d + 1) = n * d + n  BY <1>1
<1>. QED  BY <1>1, <1>2, <1>3

LEMMA DivMono ==
    ASSUME NEW n \in Nat \ {0}, NEW a \in Int, NEW b \in Int, a <= b
    PROVE  a \div n <= b \div n
<1>1. a \div n \in Int /\ n * (a \div n) <= a  BY DivFacts
<1>2. n * (a \div n) <= b  BY <1>1
<1>. QED  BY <1>1, <1>2, DivGreatest

(* The window of a time, in nanoseconds and as the number of the second. *)
LEMMA WindowFacts ==
    ASSUME NEW t \in Nat
    PROVE  /\ t \div NANO \in Nat
           /\ Window(t) = NANO * (t \div NANO)
           /\ Window(t) \in Nat /\ Window(t) <= t /\ t < Window(t) + NANO
<1>. DEFINE q == t \div NANO
<1>1. NANO \in Nat \ {0}  BY NumbersAssumption
<1>2. q \in Int /\ NANO * q <= t /\ t < NANO * q + NANO  BY <1>1, DivFacts
<1>3. 0 <= q  BY <1>1, DivGreatest
<1>. HIDE DEF q
<1>4. q \in Nat /\ q * NANO = NANO * q /\ NANO * q \in Nat  BY <1>1, <1>2, <1>3
<1>5. Window(t) = NANO * q  BY <1>4 DEF Window, q
<1>. QED  BY <1>2, <1>4, <1>5 DEF q

-----------------------------------------------------------------------------
(* Types.  A packet has an element once it is compared and counted, and    *)
(* only the CPUs of the setup have packets.                                *)
Counting == {"check", "inc", "inc store"}
Typed ==
    /\ TypeOK
    /\ \A p \in CPUs : cpu[p].pc \in Counting => cpu[p].cw \in Elems
    /\ \A p \in CPUs : cpu[p].pc # "idle" => p \in setup.cpus

LEMMA SetupType ==
    ASSUME TypeOK
    PROVE  /\ Rate \in Nat /\ SleepSecs \in Nat \ {0} /\ MaxTime \in Nat /\ setup.maxSyns \in Nat
           /\ setup.cpus \subseteq CPUs /\ NANO <= MaxTime
BY SetupsAssumption DEF TypeOK, Setup, Rate, SleepSecs, MaxTime

LEMMA PacketFields ==
    ASSUME NEW x \in Packet
    PROVE  /\ x = [pc |-> x.pc, tnow |-> x.tnow, pw |-> x.pw, cw |-> x.cw,
                   total |-> x.total, old |-> x.old]
           /\ x.pc \in Steps /\ x.tnow \in Nat /\ x.pw \in Elems \cup {None}
           /\ x.cw \in Elems \cup {None} /\ x.total \in Nat /\ x.old \in Nat
BY DEF Packet

(* The updates of one CPU's packet, field by field. *)
LEMMA Fields ==
    ASSUME NEW x \in Packet
    PROVE  /\ \A s \in Steps : [x EXCEPT !.pc = s]
                  = [pc |-> s, tnow |-> x.tnow, pw |-> x.pw, cw |-> x.cw,
                     total |-> x.total, old |-> x.old]
           /\ \A v : [x EXCEPT !.old = v]
                  = [pc |-> x.pc, tnow |-> x.tnow, pw |-> x.pw, cw |-> x.cw,
                     total |-> x.total, old |-> v]
           /\ \A v : [x EXCEPT !.total = v]
                  = [pc |-> x.pc, tnow |-> x.tnow, pw |-> x.pw, cw |-> x.cw,
                     total |-> v, old |-> x.old]
           /\ \A v : [x EXCEPT !.cw = v]
                  = [pc |-> x.pc, tnow |-> x.tnow, pw |-> x.pw, cw |-> v,
                     total |-> x.total, old |-> x.old]
BY PacketFields

(* p's packet becomes f. *)
Put(p, f) == f \in Packet /\ cpu' = [cpu EXCEPT ![p] = f]

LEMMA GotoPuts ==
    ASSUME cpu \in [CPUs -> Packet], NEW p \in CPUs, NEW s \in Steps, Goto(p, s)
    PROVE  Put(p, [pc |-> s, tnow |-> cpu[p].tnow, pw |-> cpu[p].pw, cw |-> cpu[p].cw,
                   total |-> cpu[p].total, old |-> cpu[p].old])
<1>1. cpu[p] \in Packet  OBVIOUS
<1>2. cpu' = [cpu EXCEPT ![p] = [@ EXCEPT !.pc = s]]  BY DEF Goto
<1>. QED  BY <1>1, <1>2, Fields, PacketFields DEF Put, Packet

LEMMA LoadPuts ==
    ASSUME cpu \in [CPUs -> Packet], NEW p \in CPUs, NEW s \in Steps, NEW v \in Nat, Load(p, v, s)
    PROVE  Put(p, [pc |-> s, tnow |-> cpu[p].tnow, pw |-> cpu[p].pw, cw |-> cpu[p].cw,
                   total |-> cpu[p].total, old |-> v])
<1>1. cpu[p] \in Packet  OBVIOUS
<1>. DEFINE y == [cpu[p] EXCEPT !.pc = s]
<1>2. y = [pc |-> s, tnow |-> cpu[p].tnow, pw |-> cpu[p].pw, cw |-> cpu[p].cw,
           total |-> cpu[p].total, old |-> cpu[p].old]
  BY <1>1, Fields
<1>3. y \in Packet  BY <1>1, <1>2, PacketFields DEF Packet
<1>4. cpu' = [cpu EXCEPT ![p] = [y EXCEPT !.old = v]]  BY DEF Load
<1>5. y.tnow = cpu[p].tnow /\ y.pw = cpu[p].pw /\ y.cw = cpu[p].cw /\ y.total = cpu[p].total
      /\ y.pc = s
  BY <1>2
<1>. HIDE DEF y
<1>6. [y EXCEPT !.old = v] = [pc |-> s, tnow |-> cpu[p].tnow, pw |-> cpu[p].pw, cw |-> cpu[p].cw,
                              total |-> cpu[p].total, old |-> v]
  BY <1>3, <1>5, Fields
<1>. QED  BY <1>1, <1>4, <1>6, PacketFields DEF Put, Packet

LEMMA LookupPuts ==
    ASSUME cpu \in [CPUs -> Packet], NEW p \in CPUs, NEW s \in Steps, NEW v \in Elems \cup {None},
           cpu' = [cpu EXCEPT ![p].pc = s, ![p].cw = v]
    PROVE  Put(p, [pc |-> s, tnow |-> cpu[p].tnow, pw |-> cpu[p].pw, cw |-> v,
                   total |-> cpu[p].total, old |-> cpu[p].old])
<1>1. cpu[p] \in Packet  OBVIOUS
<1>. DEFINE y == [cpu[p] EXCEPT !.pc = s]
<1>2. y = [pc |-> s, tnow |-> cpu[p].tnow, pw |-> cpu[p].pw, cw |-> cpu[p].cw,
           total |-> cpu[p].total, old |-> cpu[p].old]
  BY <1>1, Fields
<1>3. y \in Packet  BY <1>1, <1>2, PacketFields DEF Packet
<1>4. cpu' = [cpu EXCEPT ![p] = [y EXCEPT !.cw = v]]  OBVIOUS
<1>5. y.tnow = cpu[p].tnow /\ y.pw = cpu[p].pw /\ y.old = cpu[p].old /\ y.total = cpu[p].total
      /\ y.pc = s
  BY <1>2
<1>. HIDE DEF y
<1>6. [y EXCEPT !.cw = v] = [pc |-> s, tnow |-> cpu[p].tnow, pw |-> cpu[p].pw, cw |-> v,
                             total |-> cpu[p].total, old |-> cpu[p].old]
  BY <1>3, <1>5, Fields
<1>. QED  BY <1>1, <1>4, <1>6, PacketFields DEF Put, Packet

LEMMA CheckPuts ==
    ASSUME cpu \in [CPUs -> Packet], NEW p \in CPUs, NEW s \in Steps, NEW v \in Nat,
           cpu' = [cpu EXCEPT ![p].pc = s, ![p].total = v]
    PROVE  Put(p, [pc |-> s, tnow |-> cpu[p].tnow, pw |-> cpu[p].pw, cw |-> cpu[p].cw,
                   total |-> v, old |-> cpu[p].old])
<1>1. cpu[p] \in Packet  OBVIOUS
<1>. DEFINE y == [cpu[p] EXCEPT !.pc = s]
<1>2. y = [pc |-> s, tnow |-> cpu[p].tnow, pw |-> cpu[p].pw, cw |-> cpu[p].cw,
           total |-> cpu[p].total, old |-> cpu[p].old]
  BY <1>1, Fields
<1>3. y \in Packet  BY <1>1, <1>2, PacketFields DEF Packet
<1>4. cpu' = [cpu EXCEPT ![p] = [y EXCEPT !.total = v]]  OBVIOUS
<1>5. y.tnow = cpu[p].tnow /\ y.pw = cpu[p].pw /\ y.old = cpu[p].old /\ y.cw = cpu[p].cw
      /\ y.pc = s
  BY <1>2
<1>. HIDE DEF y
<1>6. [y EXCEPT !.total = v] = [pc |-> s, tnow |-> cpu[p].tnow, pw |-> cpu[p].pw, cw |-> cpu[p].cw,
                                total |-> v, old |-> cpu[p].old]
  BY <1>3, <1>5, Fields
<1>. QED  BY <1>1, <1>4, <1>6, PacketFields DEF Put, Packet

LEMMA LookupFacts ==
    ASSUME NEW k
    PROVE  /\ Lookup(k) \in Elems \cup {None}
           /\ Lookup(k) # None => key[Lookup(k)] = k
           /\ Lookup(k) = None => \A e \in Elems : key[e] # k
<1>1. CASE \E e \in Elems : key[e] = k
  <2>1. Lookup(k) \in Elems /\ key[Lookup(k)] = k  BY <1>1 DEF Lookup
  <2>. QED  BY <2>1, NoneAssumption
<1>2. CASE ~\E e \in Elems : key[e] = k  BY <1>2 DEF Lookup
<1>. QED  BY <1>1, <1>2

(* The share of the previous window is between none and all of it, so that *)
(* the total is at least what the current window counts.                   *)
LEMMA TotalFacts ==
    ASSUME Typed, NEW p \in CPUs, cpu[p].cw \in Elems
    PROVE  Total(p) \in Nat /\ count[cpu[p].cw] * MULTIPLIER <= Total(p)
<1>. DEFINE x == cpu[p]
            d == x.tnow - Window(x.tnow)
            q == (d * MULTIPLIER) \div NANO
<1>1. /\ NANO \in Nat \ {0} /\ MULTIPLIER \in Nat /\ x \in Packet /\ x.tnow \in Nat
      /\ x.pw \in Elems \cup {None}
  BY NumbersAssumption, PacketFields DEF Typed, TypeOK
<1>2. d \in Nat /\ d <= NANO
  <2>1. Window(x.tnow) \in Nat /\ Window(x.tnow) <= x.tnow /\ x.tnow < Window(x.tnow) + NANO
    BY <1>1, WindowFacts
  <2>. HIDE DEF x
  <2>. QED  BY <1>1, <2>1
<1>3. d * MULTIPLIER \in Int /\ d * MULTIPLIER <= NANO * MULTIPLIER
  <2>. HIDE DEF d
  <2>1. MULTIPLIER * d <= MULTIPLIER * NANO  BY <1>1, <1>2, ProductMono
  <2>. QED  BY <1>1, <1>2, <2>1
<1>4. q \in Int /\ q <= MULTIPLIER
  <2>. DEFINE a == d * MULTIPLIER
  <2>. HIDE DEF a
  <2>1. a \div NANO \in Int /\ NANO * (a \div NANO) <= a  BY <1>1, <1>3, DivFacts DEF a
  <2>2. ASSUME MULTIPLIER + 1 <= a \div NANO PROVE FALSE
    <3>1. NANO * (MULTIPLIER + 1) <= NANO * (a \div NANO)  BY <1>1, <2>1, <2>2, ProductMono
    <3>2. NANO * (MULTIPLIER + 1) = NANO * MULTIPLIER + NANO  BY <1>1
    <3>. QED  BY <1>1, <1>3, <2>1, <3>1, <3>2 DEF a
  <2>. QED  BY <1>1, <2>1, <2>2 DEF a
<1>5. MULTIPLIER - q \in Nat
  <2>. HIDE DEF q
  <2>. QED  BY <1>1, <1>4
<1>6. count[x.cw] \in Nat /\ (x.pw # None => count[x.pw] \in Nat)
  BY <1>1 DEF Typed, TypeOK
<1>7. count[x.cw] * MULTIPLIER \in Nat  BY <1>1, <1>6
<1>8. Total(p) = IF x.pw = None THEN count[x.cw] * MULTIPLIER
                 ELSE (MULTIPLIER - q) * count[x.pw] + count[x.cw] * MULTIPLIER
  BY DEF Total
<1>9. x.pw # None => (MULTIPLIER - q) * count[x.pw] \in Nat
  <2>. HIDE DEF q, x
  <2>. QED  BY <1>5, <1>6
<1>. HIDE DEF x, q
<1>. QED  BY <1>7, <1>8, <1>9 DEF x

-----------------------------------------------------------------------------
(* What each step of a packet does to it. *)
With(x, s, cw, total, old) ==
    [pc |-> s, tnow |-> x.tnow, pw |-> x.pw, cw |-> cw, total |-> total, old |-> old]

LEMMA Puts ==
    ASSUME Typed, NEW p \in CPUs
    PROVE  LET x == cpu[p] IN
           /\ Receive(p) => Put(p, [pc |-> "recv", tnow |-> now, pw |-> Lookup(Window(now) - NANO),
                                    cw |-> Lookup(Window(now)), total |-> 0, old |-> 0])
           /\ LoadRecv(p) => Put(p, With(x, "recv store", x.cw, x.total, recv))
           /\ StoreRecv(p) =>
                 Put(p, With(x, IF x.cw = None THEN "create" ELSE "check", x.cw, x.total, x.old))
           /\ CreateWindow(p) => Put(p, With(x, "lookup", x.cw, x.total, x.old))
           /\ LookupWindow(p) =>
                 LET e == Lookup(Window(x.tnow))
                 IN  Put(p, With(x, IF e = None THEN "idle" ELSE "check", e, x.total, x.old))
           /\ Check(p) =>
                 Put(p, With(x, IF Exceeded(p) THEN "drop" ELSE "inc", x.cw, Total(p), x.old))
           /\ LoadCount(p) => Put(p, With(x, "inc store", x.cw, x.total, count[x.cw]))
           /\ StoreCount(p) => Put(p, With(x, "idle", x.cw, x.total, x.old))
           /\ LoadDrop(p) => Put(p, With(x, "drop store", x.cw, x.total, drop))
           /\ StoreDrop(p) => Put(p, With(x, "idle", x.cw, x.total, x.old))
<1>. DEFINE x == cpu[p]
<1>1. /\ cpu \in [CPUs -> Packet] /\ recv \in Nat /\ drop \in Nat /\ now \in Nat
      /\ count \in [Elems -> Nat]
  BY DEF Typed, TypeOK
<1>2. /\ "recv" \in Steps /\ "recv store" \in Steps /\ "create" \in Steps /\ "check" \in Steps
      /\ "lookup" \in Steps /\ "idle" \in Steps /\ "drop" \in Steps /\ "inc" \in Steps
      /\ "inc store" \in Steps /\ "drop store" \in Steps
  BY DEF Steps
<1>3. Receive(p) => Put(p, [pc |-> "recv", tnow |-> now, pw |-> Lookup(Window(now) - NANO),
                            cw |-> Lookup(Window(now)), total |-> 0, old |-> 0])
  BY <1>1, <1>2, LookupFacts DEF Receive, Put, Packet
<1>4. LoadRecv(p) => Put(p, With(x, "recv store", x.cw, x.total, recv))
  BY <1>1, <1>2, LoadPuts DEF LoadRecv, With
<1>5. StoreRecv(p) =>
          Put(p, With(x, IF x.cw = None THEN "create" ELSE "check", x.cw, x.total, x.old))
  BY <1>1, <1>2, GotoPuts DEF StoreRecv, With
<1>6. CreateWindow(p) => Put(p, With(x, "lookup", x.cw, x.total, x.old))
  BY <1>1, <1>2, GotoPuts DEF CreateWindow, With
<1>7. LookupWindow(p) =>
          LET e == Lookup(Window(x.tnow))
          IN  Put(p, With(x, IF e = None THEN "idle" ELSE "check", e, x.total, x.old))
  BY <1>1, <1>2, LookupPuts, LookupFacts DEF LookupWindow, With
<1>8. Check(p) =>
          Put(p, With(x, IF Exceeded(p) THEN "drop" ELSE "inc", x.cw, Total(p), x.old))
  <2>. SUFFICES ASSUME Check(p)
                PROVE  Put(p, With(x, IF Exceeded(p) THEN "drop" ELSE "inc", x.cw, Total(p), x.old))
    OBVIOUS
  <2>. DEFINE s == IF Exceeded(p) THEN "drop" ELSE "inc"
  <2>1. x.cw \in Elems  BY DEF Check, At, Typed, Counting
  <2>2. Total(p) \in Nat  BY <2>1, TotalFacts
  <2>3. s \in Steps  BY <1>2
  <2>4. cpu' = [cpu EXCEPT ![p].pc = s, ![p].total = Total(p)]  BY DEF Check
  <2>. HIDE DEF s
  <2>. QED  BY <1>1, <2>2, <2>3, <2>4, CheckPuts DEF With, s
<1>9. LoadCount(p) => Put(p, With(x, "inc store", x.cw, x.total, count[x.cw]))
  <2>. SUFFICES ASSUME LoadCount(p)
                PROVE  Put(p, With(x, "inc store", x.cw, x.total, count[x.cw]))
    OBVIOUS
  <2>1. x.cw \in Elems  BY DEF LoadCount, At, Typed, Counting
  <2>2. count[x.cw] \in Nat  BY <1>1, <2>1
  <2>3. Load(p, count[x.cw], "inc store")  BY DEF LoadCount
  <2>. QED  BY <1>1, <1>2, <2>2, <2>3, LoadPuts DEF With
<1>10. StoreCount(p) => Put(p, With(x, "idle", x.cw, x.total, x.old))
  BY <1>1, <1>2, GotoPuts DEF StoreCount, With
<1>11. LoadDrop(p) => Put(p, With(x, "drop store", x.cw, x.total, drop))
  BY <1>1, <1>2, LoadPuts DEF LoadDrop, With
<1>12. StoreDrop(p) => Put(p, With(x, "idle", x.cw, x.total, x.old))
  BY <1>1, <1>2, GotoPuts DEF StoreDrop, With
<1>. QED  BY <1>3, <1>4, <1>5, <1>6, <1>7, <1>8, <1>9, <1>10, <1>11, <1>12

(* An update of one packet keeps the facts about packets if the new one    *)
(* has them.                                                               *)
LEMMA PutTyped ==
    ASSUME Typed, NEW p \in CPUs, NEW f, Put(p, f), setup' = setup,
           f.pc \in Counting => f.cw \in Elems, f.pc # "idle" => p \in setup.cpus
    PROVE  /\ cpu' \in [CPUs -> Packet] /\ cpu'[p] = f /\ \A q \in CPUs \ {p} : cpu'[q] = cpu[q]
           /\ \A q \in CPUs : cpu'[q].pc \in Counting => cpu'[q].cw \in Elems
           /\ \A q \in CPUs : cpu'[q].pc # "idle" => q \in setup'.cpus
<1>1. cpu \in [CPUs -> Packet]  BY DEF Typed, TypeOK
<1>2. /\ cpu' \in [CPUs -> Packet] /\ cpu'[p] = f /\ \A q \in CPUs \ {p} : cpu'[q] = cpu[q]
  BY <1>1 DEF Put
<1>3. ASSUME NEW q \in CPUs
      PROVE  /\ cpu'[q].pc \in Counting => cpu'[q].cw \in Elems
             /\ cpu'[q].pc # "idle" => q \in setup'.cpus
  <2>1. CASE q = p  BY <1>2, <2>1
  <2>2. CASE q # p
    <3>1. cpu'[q] = cpu[q]  BY <1>2, <2>2
    <3>. QED  BY <3>1 DEF Typed
  <2>. QED  BY <2>1, <2>2
<1>. QED  BY <1>2, <1>3

(* What a step of a packet's handling has in common. *)
LEMMA PacketStep ==
    ASSUME Typed, NEW p \in CPUs, Receive(p) \/ Handle(p), setup' = setup
    PROVE  /\ cpu' \in [CPUs -> Packet] /\ \A q \in CPUs \ {p} : cpu'[q] = cpu[q]
           /\ \A q \in CPUs : cpu'[q].pc \in Counting => cpu'[q].cw \in Elems
           /\ \A q \in CPUs : cpu'[q].pc # "idle" => q \in setup'.cpus
           /\ now' = now /\ daemon' = daemon
<1>. DEFINE x == cpu[p]
<1>1. now' = now /\ daemon' = daemon
  BY DEF Receive, Handle, LoadRecv, StoreRecv, CreateWindow, LookupWindow, Check,
         LoadCount, StoreCount, LoadDrop, StoreDrop
<1>2. x.pc \in Counting => x.cw \in Elems  BY DEF Typed
<1>3. x.pc # "idle" => p \in setup.cpus  BY DEF Typed
<1>4. x.cw \in Elems \cup {None}  BY PacketFields DEF Typed, TypeOK
<1>5. \E f : Put(p, f) /\ (f.pc \in Counting => f.cw \in Elems) /\ p \in setup.cpus
  <2>1. CASE Receive(p)
    <3>. DEFINE f == [pc |-> "recv", tnow |-> now, pw |-> Lookup(Window(now) - NANO),
                      cw |-> Lookup(Window(now)), total |-> 0, old |-> 0]
    <3>1. Put(p, f)  BY <2>1, Puts
    <3>2. f.pc \notin Counting /\ p \in setup.cpus  BY <2>1 DEF Counting, Receive
    <3>. HIDE DEF f
    <3>. QED  BY <3>1, <3>2
  <2>2. CASE LoadRecv(p)
    <3>. DEFINE f == With(x, "recv store", x.cw, x.total, recv)
    <3>1. Put(p, f)  BY <2>2, Puts
    <3>2. f.pc \notin Counting /\ p \in setup.cpus
      BY <1>3, <2>2 DEF Counting, LoadRecv, At, With
    <3>. HIDE DEF f
    <3>. QED  BY <3>1, <3>2
  <2>3. CASE StoreRecv(p)
    <3>. DEFINE f == With(x, IF x.cw = None THEN "create" ELSE "check", x.cw, x.total, x.old)
    <3>1. Put(p, f)  BY <2>3, Puts
    <3>2. (f.pc \in Counting => f.cw \in Elems) /\ p \in setup.cpus
      BY <1>3, <1>4, <2>3 DEF Counting, StoreRecv, At, With
    <3>. HIDE DEF f
    <3>. QED  BY <3>1, <3>2
  <2>4. CASE CreateWindow(p)
    <3>. DEFINE f == With(x, "lookup", x.cw, x.total, x.old)
    <3>1. Put(p, f)  BY <2>4, Puts
    <3>2. f.pc \notin Counting /\ p \in setup.cpus
      BY <1>3, <2>4 DEF Counting, CreateWindow, At, With
    <3>. HIDE DEF f
    <3>. QED  BY <3>1, <3>2
  <2>5. CASE LookupWindow(p)
    <3>. DEFINE e == Lookup(Window(x.tnow))
                f == With(x, IF e = None THEN "idle" ELSE "check", e, x.total, x.old)
    <3>1. Put(p, f)  BY <2>5, Puts
    <3>2. e \in Elems \cup {None}  BY LookupFacts
    <3>3. p \in setup.cpus  BY <1>3, <2>5 DEF LookupWindow, At
    <3>. HIDE DEF e
    <3>4. f.pc \in Counting => f.cw \in Elems  BY <3>2 DEF Counting, With
    <3>. HIDE DEF f
    <3>. QED  BY <3>1, <3>3, <3>4
  <2>6. CASE Check(p)
    <3>. DEFINE f == With(x, IF Exceeded(p) THEN "drop" ELSE "inc", x.cw, Total(p), x.old)
    <3>1. Put(p, f)  BY <2>6, Puts
    <3>2. (f.pc \in Counting => f.cw \in Elems) /\ p \in setup.cpus
      BY <1>2, <1>3, <2>6 DEF Counting, Check, At, With
    <3>. HIDE DEF f
    <3>. QED  BY <3>1, <3>2
  <2>7. CASE LoadCount(p)
    <3>. DEFINE f == With(x, "inc store", x.cw, x.total, count[x.cw])
    <3>1. Put(p, f)  BY <2>7, Puts
    <3>2. (f.pc \in Counting => f.cw \in Elems) /\ p \in setup.cpus
      BY <1>2, <1>3, <2>7 DEF Counting, LoadCount, At, With
    <3>. HIDE DEF f
    <3>. QED  BY <3>1, <3>2
  <2>8. CASE StoreCount(p) \/ StoreDrop(p)
    <3>. DEFINE f == With(x, "idle", x.cw, x.total, x.old)
    <3>1. Put(p, f)  BY <2>8, Puts
    <3>2. f.pc \notin Counting /\ p \in setup.cpus
      BY <1>3, <2>8 DEF Counting, StoreCount, StoreDrop, At, With
    <3>. HIDE DEF f
    <3>. QED  BY <3>1, <3>2
  <2>9. CASE LoadDrop(p)
    <3>. DEFINE f == With(x, "drop store", x.cw, x.total, drop)
    <3>1. Put(p, f)  BY <2>9, Puts
    <3>2. f.pc \notin Counting /\ p \in setup.cpus
      BY <1>3, <2>9 DEF Counting, LoadDrop, At, With
    <3>. HIDE DEF f
    <3>. QED  BY <3>1, <3>2
  <2>. QED  BY <2>1, <2>2, <2>3, <2>4, <2>5, <2>6, <2>7, <2>8, <2>9 DEF Handle
<1>6. PICK f : Put(p, f) /\ (f.pc \in Counting => f.cw \in Elems) /\ p \in setup.cpus  BY <1>5
<1>. QED  BY <1>1, <1>6, PutTyped

LEMMA CountersTyped ==
    ASSUME Typed, NEW p \in CPUs, Receive(p) \/ Handle(p)
    PROVE  /\ recv' \in Nat /\ drop' \in Nat /\ syns' \in Nat /\ passed' \in Nat
           /\ key' \in [Elems -> Nat \cup {None}] /\ count' \in [Elems -> Nat]
           /\ accepted' \in [0 .. MaxTime -> Nat] /\ made' \subseteq Nat
<1>. DEFINE x == cpu[p]
<1>1. /\ recv \in Nat /\ drop \in Nat /\ syns \in Nat /\ passed \in Nat
      /\ key \in [Elems -> Nat \cup {None}] /\ count \in [Elems -> Nat]
      /\ accepted \in [0 .. MaxTime -> Nat] /\ made \subseteq Nat
      /\ x.old \in Nat /\ x.tnow \in Nat
  BY PacketFields DEF Typed, TypeOK
<1>2. CASE Receive(p) \/ LoadRecv(p) \/ Check(p) \/ LoadCount(p) \/ LoadDrop(p) \/ LookupWindow(p)
  <2>1. /\ recv' = recv /\ drop' = drop /\ key' = key /\ count' = count
        /\ accepted' = accepted /\ made' = made
        /\ syns' \in {syns, syns + 1} /\ passed' \in {passed, passed + 1}
    BY <1>2 DEF Receive, LoadRecv, Check, LoadCount, LoadDrop, LookupWindow, map, seen
  <2>. QED  BY <1>1, <2>1
<1>3. CASE StoreRecv(p)
  <2>1. /\ recv' = x.old + 1 /\ drop' = drop /\ key' = key /\ count' = count
        /\ accepted' = accepted /\ made' = made /\ syns' = syns /\ passed' = passed
    BY <1>3 DEF StoreRecv, map, seen
  <2>. QED  BY <1>1, <2>1
<1>4. CASE StoreDrop(p)
  <2>1. /\ recv' = recv /\ drop' = x.old + 1 /\ key' = key /\ count' = count
        /\ accepted' = accepted /\ made' = made /\ syns' = syns /\ passed' = passed
    BY <1>4 DEF StoreDrop, map, seen
  <2>. QED  BY <1>1, <2>1
<1>5. CASE CreateWindow(p)
  <2>1. recv' = recv /\ drop' = drop /\ accepted' = accepted /\ syns' = syns /\ passed' = passed
    BY <1>5 DEF CreateWindow
  <2>2. Window(x.tnow) \in Nat  BY <1>1, WindowFacts
  <2>3. \/ \E e \in Elems : /\ key' = [key EXCEPT ![e] = Window(x.tnow)]
                            /\ count' = [count EXCEPT ![e] = 0]
                            /\ made' = made \cup {Window(x.tnow)}
        \/ key' = key /\ count' = count /\ made' = made
    BY <1>5 DEF CreateWindow, map
  <2>. DEFINE w == Window(x.tnow)
  <2>4. CASE key' = key /\ count' = count /\ made' = made  BY <1>1, <2>1, <2>4
  <2>5. ASSUME NEW e \in Elems, key' = [key EXCEPT ![e] = w], count' = [count EXCEPT ![e] = 0],
               made' = made \cup {w}
        PROVE  /\ key' \in [Elems -> Nat \cup {None}] /\ count' \in [Elems -> Nat]
               /\ made' \subseteq Nat
    <3>. HIDE DEF w
    <3>1. w \in Nat  BY <2>2 DEF w
    <3>. QED  BY <1>1, <2>5, <3>1
  <2>. QED  BY <1>1, <2>1, <2>3, <2>4, <2>5
<1>6. CASE StoreCount(p)
  <2>1. /\ recv' = recv /\ drop' = drop /\ syns' = syns /\ passed' = passed + 1
        /\ key' = key /\ made' = made /\ count' = [count EXCEPT ![x.cw] = x.old + 1]
        /\ accepted' = [accepted EXCEPT ![Window(x.tnow)] = @ + 1]
    BY <1>6 DEF StoreCount
  <2>2. x.old + 1 \in Nat  BY <1>1
  <2>3. count' \in [Elems -> Nat]  BY <1>1, <2>1, <2>2
  <2>4. accepted' \in [0 .. MaxTime -> Nat]
    <3>. DEFINE w == Window(x.tnow)
    <3>1. accepted' = [accepted EXCEPT ![w] = @ + 1]  BY <2>1
    <3>. HIDE DEF w
    <3>2. w \in 0 .. MaxTime => accepted[w] + 1 \in Nat  BY <1>1
    <3>. QED  BY <1>1, <3>1, <3>2
  <2>. QED  BY <1>1, <2>1, <2>3, <2>4
<1>. QED  BY <1>2, <1>3, <1>4, <1>5, <1>6 DEF Handle

LEMMA StepTyped == Typed /\ [Next]_vars => Typed'
<1>. SUFFICES ASSUME Typed, [Next]_vars PROVE Typed'  OBVIOUS
<1>1. setup' = setup  BY DEF Next, vars
<1>2. MaxTime' = MaxTime  BY <1>1 DEF MaxTime
<1>3. /\ setup \in Setups /\ now \in Nat /\ recv \in Nat /\ drop \in Nat /\ syns \in Nat
      /\ key \in [Elems -> Nat \cup {None}] /\ count \in [Elems -> Nat]
      /\ cpu \in [CPUs -> Packet] /\ daemon \in [pc : {"sleep", "scan"}, time : Nat]
      /\ accepted \in [0 .. MaxTime -> Nat] /\ passed \in Nat /\ made \subseteq Nat
      /\ \A p \in CPUs : cpu[p].pc \in Counting => cpu[p].cw \in Elems
      /\ \A p \in CPUs : cpu[p].pc # "idle" => p \in setup.cpus
  BY DEF Typed, TypeOK
<1>4. ASSUME NEW p \in CPUs, Receive(p) \/ Handle(p) PROVE Typed'
  <2>1. /\ cpu' \in [CPUs -> Packet]
        /\ \A q \in CPUs : cpu'[q].pc \in Counting => cpu'[q].cw \in Elems
        /\ \A q \in CPUs : cpu'[q].pc # "idle" => q \in setup'.cpus
        /\ now' = now /\ daemon' = daemon
    BY <1>1, <1>4, PacketStep
  <2>2. /\ recv' \in Nat /\ drop' \in Nat /\ syns' \in Nat /\ passed' \in Nat
        /\ key' \in [Elems -> Nat \cup {None}] /\ count' \in [Elems -> Nat]
        /\ accepted' \in [0 .. MaxTime -> Nat] /\ made' \subseteq Nat
    BY <1>4, CountersTyped
  <2>. QED  BY <1>1, <1>2, <1>3, <2>1, <2>2 DEF Typed, TypeOK
<1>5. CASE Wake \/ Sleep \/ Tick \/ UNCHANGED vars
  <2>1. /\ key' = key /\ count' = count /\ recv' = recv /\ drop' = drop /\ cpu' = cpu
        /\ syns' = syns /\ accepted' = accepted /\ passed' = passed /\ made' = made
    BY <1>5 DEF Wake, Sleep, Tick, vars, map, seen
  <2>2. now' \in {now, now + 1}  BY <1>5 DEF Wake, Sleep, Tick, vars
  <2>3. daemon' \in {daemon, [pc |-> "scan", time |-> now], [pc |-> "sleep", time |-> now]}
    BY <1>5 DEF Wake, Sleep, Tick, vars
  <2>4. now' \in Nat /\ daemon' \in [pc : {"sleep", "scan"}, time : Nat]  BY <1>3, <2>2, <2>3
  <2>. QED  BY <1>1, <1>2, <1>3, <2>1, <2>4 DEF Typed, TypeOK
<1>6. ASSUME NEW e \in Elems, DeleteStale(e) PROVE Typed'
  <2>1. /\ count' = count /\ recv' = recv /\ drop' = drop /\ cpu' = cpu /\ now' = now
        /\ daemon' = daemon /\ syns' = syns /\ accepted' = accepted /\ passed' = passed
        /\ made' = made /\ key' = [key EXCEPT ![e] = None]
    BY <1>6 DEF DeleteStale, seen
  <2>2. key' \in [Elems -> Nat \cup {None}]  BY <1>3, <2>1
  <2>. QED  BY <1>1, <1>2, <1>3, <2>1, <2>2 DEF Typed, TypeOK
<1>. QED  BY <1>4, <1>5, <1>6 DEF Next

LEMMA InitTyped == Init => Typed
<1>. SUFFICES ASSUME Init PROVE Typed  OBVIOUS
<1>1. TypeOK  BY NumbersAssumption DEF Init, TypeOK, Packet, Steps
<1>. QED  BY <1>1 DEF Init, Typed, Counting

(* The types of the maps and of what each CPU holds of them, for every     *)
(* interleaving of any number of CPUs and the daemon; in particular no     *)
(* count, and no total that the previous window is weighed into, is        *)
(* negative, and the program never counts through a null pointer.          *)
THEOREM TypeCorrect == Spec => []TypeOK
<1>1. Spec => []Typed  BY InitTyped, StepTyped, PTL DEF Spec
<1>2. Typed => TypeOK  BY DEF Typed
<1>. QED  BY <1>1, <1>2, PTL

-----------------------------------------------------------------------------
(* The strengthening of MapHasRoom.  Base is when the daemon last finished *)
(* a scan.  Tick lets neither the daemon nor a CPU fall behind, so the     *)
(* windows in the map are distinct seconds from the one before Base to the *)
(* present one.                                                            *)
Base == IF daemon.pc = "sleep" THEN daemon.time ELSE daemon.time - SleepSecs * NANO
Clocked ==
    /\ now <= MaxTime
    /\ NANO <= Base /\ Base <= now /\ now <= Base + SleepSecs * NANO
    /\ daemon.pc = "scan" => daemon.time = now
    /\ \A p \in CPUs : cpu[p].pc # "idle" => cpu[p].tnow <= now /\ now <= cpu[p].tnow + 1
Second(t) == t \div NANO
KeysDistinct == \A e, f \in Elems : key[e] # None /\ key[e] = key[f] => e = f
KeysRecent ==
    \A e \in Elems : key[e] # None =>
        /\ key[e] = NANO * Second(key[e])
        /\ Second(key[e]) \in Second(Base - 1) .. Second(now)
RoomInv == Typed /\ Clocked /\ KeysDistinct /\ KeysRecent

-----------------------------------------------------------------------------
LEMMA SecondFacts ==
    /\ \A t \in Nat : Second(t) \in Nat /\ Window(t) = NANO * Second(t)
                      /\ NANO * Second(t) <= t /\ t < NANO * Second(t) + NANO
    /\ \A t, u \in Nat : t <= u => Second(t) <= Second(u)
    /\ \A n \in Nat : Second(NANO * n) = n
<1>1. NANO \in Nat \ {0}  BY NumbersAssumption
<1>2. ASSUME NEW t \in Nat
      PROVE  /\ Second(t) \in Nat /\ Window(t) = NANO * Second(t)
             /\ NANO * Second(t) <= t /\ t < NANO * Second(t) + NANO
  BY WindowFacts DEF Second
<1>3. ASSUME NEW t \in Nat, NEW u \in Nat, t <= u PROVE Second(t) <= Second(u)
  BY <1>1, <1>3, DivMono DEF Second
<1>4. ASSUME NEW n \in Nat PROVE Second(NANO * n) = n
  <2>. DEFINE a == NANO * n
              q == Second(a)
  <2>1. a \in Nat  BY <1>1
  <2>2. q \in Nat /\ NANO * q <= a  BY <1>2, <2>1
  <2>3. n <= q  BY <1>1, <2>1, DivGreatest DEF Second
  <2>4. ASSUME n + 1 <= q PROVE FALSE
    <3>. HIDE DEF q
    <3>1. NANO * (n + 1) <= NANO * q  BY <1>1, <2>2, <2>4, ProductMono
    <3>2. NANO * (n + 1) = NANO * n + NANO  BY <1>1
    <3>. QED  BY <1>1, <2>1, <2>2, <3>1, <3>2
  <2>. HIDE DEF q
  <2>. QED  BY <2>2, <2>3, <2>4 DEF q
<1>. QED  BY <1>2, <1>3, <1>4

LEMMA InitRoom == Init => RoomInv
<1>. SUFFICES ASSUME Init PROVE RoomInv  OBVIOUS
<1>1. Typed  BY InitTyped
<1>2. /\ NANO <= MaxTime /\ SleepSecs \in Nat /\ NANO \in Nat
  BY <1>1, SetupType, NumbersAssumption DEF Typed
<1>3. now = NANO /\ daemon.pc = "sleep" /\ daemon.time = NANO /\ \A p \in CPUs : cpu[p].pc = "idle"
  BY DEF Init
<1>4. SleepSecs * NANO \in Nat  BY <1>2
<1>5. Clocked  BY <1>2, <1>3, <1>4 DEF Clocked, Base
<1>6. KeysDistinct /\ KeysRecent  BY DEF Init, KeysDistinct, KeysRecent
<1>. QED  BY <1>1, <1>5, <1>6 DEF RoomInv

(* A packet of which tnow is kept, or read now, is not behind the clock. *)
LEMMA PutClocked ==
    ASSUME Typed, Clocked, NEW p \in CPUs, Receive(p) \/ Handle(p)
    PROVE  \A q \in CPUs : cpu'[q].pc # "idle" => cpu'[q].tnow <= now /\ now <= cpu'[q].tnow + 1
<1>. DEFINE x == cpu[p]
<1>1. cpu \in [CPUs -> Packet] /\ now \in Nat  BY DEF Typed, TypeOK
<1>2. x.pc # "idle" => x.tnow <= now /\ now <= x.tnow + 1  BY DEF Clocked
<1>3. \E f : Put(p, f) /\ (f.tnow = now \/ (f.tnow = x.tnow /\ x.pc # "idle"))
  <2>1. CASE Receive(p)
    <3>. DEFINE f == [pc |-> "recv", tnow |-> now, pw |-> Lookup(Window(now) - NANO),
                      cw |-> Lookup(Window(now)), total |-> 0, old |-> 0]
    <3>1. Put(p, f) /\ f.tnow = now  BY <2>1, Puts
    <3>. QED  BY <3>1
  <2>2. CASE Handle(p)
    <3>1. x.pc # "idle"
      BY <2>2 DEF Handle, At, LoadRecv, StoreRecv, CreateWindow, LookupWindow, Check,
                  LoadCount, StoreCount, LoadDrop, StoreDrop
    <3>2. \E s, cw, total, old : Put(p, With(x, s, cw, total, old))
      BY <2>2, Puts, Zenon DEF Handle
    <3>3. PICK s, cw, total, old : Put(p, With(x, s, cw, total, old))  BY <3>2
    <3>4. With(x, s, cw, total, old).tnow = x.tnow  BY DEF With
    <3>. QED  BY <3>1, <3>3, <3>4
  <2>. QED  BY <2>1, <2>2
<1>4. PICK f : Put(p, f) /\ (f.tnow = now \/ (f.tnow = x.tnow /\ x.pc # "idle"))  BY <1>3
<1>5. f.tnow <= now /\ now <= f.tnow + 1  BY <1>1, <1>2, <1>4
<1>. TAKE q \in CPUs
<1>6. CASE q = p  BY <1>1, <1>4, <1>5, <1>6 DEF Put
<1>7. CASE q # p
  <2>1. cpu'[q] = cpu[q]  BY <1>1, <1>4, <1>7 DEF Put
  <2>. QED  BY <2>1 DEF Clocked
<1>. QED  BY <1>6, <1>7

LEMMA PacketRoom ==
    ASSUME RoomInv, NEW p \in CPUs, Receive(p) \/ Handle(p), setup' = setup
    PROVE  RoomInv'
<1>. DEFINE x == cpu[p]
            k == Window(x.tnow)
<1>1. Typed /\ Clocked /\ KeysDistinct /\ KeysRecent  BY DEF RoomInv
<1>2. Typed'  BY <1>1, StepTyped DEF Next
<1>3. now' = now /\ daemon' = daemon  BY <1>1, PacketStep
<1>4. MaxTime' = MaxTime /\ SleepSecs' = SleepSecs  BY DEF MaxTime, SleepSecs
<1>5. Base' = Base  BY <1>3, <1>4 DEF Base
<1>6. Clocked'  BY <1>1, <1>3, <1>4, <1>5, PutClocked DEF Clocked
<1>7. CASE key' = key  BY <1>1, <1>2, <1>3, <1>5, <1>6, <1>7 DEF RoomInv, KeysDistinct, KeysRecent
<1>8. CASE key' # key
  <2>1. CreateWindow(p)
    BY <1>8 DEF Receive, Handle, LoadRecv, StoreRecv, LookupWindow, Check,
                LoadCount, StoreCount, LoadDrop, StoreDrop, map
  <2>2. Lookup(k) = None /\ x.pc = "create" /\ \E e \in Elems : key' = [key EXCEPT ![e] = k]
    BY <1>8, <2>1 DEF CreateWindow, At, map
  <2>3. PICK e \in Elems : key' = [key EXCEPT ![e] = k]  BY <2>2
  <2>4. \A f \in Elems : key[f] # k  BY <2>2, LookupFacts
  <2>5. key \in [Elems -> Nat \cup {None}] /\ x \in Packet /\ x.tnow \in Nat /\ now \in Nat
        /\ daemon \in [pc : {"sleep", "scan"}, time : Nat]
    BY <1>1, PacketFields DEF Typed, TypeOK
  <2>6. x.tnow <= now /\ now <= x.tnow + 1  BY <1>1, <2>2 DEF Clocked
  <2>7. NANO \in Nat \ {0} /\ Base \in Int /\ NANO <= Base /\ Base <= now
    <3>1. SleepSecs \in Nat /\ NANO \in Nat \ {0}  BY <1>1, SetupType, NumbersAssumption DEF Typed
    <3>2. SleepSecs * NANO \in Nat /\ daemon.time \in Nat  BY <2>5, <3>1
    <3>3. Base \in Int  BY <3>2 DEF Base
    <3>. QED  BY <1>1, <3>1, <3>3 DEF Clocked
  <2>8. Base - 1 \in Nat /\ Base - 1 <= x.tnow  BY <2>5, <2>6, <2>7
  <2>9. /\ k = NANO * Second(k) /\ Second(k) \in Second(Base - 1) .. Second(now)
    <3>1. k = NANO * Second(x.tnow) /\ Second(x.tnow) \in Nat  BY <2>5, SecondFacts
    <3>2. Second(k) = Second(x.tnow)  BY <3>1, SecondFacts
    <3>3. Second(Base - 1) <= Second(x.tnow) /\ Second(x.tnow) <= Second(now)
      BY <2>5, <2>6, <2>8, SecondFacts
    <3>4. Second(Base - 1) \in Nat /\ Second(now) \in Nat  BY <2>5, <2>8, SecondFacts
    <3>. HIDE DEF k
    <3>. QED  BY <3>1, <3>2, <3>3, <3>4
  <2>. HIDE DEF k
  <2>10. KeysDistinct'
    <3>. SUFFICES ASSUME NEW f \in Elems, NEW g \in Elems, key'[f] # None, key'[f] = key'[g]
                  PROVE  f = g
      BY DEF KeysDistinct
    <3>. QED  BY <1>1, <2>3, <2>4, <2>5 DEF KeysDistinct
  <2>11. KeysRecent'
    <3>. SUFFICES ASSUME NEW f \in Elems, key'[f] # None
                  PROVE  /\ key'[f] = NANO * Second(key'[f])
                         /\ Second(key'[f]) \in Second(Base - 1) .. Second(now)
      BY <1>3, <1>5 DEF KeysRecent, Second
    <3>1. CASE f = e  BY <2>3, <2>5, <2>9, <3>1
    <3>2. CASE f # e
      <4>1. key'[f] = key[f]  BY <2>3, <2>5, <3>2
      <4>. QED  BY <1>1, <4>1 DEF KeysRecent
    <3>. QED  BY <3>1, <3>2
  <2>. QED  BY <1>2, <1>6, <2>10, <2>11 DEF RoomInv
<1>. QED  BY <1>7, <1>8

LEMMA WakeRoom ==
    ASSUME RoomInv, Wake, setup' = setup
    PROVE  RoomInv'
<1>1. Typed /\ Clocked /\ KeysDistinct /\ KeysRecent  BY DEF RoomInv
<1>2. Typed'  BY <1>1, StepTyped DEF Next
<1>3. /\ now' = now /\ key' = key /\ cpu' = cpu /\ daemon' = [pc |-> "scan", time |-> now]
      /\ daemon.pc = "sleep" /\ now >= daemon.time + SleepSecs * NANO
  BY DEF Wake, Due, map
<1>4. MaxTime' = MaxTime /\ SleepSecs' = SleepSecs  BY DEF MaxTime, SleepSecs
<1>5. now \in Nat /\ daemon.time \in Nat /\ SleepSecs * NANO \in Nat
  <2>1. SleepSecs \in Nat /\ NANO \in Nat  BY <1>1, SetupType, NumbersAssumption DEF Typed
  <2>2. now \in Nat /\ daemon.time \in Nat  BY <1>1 DEF Typed, TypeOK
  <2>. QED  BY <2>1, <2>2
<1>6. Base = daemon.time /\ now = daemon.time + SleepSecs * NANO
  BY <1>1, <1>3, <1>5 DEF Base, Clocked
<1>7. Base' = now - SleepSecs * NANO  BY <1>3, <1>4 DEF Base
<1>8. Base' = Base  BY <1>5, <1>6, <1>7
<1>9. Clocked'  BY <1>1, <1>3, <1>4, <1>8 DEF Clocked
<1>. QED  BY <1>1, <1>2, <1>3, <1>8, <1>9 DEF RoomInv, KeysDistinct, KeysRecent

(* A window that is not stale at the end of a scan is at most the one      *)
(* before: buffer_time is less than a second.                              *)
LEMMA SleepRoom ==
    ASSUME RoomInv, Sleep, setup' = setup
    PROVE  RoomInv'
<1>1. Typed /\ Clocked /\ KeysDistinct /\ KeysRecent  BY DEF RoomInv
<1>2. Typed'  BY <1>1, StepTyped DEF Next
<1>3. /\ now' = now /\ key' = key /\ cpu' = cpu /\ daemon' = [pc |-> "sleep", time |-> now]
      /\ daemon.pc = "scan" /\ \A e \in Elems : ~Stale(e)
  BY DEF Sleep, map
<1>4. MaxTime' = MaxTime /\ SleepSecs' = SleepSecs  BY DEF MaxTime, SleepSecs
<1>5. /\ now \in Nat /\ daemon.time = now /\ SleepSecs * NANO \in Nat /\ NANO \in Nat \ {0}
      /\ BufferTime \in 0 .. NANO - 1 /\ key \in [Elems -> Nat \cup {None}]
      /\ Base = now - SleepSecs * NANO
  <2>1. SleepSecs \in Nat /\ NANO \in Nat \ {0} /\ BufferTime \in 0 .. NANO - 1
    BY <1>1, SetupType, NumbersAssumption DEF Typed
  <2>2. now \in Nat /\ key \in [Elems -> Nat \cup {None}]  BY <1>1 DEF Typed, TypeOK
  <2>3. daemon.time = now  BY <1>1, <1>3 DEF Clocked
  <2>4. SleepSecs * NANO \in Nat  BY <2>1
  <2>. QED  BY <1>3, <2>1, <2>2, <2>3, <2>4 DEF Base
<1>6. Base' = now  BY <1>3 DEF Base
<1>7. NANO <= now /\ now <= now + SleepSecs * NANO  BY <1>1, <1>5 DEF Clocked
<1>8. Clocked'  BY <1>1, <1>3, <1>4, <1>6, <1>7, <1>5 DEF Clocked
<1>9. KeysRecent'
  <2>. SUFFICES ASSUME NEW e \in Elems, key[e] # None
                PROVE  /\ key[e] = NANO * Second(key[e])
                       /\ Second(key[e]) \in Second(now - 1) .. Second(now)
    BY <1>3, <1>6 DEF KeysRecent
  <2>. DEFINE n == Second(key[e])
              m == Second(now - 1)
  <2>1. key[e] = NANO * n /\ n <= Second(now) /\ n \in Nat /\ Second(now) \in Nat
        /\ now - 1 \in Nat /\ m \in Nat /\ NANO * m <= now - 1
    <3>1. key[e] \in Nat  BY <1>5
    <3>2. now - 1 \in Nat  BY <1>5, <1>7
    <3>3. key[e] = NANO * n  BY <1>1 DEF KeysRecent
    <3>4. n \in Nat /\ Second(now) \in Nat  BY <1>5, <3>1, SecondFacts
    <3>5. m \in Nat /\ NANO * m <= now - 1  BY <3>2, SecondFacts
    <3>6. n \in Second(Base - 1) .. Second(now)  BY <1>1 DEF KeysRecent
    <3>7. n <= Second(now)  BY <3>6
    <3>. QED  BY <3>2, <3>3, <3>4, <3>5, <3>7
  <2>2. key[e] \in Nat /\ key[e] > now - NANO
    <3>1. key[e] \in Nat  BY <1>5
    <3>2. ~(key[e] < now - BufferTime)  BY <1>3, <1>5 DEF Stale
    <3>. QED  BY <1>5, <3>1, <3>2
  <2>. HIDE DEF n, m
  <2>3. m <= n
    <3>1. SUFFICES ASSUME n + 1 <= m PROVE FALSE  BY <2>1
    <3>2. NANO * (n + 1) <= NANO * m  BY <1>5, <2>1, <3>1, ProductMono
    <3>3. NANO * (n + 1) = NANO * n + NANO  BY <1>5, <2>1
    <3>. QED  BY <1>5, <2>1, <2>2, <3>2, <3>3
  <2>. QED  BY <2>1, <2>3 DEF n, m
<1>. QED  BY <1>1, <1>2, <1>3, <1>8, <1>9 DEF RoomInv, KeysDistinct

LEMMA DeleteRoom ==
    ASSUME RoomInv, NEW e \in Elems, DeleteStale(e), setup' = setup
    PROVE  RoomInv'
<1>1. Typed /\ Clocked /\ KeysDistinct /\ KeysRecent  BY DEF RoomInv
<1>2. Typed'  BY <1>1, StepTyped DEF Next
<1>3. now' = now /\ key' = [key EXCEPT ![e] = None] /\ cpu' = cpu /\ daemon' = daemon
  BY DEF DeleteStale
<1>4. MaxTime' = MaxTime /\ SleepSecs' = SleepSecs  BY DEF MaxTime, SleepSecs
<1>5. Base' = Base  BY <1>3, <1>4 DEF Base
<1>6. Clocked'  BY <1>1, <1>3, <1>4, <1>5 DEF Clocked
<1>7. key \in [Elems -> Nat \cup {None}]  BY <1>1 DEF Typed, TypeOK
<1>8. \A f \in Elems : key'[f] = IF f = e THEN None ELSE key[f]  BY <1>3, <1>7
<1>9. KeysDistinct'  BY <1>1, <1>8 DEF KeysDistinct
<1>10. KeysRecent'  BY <1>1, <1>3, <1>5, <1>8 DEF KeysRecent
<1>. QED  BY <1>2, <1>6, <1>9, <1>10 DEF RoomInv

LEMMA TickRoom ==
    ASSUME RoomInv, Tick, setup' = setup
    PROVE  RoomInv'
<1>1. Typed /\ Clocked /\ KeysDistinct /\ KeysRecent  BY DEF RoomInv
<1>2. Typed'  BY <1>1, StepTyped DEF Next
<1>3. /\ now' = now + 1 /\ key' = key /\ cpu' = cpu /\ daemon' = daemon
      /\ now < MaxTime /\ daemon.pc = "sleep" /\ ~(now >= daemon.time + SleepSecs * NANO)
      /\ \A p \in CPUs : cpu[p].pc # "idle" => cpu[p].tnow = now
  BY DEF Tick, Due, At, map
<1>4. MaxTime' = MaxTime /\ SleepSecs' = SleepSecs  BY DEF MaxTime, SleepSecs
<1>5. now \in Nat /\ daemon.time \in Nat /\ SleepSecs * NANO \in Nat /\ MaxTime \in Nat
      /\ NANO \in Nat
  <2>1. SleepSecs \in Nat /\ NANO \in Nat /\ MaxTime \in Nat
    BY <1>1, SetupType, NumbersAssumption DEF Typed
  <2>2. now \in Nat /\ daemon.time \in Nat  BY <1>1 DEF Typed, TypeOK
  <2>. QED  BY <2>1, <2>2
<1>6. Base = daemon.time /\ Base' = Base  BY <1>3, <1>4 DEF Base
<1>7. NANO <= Base /\ Base <= now + 1 /\ now + 1 <= Base + SleepSecs * NANO /\ now + 1 <= MaxTime
  BY <1>1, <1>3, <1>5, <1>6 DEF Clocked
<1>8. \A p \in CPUs : cpu[p].pc # "idle" => cpu[p].tnow <= now + 1 /\ now + 1 <= cpu[p].tnow + 1
  BY <1>3, <1>5
<1>9. Clocked'  BY <1>3, <1>4, <1>6, <1>7, <1>8 DEF Clocked
<1>10. KeysRecent'
  <2>1. Second(now) \in Nat /\ Second(now + 1) \in Nat /\ Second(now) <= Second(now + 1)
        /\ Second(Base - 1) \in Int
    <3>1. Base - 1 \in Int /\ now + 1 \in Nat /\ NANO \in Nat \ {0}
      BY <1>5, <1>6, NumbersAssumption
    <3>2. Second(Base - 1) \in Int  BY <3>1, DivFacts DEF Second
    <3>3. now <= now + 1  BY <1>5
    <3>4. Second(now) <= Second(now + 1)  BY <1>5, <3>1, <3>3, SecondFacts
    <3>5. Second(now) \in Nat  BY <1>5, SecondFacts
    <3>6. Second(now + 1) \in Nat  BY <3>1, SecondFacts
    <3>. QED  BY <3>2, <3>4, <3>5, <3>6
  <2>. SUFFICES ASSUME NEW e \in Elems, key[e] # None
                PROVE  /\ key[e] = NANO * Second(key[e])
                       /\ Second(key[e]) \in Second(Base - 1) .. Second(now + 1)
    BY <1>3, <1>6 DEF KeysRecent
  <2>. QED  BY <1>1, <2>1 DEF KeysRecent
<1>. QED  BY <1>1, <1>2, <1>3, <1>9, <1>10 DEF RoomInv, KeysDistinct

LEMMA RoomNext == RoomInv /\ [Next]_vars => RoomInv'
<1>. SUFFICES ASSUME RoomInv, [Next]_vars PROVE RoomInv'  OBVIOUS
<1>1. setup' = setup  BY DEF Next, vars
<1>2. ASSUME NEW p \in CPUs, Receive(p) \/ Handle(p) PROVE RoomInv'  BY <1>1, <1>2, PacketRoom
<1>3. CASE Wake  BY <1>1, <1>3, WakeRoom
<1>4. CASE Sleep  BY <1>1, <1>4, SleepRoom
<1>5. ASSUME NEW e \in Elems, DeleteStale(e) PROVE RoomInv'  BY <1>1, <1>5, DeleteRoom
<1>6. CASE Tick  BY <1>1, <1>6, TickRoom
<1>7. CASE UNCHANGED vars
  <2>1. now' = now /\ key' = key /\ cpu' = cpu /\ daemon' = daemon  BY <1>7 DEF vars
  <2>2. MaxTime' = MaxTime /\ SleepSecs' = SleepSecs  BY <1>1 DEF MaxTime, SleepSecs
  <2>3. Base' = Base  BY <2>1, <2>2 DEF Base
  <2>4. Typed'  BY <1>7, StepTyped DEF RoomInv
  <2>. QED  BY <2>1, <2>2, <2>3, <2>4 DEF RoomInv, Clocked, KeysDistinct, KeysRecent
<1>. QED  BY <1>2, <1>3, <1>4, <1>5, <1>6, <1>7 DEF Next

LEMMA RoomInductive == Spec => []RoomInv
BY InitRoom, RoomNext, PTL DEF Spec
(* Between the second before Base and the present one there are no more    *)
(* than the seconds of one sleep and two more.                             *)
LEMMA SecondsApart ==
    ASSUME Typed, Clocked
    PROVE  /\ Second(Base - 1) \in Nat /\ Second(now) \in Nat /\ Base \in Int /\ Base - 1 \in Nat
           /\ Second(now) <= Second(Base - 1) + SleepSecs + 1
<1>. DEFINE a == Second(Base - 1)
            b == Second(now)
            S == SleepSecs
<1>1. S \in Nat /\ NANO \in Nat \ {0} /\ now \in Nat /\ daemon.time \in Nat
  BY SetupType, NumbersAssumption DEF Typed, TypeOK
<1>2. S * NANO \in Nat /\ S * NANO = NANO * S
  <2>. HIDE DEF S
  <2>. QED  BY <1>1
<1>3. Base \in Int /\ NANO <= Base /\ now <= Base + NANO * S
  <2>1. Base \in Int  BY <1>1, <1>2 DEF Base
  <2>. QED  BY <1>2, <2>1 DEF Clocked
<1>4. Base - 1 \in Nat  BY <1>1, <1>3
<1>5. a \in Nat /\ Base - 1 < NANO * a + NANO  BY <1>4, SecondFacts
<1>6. b \in Nat /\ NANO * b <= now  BY <1>1, SecondFacts
<1>. HIDE DEF a, b, S
<1>7. ASSUME a + S + 2 <= b PROVE FALSE
  <2>1. a + S + 2 \in Int  BY <1>1, <1>5
  <2>2. NANO * (a + S + 2) <= NANO * b  BY <1>1, <1>6, <1>7, <2>1, ProductMono
  <2>3. NANO * (a + S + 2) = NANO * a + NANO * S + NANO + NANO  BY <1>1, <1>5
  <2>4. NANO * a \in Nat /\ NANO * S \in Nat /\ NANO * b \in Nat  BY <1>1, <1>5, <1>6
  <2>. QED  BY <1>1, <1>3, <1>5, <1>6, <2>2, <2>3, <2>4
<1>8. b <= a + S + 1  BY <1>1, <1>5, <1>6, <1>7
<1>. QED  BY <1>3, <1>4, <1>5, <1>6, <1>8 DEF a, b, S

LEMMA RoomEnough == RoomInv => MapHasRoom
<1>. SUFFICES ASSUME RoomInv, SleepSecs + 2 <= Cardinality(Elems), NEW p \in CPUs, At(p, "create"),
                     \A e \in Elems : key[e] \notin {None, Window(cpu[p].tnow)}
              PROVE  FALSE
  BY DEF MapHasRoom
<1>. DEFINE a == Second(Base - 1)
            b == Second(now)
            c == Second(cpu[p].tnow)
            T == (a .. b) \ {c}
            f == [e \in Elems |-> Second(key[e])]
<1>1. Typed /\ Clocked /\ KeysDistinct /\ KeysRecent  BY DEF RoomInv
<1>2. cpu[p].tnow \in Nat /\ now \in Nat /\ key \in [Elems -> Nat \cup {None}]
      /\ SleepSecs \in Nat
  BY <1>1, PacketFields, SetupType DEF Typed, TypeOK
<1>3. cpu[p].tnow <= now /\ now <= cpu[p].tnow + 1  BY <1>1 DEF Clocked, At
<1>4. a \in Nat /\ b \in Nat /\ Base \in Int /\ Base - 1 \in Nat /\ b <= a + SleepSecs + 1
  BY <1>1, SecondsApart
<1>5. c \in Nat /\ a <= c /\ c <= b
  <2>1. Base <= now  BY <1>1 DEF Clocked
  <2>2. Base - 1 <= cpu[p].tnow  BY <1>2, <1>3, <1>4, <2>1
  <2>. QED  BY <1>2, <1>3, <1>4, <2>2, SecondFacts
<1>6. IsFiniteSet(T) /\ Cardinality(T) = b - a
  <2>. HIDE DEF a, b, c
  <2>1. IsFiniteSet(a .. b) /\ Cardinality(a .. b) = b - a + 1  BY <1>4, <1>5, FS_Interval
  <2>2. c \in a .. b  BY <1>4, <1>5
  <2>3. IsFiniteSet((a .. b) \ {c}) /\ Cardinality((a .. b) \ {c}) = Cardinality(a .. b) - 1
    BY <2>1, <2>2, FS_RemoveElement
  <2>. QED  BY <1>4, <2>1, <2>3
<1>7. IsFiniteSet(Elems) /\ Cardinality(Elems) \in Nat  BY SetsAssumption, FS_CardinalityType
<1>8. Cardinality(T) < Cardinality(Elems)
  <2>. HIDE DEF a, b, T
  <2>. QED  BY <1>2, <1>4, <1>6, <1>7
<1>9. f \in [Elems -> T]
  <2>1. ASSUME NEW e \in Elems PROVE Second(key[e]) \in T
    <3>1. key[e] = NANO * Second(key[e]) /\ Second(key[e]) \in a .. b  BY <1>1 DEF KeysRecent
    <3>2. Window(cpu[p].tnow) = NANO * c  BY <1>2, SecondFacts
    <3>3. Second(key[e]) # c  BY <3>1, <3>2
    <3>. QED  BY <3>1, <3>3
  <2>. HIDE DEF T
  <2>. QED  BY <2>1
<1>10. PICK d, e \in Elems : d # e /\ f[d] = f[e]
  <2>. HIDE DEF f, T
  <2>. QED  BY <1>6, <1>7, <1>8, <1>9, FS_PigeonHole
<1>11. key[d] = key[e]
  <2>1. Second(key[d]) = Second(key[e])  BY <1>10
  <2>2. key[d] = NANO * Second(key[d]) /\ key[e] = NANO * Second(key[e])  BY <1>1 DEF KeysRecent
  <2>. QED  BY <2>1, <2>2
<1>. QED  BY <1>1, <1>10, <1>11 DEF KeysDistinct

(* No interleaving of any number of CPUs with the daemon, on any clock,    *)
(* fills a map with two elements more than the daemon's sleep has seconds, *)
(* so that bpf_map_update_elem never fails for want of one.                *)
THEOREM MapNeverFull == Spec => []MapHasRoom
<1>. QED  BY RoomInductive, RoomEnough, PTL

-----------------------------------------------------------------------------
(* What is accepted until the daemon wakes: on one CPU and on two whose    *)
(* increments overwrite each other, for every rate.                        *)

(* Until the daemon wakes a packet's element stays that of its window, and *)
(* what is accepted of a window is counted in an element.                  *)
CwRight ==
    \A p \in CPUs : cpu[p].pc # "idle" /\ cpu[p].cw # None =>
        key[cpu[p].cw] = Window(cpu[p].tnow)
Counted == \A t \in 0 .. MaxTime : accepted[t] # 0 => \E e \in Elems : key[e] = t

(* On one CPU the count is what was accepted, and does not change between  *)
(* the comparison and the store.                                           *)
OneCounts(p) ==
    /\ \A e \in Elems : key[e] # None => count[e] = accepted[key[e]] /\ count[e] <= Quota
    /\ cpu[p].pc \in {"inc", "inc store"} => count[cpu[p].cw] < Quota
    /\ cpu[p].pc = "inc store" => cpu[p].old = count[cpu[p].cw]
OneAccounts(p) ==
    /\ cpu[p].pc \in {"recv", "recv store"} => syns = recv + 1
    /\ cpu[p].pc \notin {"recv", "recv store"} => syns = recv
    /\ cpu[p].pc \in {"idle", "recv", "recv store"} => recv = passed + drop
    /\ cpu[p].pc \notin {"idle", "recv", "recv store"} => recv = passed + drop + 1
    /\ cpu[p].pc = "recv store" => cpu[p].old = recv
    /\ cpu[p].pc = "drop store" => cpu[p].old = drop
OneInv == \A p \in CPUs : setup.cpus = {p} => OneCounts(p) /\ OneAccounts(p)

(* On two, each CPU stands at the count from which it will go on: the one  *)
(* it loaded, or else the one in the map.  Potential is twice the number   *)
(* of connections that can still be accepted from where the two stand.     *)
Least(a, b) == IF a <= b THEN a ELSE b
Potential(Q, x, y) ==
    IF x <= y THEN (Q - x) * (Q - x + 3) - 2 * (y - x)
    ELSE (Q - y) * (Q - y + 3) - 2 * (x - y)
Stand(p, e) ==
    IF cpu[p].pc = "inc store" /\ cpu[p].cw = e THEN Least(cpu[p].old, Quota - 1)
    ELSE IF cpu[p].pc = "inc" /\ cpu[p].cw = e THEN Least(count[e], Quota - 1)
    ELSE Least(count[e], Quota)
TwoInv ==
    \A p, q \in CPUs : p # q /\ setup.cpus = {p, q} =>
        \A e \in Elems : key[e] # None =>
            2 * accepted[key[e]] + Potential(Quota, Stand(p, e), Stand(q, e)) <= Quota * (Quota + 3)
RateInv == RoomInv /\ (Undisturbed => CwRight /\ Counted /\ OneInv /\ TwoInv)

-----------------------------------------------------------------------------
(* What the packets' steps do to the map. *)
LEMMA QuotaFacts ==
    ASSUME Typed
    PROVE  Quota \in Nat \ {0} /\ Rate \in Nat /\ Rate <= Quota
BY SetupType DEF Typed, Quota

(* A SYN that is not dropped found a count below the quota. *)
LEMMA NotExceeded ==
    ASSUME Typed, NEW p \in CPUs, cpu[p].cw \in Elems, ~Exceeded(p)
    PROVE  count[cpu[p].cw] < Quota
<1>. DEFINE n == count[cpu[p].cw]
<1>1. n \in Nat /\ Rate \in Nat /\ MULTIPLIER \in Nat \ {0, 1}
  BY SetupType, NumbersAssumption DEF Typed, TypeOK
<1>2. Total(p) \in Nat /\ n * MULTIPLIER <= Total(p)  BY TotalFacts
<1>3. CASE cpu[p].pw = None
  <2>1. ~(n >= Rate)  BY <1>3 DEF Exceeded
  <2>. HIDE DEF n
  <2>. QED  BY <1>1, <2>1 DEF Quota, n
<1>4. CASE cpu[p].pw # None
  <2>1. ~(Total(p) > Rate)  BY <1>4 DEF Exceeded
  <2>. HIDE DEF n
  <2>2. n * MULTIPLIER <= Rate  BY <1>1, <1>2, <2>1
  <2>3. n * 2 <= n * MULTIPLIER  BY <1>1, ProductMono
  <2>4. n * 2 <= Rate  BY <1>1, <2>2, <2>3
  <2>. QED  BY <1>1, <2>4 DEF Quota, n
<1>. QED  BY <1>3, <1>4

(* p's packet after each step. *)
LEMMA PacketAfter ==
    ASSUME Typed, NEW p \in CPUs, NEW f, Put(p, f)
    PROVE  cpu'[p] = f /\ \A q \in CPUs \ {p} : cpu'[q] = cpu[q]
BY DEF Put, Typed, TypeOK

(* Until the daemon wakes no element is freed. *)
LEMMA KeysKept ==
    ASSUME Typed, NEW p \in CPUs, Receive(p) \/ Handle(p)
    PROVE  \A e \in Elems : key[e] # None => key'[e] = key[e]
<1>1. key \in [Elems -> Nat \cup {None}]  BY DEF Typed, TypeOK
<1>2. CASE key' = key  BY <1>2
<1>3. CASE key' # key
  <2>1. CreateWindow(p)
    BY <1>3 DEF Receive, Handle, LoadRecv, StoreRecv, LookupWindow, Check,
                LoadCount, StoreCount, LoadDrop, StoreDrop, map
  <2>2. \E e \in {d \in Elems : key[d] = None} : key' = [key EXCEPT ![e] = Window(cpu[p].tnow)]
    BY <1>3, <2>1 DEF CreateWindow, map
  <2>. QED  BY <1>1, <2>2
<1>. QED  BY <1>2, <1>3

(* The steps that neither compare nor count. *)
Neutral(p) ==
    Receive(p) \/ LoadRecv(p) \/ StoreRecv(p) \/ LookupWindow(p) \/ LoadDrop(p) \/ StoreDrop(p)
Holding == {"inc", "inc store"}

LEMMA NeutralSteps ==
    ASSUME Typed, NEW p \in CPUs, Neutral(p)
    PROVE  /\ key' = key /\ count' = count /\ accepted' = accepted
           /\ cpu[p].pc \notin Holding /\ cpu'[p].pc \notin Holding
           /\ \A q \in CPUs \ {p} : cpu'[q] = cpu[q]
<1>. DEFINE x == cpu[p]
<1>1. key' = key /\ count' = count /\ accepted' = accepted
  BY DEF Neutral, Receive, LoadRecv, StoreRecv, LookupWindow, LoadDrop, StoreDrop, map, seen
<1>2. cpu[p].pc \notin Holding
  BY DEF Neutral, Receive, LoadRecv, StoreRecv, LookupWindow, LoadDrop, StoreDrop, At, Holding
<1>3. \E f : Put(p, f) /\ f.pc \notin Holding
  <2>1. CASE Receive(p)
    <3>. DEFINE f == [pc |-> "recv", tnow |-> now, pw |-> Lookup(Window(now) - NANO),
                      cw |-> Lookup(Window(now)), total |-> 0, old |-> 0]
    <3>1. Put(p, f) /\ f.pc \notin Holding  BY <2>1, Puts DEF Holding
    <3>. QED  BY <3>1
  <2>2. CASE LoadRecv(p)
    <3>. DEFINE f == With(x, "recv store", x.cw, x.total, recv)
    <3>1. Put(p, f) /\ f.pc \notin Holding  BY <2>2, Puts DEF Holding, With
    <3>. QED  BY <3>1
  <2>3. CASE StoreRecv(p)
    <3>. DEFINE f == With(x, IF x.cw = None THEN "create" ELSE "check", x.cw, x.total, x.old)
    <3>1. Put(p, f)  BY <2>3, Puts
    <3>2. f.pc \notin Holding  BY DEF Holding, With
    <3>. QED  BY <3>1, <3>2
  <2>4. CASE LookupWindow(p)
    <3>. DEFINE e == Lookup(Window(x.tnow))
                f == With(x, IF e = None THEN "idle" ELSE "check", e, x.total, x.old)
    <3>1. Put(p, f)  BY <2>4, Puts
    <3>2. f.pc \notin Holding  BY DEF Holding, With
    <3>. QED  BY <3>1, <3>2
  <2>5. CASE LoadDrop(p)
    <3>. DEFINE f == With(x, "drop store", x.cw, x.total, drop)
    <3>1. Put(p, f) /\ f.pc \notin Holding  BY <2>5, Puts DEF Holding, With
    <3>. QED  BY <3>1
  <2>6. CASE StoreDrop(p)
    <3>. DEFINE f == With(x, "idle", x.cw, x.total, x.old)
    <3>1. Put(p, f) /\ f.pc \notin Holding  BY <2>6, Puts DEF Holding, With
    <3>. QED  BY <3>1
  <2>. QED  BY <2>1, <2>2, <2>3, <2>4, <2>5, <2>6 DEF Neutral
<1>4. PICK f : Put(p, f) /\ f.pc \notin Holding  BY <1>3
<1>5. cpu'[p] = f /\ \A q \in CPUs \ {p} : cpu'[q] = cpu[q]  BY <1>4, PacketAfter
<1>. QED  BY <1>1, <1>2, <1>4, <1>5

(* The window that a packet adds had no element, and nothing accepted. *)
LEMMA CreateSteps ==
    ASSUME RoomInv, Counted, NEW p \in CPUs, CreateWindow(p)
    PROVE  LET k == Window(cpu[p].tnow) IN
           /\ accepted' = accepted /\ cpu[p].pc = "create"
           /\ cpu'[p] = With(cpu[p], "lookup", cpu[p].cw, cpu[p].total, cpu[p].old)
           /\ \A q \in CPUs \ {p} : cpu'[q] = cpu[q]
           /\ \/ key' = key /\ count' = count
              \/ \E e \in Elems :
                    /\ key[e] = None /\ key'[e] = k /\ count'[e] = 0 /\ accepted[k] = 0
                    /\ \A d \in Elems \ {e} : key'[d] = key[d] /\ count'[d] = count[d]
<1>. DEFINE x == cpu[p]
            k == Window(x.tnow)
<1>1. Typed /\ Clocked  BY DEF RoomInv
<1>2. /\ key \in [Elems -> Nat \cup {None}] /\ count \in [Elems -> Nat] /\ x.tnow \in Nat
      /\ now \in Nat /\ MaxTime \in Nat
  BY <1>1, PacketFields, SetupType DEF Typed, TypeOK
<1>3. accepted' = accepted /\ x.pc = "create"  BY DEF CreateWindow, At
<1>4. Put(p, With(x, "lookup", x.cw, x.total, x.old))  BY <1>1, Puts
<1>5. /\ cpu'[p] = With(x, "lookup", x.cw, x.total, x.old)
      /\ \A q \in CPUs \ {p} : cpu'[q] = cpu[q]
  BY <1>1, <1>4, PacketAfter
<1>6. \/ key' = key /\ count' = count
      \/ /\ Lookup(k) = None
         /\ \E e \in {d \in Elems : key[d] = None} :
               key' = [key EXCEPT ![e] = k] /\ count' = [count EXCEPT ![e] = 0]
  BY DEF CreateWindow, map
<1>7. ASSUME Lookup(k) = None PROVE accepted[k] = 0
  <2>1. \A e \in Elems : key[e] # k  BY <1>7, LookupFacts
  <2>2. k \in Nat /\ k <= x.tnow  BY <1>2, WindowFacts
  <2>3. x.tnow <= now /\ now <= MaxTime  BY <1>1, <1>3 DEF Clocked
  <2>. HIDE DEF k, x
  <2>4. k \in 0 .. MaxTime  BY <1>2, <2>2, <2>3
  <2>. QED  BY <2>1, <2>4 DEF Counted
<1>. HIDE DEF k
<1>8. ASSUME NEW e \in {d \in Elems : key[d] = None},
             key' = [key EXCEPT ![e] = k], count' = [count EXCEPT ![e] = 0]
      PROVE  /\ key[e] = None /\ key'[e] = k /\ count'[e] = 0
             /\ \A d \in Elems \ {e} : key'[d] = key[d] /\ count'[d] = count[d]
  BY <1>2, <1>8
<1>9. \/ key' = key /\ count' = count
      \/ \E e \in Elems :
            /\ key[e] = None /\ key'[e] = k /\ count'[e] = 0 /\ accepted[k] = 0
            /\ \A d \in Elems \ {e} : key'[d] = key[d] /\ count'[d] = count[d]
  BY <1>6, <1>7, <1>8
<1>. QED  BY <1>3, <1>5, <1>9 DEF k

LEMMA CheckSteps ==
    ASSUME Typed, NEW p \in CPUs, Check(p)
    PROVE  LET x == cpu[p] IN
           /\ key' = key /\ count' = count /\ accepted' = accepted
           /\ x.pc = "check" /\ x.cw \in Elems /\ cpu'[p].cw = x.cw
           /\ \/ cpu'[p].pc = "drop"
              \/ cpu'[p].pc = "inc" /\ count[x.cw] < Quota
           /\ \A q \in CPUs \ {p} : cpu'[q] = cpu[q]
<1>. DEFINE x == cpu[p]
            f == With(x, IF Exceeded(p) THEN "drop" ELSE "inc", x.cw, Total(p), x.old)
<1>1. key' = key /\ count' = count /\ accepted' = accepted /\ x.pc = "check"
  BY DEF Check, At, map, seen
<1>2. x.cw \in Elems  BY <1>1 DEF Typed, Counting
<1>3. Put(p, f)  BY Puts
<1>4. cpu'[p] = f /\ \A q \in CPUs \ {p} : cpu'[q] = cpu[q]  BY <1>3, PacketAfter
<1>5. f.cw = x.cw /\ (f.pc = "drop" \/ (f.pc = "inc" /\ ~Exceeded(p)))  BY DEF With
<1>6. ~Exceeded(p) => count[x.cw] < Quota  BY <1>2, NotExceeded
<1>. HIDE DEF f
<1>. QED  BY <1>1, <1>2, <1>4, <1>5, <1>6

LEMMA LoadSteps ==
    ASSUME Typed, NEW p \in CPUs, LoadCount(p)
    PROVE  LET x == cpu[p] IN
           /\ key' = key /\ count' = count /\ accepted' = accepted
           /\ x.pc = "inc" /\ x.cw \in Elems
           /\ cpu'[p].cw = x.cw /\ cpu'[p].pc = "inc store" /\ cpu'[p].old = count[x.cw]
           /\ \A q \in CPUs \ {p} : cpu'[q] = cpu[q]
<1>. DEFINE x == cpu[p]
            f == With(x, "inc store", x.cw, x.total, count[x.cw])
<1>1. key' = key /\ count' = count /\ accepted' = accepted /\ x.pc = "inc"
  BY DEF LoadCount, At, map, seen
<1>2. x.cw \in Elems  BY <1>1 DEF Typed, Counting
<1>3. Put(p, f)  BY Puts
<1>4. cpu'[p] = f /\ \A q \in CPUs \ {p} : cpu'[q] = cpu[q]  BY <1>3, PacketAfter
<1>5. f.cw = x.cw /\ f.pc = "inc store" /\ f.old = count[x.cw]  BY DEF With
<1>. HIDE DEF f
<1>. QED  BY <1>1, <1>2, <1>4, <1>5

(* A store counts in the element of the packet's window, and in no other. *)
LEMMA StoreSteps ==
    ASSUME RoomInv, CwRight, NEW p \in CPUs, StoreCount(p)
    PROVE  LET x == cpu[p]
               w == key[x.cw]
           IN
           /\ key' = key /\ x.pc = "inc store" /\ x.cw \in Elems /\ x.old \in Nat
           /\ cpu'[p].pc = "idle" /\ \A q \in CPUs \ {p} : cpu'[q] = cpu[q]
           /\ w = Window(x.tnow) /\ w \in 0 .. MaxTime
           /\ accepted'[w] = accepted[w] + 1 /\ \A t \in 0 .. MaxTime : t # w => accepted'[t] = accepted[t]
           /\ count'[x.cw] = x.old + 1 /\ \A e \in Elems : e # x.cw => count'[e] = count[e]
<1>. DEFINE x == cpu[p]
            w == Window(x.tnow)
<1>1. Typed /\ Clocked  BY DEF RoomInv
<1>2. /\ key \in [Elems -> Nat \cup {None}] /\ count \in [Elems -> Nat] /\ x.tnow \in Nat
      /\ now \in Nat /\ MaxTime \in Nat /\ accepted \in [0 .. MaxTime -> Nat] /\ x.old \in Nat
  BY <1>1, PacketFields, SetupType DEF Typed, TypeOK
<1>3. /\ key' = key /\ x.pc = "inc store" /\ count' = [count EXCEPT ![x.cw] = x.old + 1]
      /\ accepted' = [accepted EXCEPT ![w] = @ + 1]
  BY DEF StoreCount, At
<1>4. x.cw \in Elems  BY <1>1, <1>3 DEF Typed, Counting
<1>5. key[x.cw] = w
  <2>1. x.cw # None  BY <1>4, NoneAssumption
  <2>. QED  BY <1>3, <2>1 DEF CwRight
<1>6. w \in 0 .. MaxTime
  <2>1. w \in Nat /\ w <= x.tnow  BY <1>2, WindowFacts
  <2>2. x.tnow <= now /\ now <= MaxTime  BY <1>1, <1>3 DEF Clocked
  <2>. HIDE DEF w, x
  <2>. QED  BY <1>2, <2>1, <2>2
<1>7. Put(p, With(x, "idle", x.cw, x.total, x.old))  BY <1>1, Puts
<1>8. cpu'[p].pc = "idle" /\ \A q \in CPUs \ {p} : cpu'[q] = cpu[q]
  BY <1>1, <1>7, PacketAfter DEF With
<1>. HIDE DEF w
<1>9. accepted'[w] = accepted[w] + 1 /\ \A t \in 0 .. MaxTime : t # w => accepted'[t] = accepted[t]
  BY <1>2, <1>3, <1>6
<1>10. count'[x.cw] = x.old + 1 /\ \A e \in Elems : e # x.cw => count'[e] = count[e]
  BY <1>2, <1>3, <1>4
<1>. QED  BY <1>2, <1>3, <1>4, <1>5, <1>6, <1>8, <1>9, <1>10 DEF w

(* A window in the map is one that the clock has reached. *)
LEMMA KeysInTime ==
    ASSUME Typed, Clocked, KeysRecent, NEW e \in Elems, key[e] # None
    PROVE  key[e] \in 0 .. MaxTime
<1>1. key[e] \in Nat /\ now \in Nat /\ MaxTime \in Nat /\ NANO \in Nat
  BY SetupType, NumbersAssumption DEF Typed, TypeOK
<1>2. key[e] = NANO * Second(key[e]) /\ Second(key[e]) \in Second(Base - 1) .. Second(now)
  BY DEF KeysRecent
<1>3. Second(now) \in Nat /\ NANO * Second(now) <= now /\ Second(key[e]) \in Nat
  BY <1>1, SecondFacts
<1>. DEFINE a == Second(key[e])
            b == Second(now)
<1>4. a <= b /\ a \in Nat /\ b \in Nat  BY <1>2, <1>3
<1>. HIDE DEF a, b
<1>5. NANO * a <= NANO * b  BY <1>1, <1>4, ProductMono
<1>6. NANO * a \in Nat /\ NANO * b \in Nat  BY <1>1, <1>4
<1>7. now <= MaxTime  BY DEF Clocked
<1>8. key[e] = NANO * a /\ NANO * b <= now  BY <1>2, <1>3 DEF a, b
<1>. QED  BY <1>1, <1>5, <1>6, <1>7, <1>8

(* The five kinds of steps of a packet. *)
LEMMA StepKinds ==
    ASSUME NEW p \in CPUs, Receive(p) \/ Handle(p)
    PROVE  Neutral(p) \/ CreateWindow(p) \/ Check(p) \/ LoadCount(p) \/ StoreCount(p)
BY DEF Handle, Neutral

-----------------------------------------------------------------------------
LEMMA CwRightStep ==
    ASSUME RoomInv, CwRight, NEW p \in CPUs, Receive(p) \/ Handle(p)
    PROVE  CwRight'
<1>. DEFINE x == cpu[p]
<1>1. Typed  BY DEF RoomInv
<1>2. \A e \in Elems : key[e] # None => key'[e] = key[e]  BY <1>1, KeysKept
<1>3. cpu \in [CPUs -> Packet] /\ key \in [Elems -> Nat \cup {None}] /\ now \in Nat
  BY <1>1 DEF Typed, TypeOK
<1>4. ASSUME NEW q \in CPUs, cpu[q].pc # "idle", cpu[q].cw # None
      PROVE  key'[cpu[q].cw] = Window(cpu[q].tnow)
  <2>1. cpu[q].cw \in Elems /\ cpu[q].tnow \in Nat  BY <1>3, <1>4, PacketFields
  <2>2. key[cpu[q].cw] = Window(cpu[q].tnow)  BY <1>4 DEF CwRight
  <2>3. Window(cpu[q].tnow) # None  BY <2>1, WindowFacts, NoneAssumption
  <2>. QED  BY <1>2, <2>1, <2>2, <2>3
<1>6. \E f : /\ Put(p, f)
             /\ f.pc # "idle" /\ f.cw # None => key'[f.cw] = Window(f.tnow)
  <2>1. CASE Receive(p)
    <3>. DEFINE f == [pc |-> "recv", tnow |-> now, pw |-> Lookup(Window(now) - NANO),
                      cw |-> Lookup(Window(now)), total |-> 0, old |-> 0]
    <3>1. Put(p, f) /\ f.cw = Lookup(Window(now)) /\ f.tnow = now  BY <1>1, <2>1, Puts
    <3>2. key' = key  BY <2>1 DEF Receive, map
    <3>. HIDE DEF f
    <3>3. f.cw # None => key'[f.cw] = Window(f.tnow)  BY <3>1, <3>2, LookupFacts
    <3>. QED  BY <3>1, <3>3
  <2>2. CASE LookupWindow(p)
    <3>. DEFINE e == Lookup(Window(x.tnow))
                f == With(x, IF e = None THEN "idle" ELSE "check", e, x.total, x.old)
    <3>1. Put(p, f)  BY <1>1, <2>2, Puts
    <3>2. f.cw = e /\ f.tnow = x.tnow  BY DEF With
    <3>3. key' = key  BY <2>2 DEF LookupWindow, map
    <3>4. e # None => key[e] = Window(x.tnow)  BY LookupFacts
    <3>. HIDE DEF e, f
    <3>. QED  BY <3>1, <3>2, <3>3, <3>4
  <2>3. CASE Handle(p) /\ ~LookupWindow(p)
    <3>1. x.pc # "idle"
      BY <2>3 DEF Handle, At, LoadRecv, StoreRecv, CreateWindow, LookupWindow, Check,
                  LoadCount, StoreCount, LoadDrop, StoreDrop
    <3>2. \E s, total, old : Put(p, With(x, s, x.cw, total, old))
      BY <1>1, <2>3, Puts, Zenon DEF Handle
    <3>3. PICK s, total, old : Put(p, With(x, s, x.cw, total, old))  BY <3>2
    <3>. DEFINE f == With(x, s, x.cw, total, old)
    <3>4. f.tnow = x.tnow /\ f.cw = x.cw  BY DEF With
    <3>5. f.cw # None => key'[f.cw] = Window(f.tnow)  BY <1>4, <3>1, <3>4
    <3>. HIDE DEF f
    <3>6. Put(p, f)  BY <3>3 DEF f
    <3>. QED  BY <3>5, <3>6
  <2>. QED  BY <2>1, <2>2, <2>3
<1>7. PICK f : /\ Put(p, f)
               /\ f.pc # "idle" /\ f.cw # None => key'[f.cw] = Window(f.tnow)
  BY <1>6
<1>8. cpu'[p] = f /\ \A q \in CPUs \ {p} : cpu'[q] = cpu[q]  BY <1>1, <1>7, PacketAfter
<1>9. ASSUME NEW q \in CPUs, cpu'[q].pc # "idle", cpu'[q].cw # None
      PROVE  key'[cpu'[q].cw] = Window(cpu'[q].tnow)
  <2>1. CASE q = p  BY <1>7, <1>8, <1>9, <2>1
  <2>2. CASE q # p
    <3>1. cpu'[q] = cpu[q]  BY <1>8, <2>2
    <3>. QED  BY <1>4, <1>9, <3>1
  <2>. QED  BY <2>1, <2>2
<1>. QED  BY <1>9 DEF CwRight, Window

LEMMA CountedStep ==
    ASSUME RoomInv, CwRight, Counted, NEW p \in CPUs, Receive(p) \/ Handle(p), setup' = setup
    PROVE  Counted'
<1>1. Typed  BY DEF RoomInv
<1>2. MaxTime' = MaxTime  BY DEF MaxTime
<1>3. \A e \in Elems : key[e] # None => key'[e] = key[e]  BY <1>1, KeysKept
<1>. SUFFICES ASSUME NEW t \in 0 .. MaxTime, accepted'[t] # 0
              PROVE  \E e \in Elems : key'[e] = t
  BY <1>2 DEF Counted
<1>4. t # None  BY NoneAssumption
<1>5. CASE accepted'[t] = accepted[t]  BY <1>3, <1>4, <1>5 DEF Counted
<1>6. CASE accepted'[t] # accepted[t]
  <2>1. StoreCount(p)  BY <1>1, <1>6, StepKinds, NeutralSteps, CreateSteps, CheckSteps, LoadSteps
  <2>2. key' = key /\ cpu[p].cw \in Elems /\ key[cpu[p].cw] = t  BY <1>6, <2>1, StoreSteps
  <2>. QED  BY <2>2
<1>. QED  BY <1>5, <1>6

-----------------------------------------------------------------------------
(* One CPU. *)
LEMMA OneCountsStep ==
    ASSUME RoomInv, CwRight, Counted, NEW p \in CPUs, Receive(p) \/ Handle(p), setup' = setup,
           OneCounts(p)
    PROVE  OneCounts(p)'
<1>. DEFINE x == cpu[p]
            y == cpu'[p]
<1>1. Typed /\ KeysDistinct /\ KeysRecent /\ Clocked  BY DEF RoomInv
<1>2. /\ key \in [Elems -> Nat \cup {None}] /\ count \in [Elems -> Nat]
      /\ accepted \in [0 .. MaxTime -> Nat] /\ Quota \in Nat \ {0}
  BY <1>1, QuotaFacts DEF Typed, TypeOK
<1>3. Quota' = Quota  BY DEF Quota, Rate
<1>4. /\ \A e \in Elems : key[e] # None => count[e] = accepted[key[e]] /\ count[e] <= Quota
      /\ x.pc \in {"inc", "inc store"} => count[x.cw] < Quota
      /\ x.pc = "inc store" => x.old = count[x.cw]
  BY DEF OneCounts
<1>. SUFFICES /\ \A e \in Elems : key'[e] # None => count'[e] = accepted'[key'[e]] /\ count'[e] <= Quota
              /\ y.pc \in {"inc", "inc store"} => count'[y.cw] < Quota
              /\ y.pc = "inc store" => y.old = count'[y.cw]
  BY <1>3 DEF OneCounts
<1>5. CASE Neutral(p)
  <2>1. key' = key /\ count' = count /\ accepted' = accepted /\ y.pc \notin Holding
    BY <1>1, <1>5, NeutralSteps
  <2>. HIDE DEF y
  <2>. QED  BY <1>4, <2>1 DEF Holding
<1>6. CASE CreateWindow(p)
  <2>1. y.pc = "lookup" /\ accepted' = accepted
    <3>1. y = With(x, "lookup", x.cw, x.total, x.old) /\ accepted' = accepted
      BY <1>6, CreateSteps
    <3>. HIDE DEF x, y
    <3>. QED  BY <3>1 DEF With
  <2>2. CASE key' = key /\ count' = count  BY <1>4, <2>1, <2>2
  <2>3. ASSUME NEW e \in Elems, NEW k,
               key'[e] = k, count'[e] = 0, accepted[k] = 0,
               \A d \in Elems \ {e} : key'[d] = key[d] /\ count'[d] = count[d]
        PROVE  \A d \in Elems : key'[d] # None =>
                   count'[d] = accepted'[key'[d]] /\ count'[d] <= Quota
    <3>1. count'[e] = accepted'[key'[e]] /\ count'[e] <= Quota  BY <1>2, <2>1, <2>3
    <3>2. ASSUME NEW d \in Elems, d # e, key'[d] # None
          PROVE  count'[d] = accepted'[key'[d]] /\ count'[d] <= Quota
      <4>1. key'[d] = key[d] /\ count'[d] = count[d]  BY <2>3, <3>2
      <4>. QED  BY <1>4, <2>1, <3>2, <4>1
    <3>. QED  BY <3>1, <3>2
  <2>. QED  BY <1>6, <2>1, <2>2, <2>3, CreateSteps
<1>7. CASE Check(p)  BY <1>1, <1>4, <1>7, CheckSteps
<1>8. CASE LoadCount(p)  BY <1>1, <1>4, <1>8, LoadSteps
<1>9. CASE StoreCount(p)
  <2>. DEFINE c == x.cw
              w == key[c]
  <2>1. /\ key' = key /\ x.pc = "inc store" /\ c \in Elems /\ y.pc = "idle"
        /\ w \in 0 .. MaxTime /\ accepted'[w] = accepted[w] + 1
        /\ \A t \in 0 .. MaxTime : t # w => accepted'[t] = accepted[t]
        /\ count'[c] = x.old + 1 /\ \A e \in Elems : e # c => count'[e] = count[e]
    BY <1>9, StoreSteps
  <2>2. ASSUME NEW e \in Elems, key[e] # None
        PROVE  count'[e] = accepted'[key[e]] /\ count'[e] <= Quota
    <3>1. CASE e = c
      <4>1. count[c] = accepted[w] /\ count[c] < Quota /\ x.old = count[c]
        BY <1>4, <2>1, <2>2, <3>1
      <4>2. count'[e] = count[c] + 1 /\ accepted'[key[e]] = accepted[w] + 1
        BY <2>1, <3>1, <4>1
      <4>3. count[c] \in Nat  BY <1>2, <2>1
      <4>. QED  BY <1>2, <4>1, <4>2, <4>3
    <3>2. CASE e # c
      <4>1. key[e] # w  BY <1>1, <2>1, <2>2, <3>2 DEF KeysDistinct
      <4>2. key[e] \in 0 .. MaxTime  BY <1>1, <2>2, KeysInTime
      <4>. QED  BY <1>4, <2>1, <2>2, <3>2, <4>1, <4>2
    <3>. QED  BY <3>1, <3>2
  <2>. QED  BY <2>1, <2>2
<1>. QED  BY <1>5, <1>6, <1>7, <1>8, <1>9, StepKinds

(* Every SYN is in one place: received, passed, dropped, or in flight. *)
LEMMA OneAccountsStep ==
    ASSUME Typed, NEW p \in CPUs, Receive(p) \/ Handle(p), OneAccounts(p)
    PROVE  OneAccounts(p)'
<1>. DEFINE x == cpu[p]
            y == cpu'[p]
<1>1. recv \in Nat /\ drop \in Nat /\ syns \in Nat /\ passed \in Nat  BY DEF Typed, TypeOK
<1>2. /\ x.pc \in {"recv", "recv store"} => syns = recv + 1
      /\ x.pc \notin {"recv", "recv store"} => syns = recv
      /\ x.pc \in {"idle", "recv", "recv store"} => recv = passed + drop
      /\ x.pc \notin {"idle", "recv", "recv store"} => recv = passed + drop + 1
      /\ x.pc = "recv store" => x.old = recv
      /\ x.pc = "drop store" => x.old = drop
  BY DEF OneAccounts
<1>. SUFFICES /\ y.pc \in {"recv", "recv store"} => syns' = recv' + 1
              /\ y.pc \notin {"recv", "recv store"} => syns' = recv'
              /\ y.pc \in {"idle", "recv", "recv store"} => recv' = passed' + drop'
              /\ y.pc \notin {"idle", "recv", "recv store"} => recv' = passed' + drop' + 1
              /\ y.pc = "recv store" => y.old = recv'
              /\ y.pc = "drop store" => y.old = drop'
  BY DEF OneAccounts
<1>3. CASE Receive(p)
  <2>. DEFINE f == [pc |-> "recv", tnow |-> now, pw |-> Lookup(Window(now) - NANO),
                    cw |-> Lookup(Window(now)), total |-> 0, old |-> 0]
  <2>0. Put(p, f) /\ f.pc = "recv"  BY <1>3, Puts
  <2>1. y.pc = "recv"
    <3>. HIDE DEF f
    <3>. QED  BY <2>0, PacketAfter
  <2>2. x.pc = "idle" /\ syns' = syns + 1 /\ recv' = recv /\ drop' = drop /\ passed' = passed
    BY <1>3 DEF Receive, At
  <2>. HIDE DEF x, y
  <2>. QED  BY <1>1, <1>2, <2>1, <2>2
<1>4. CASE LoadRecv(p)
  <2>1. y = With(x, "recv store", x.cw, x.total, recv)  BY <1>4, Puts, PacketAfter
  <2>2. y.pc = "recv store" /\ y.old = recv
    <3>. HIDE DEF x, y
    <3>. QED  BY <2>1 DEF With
  <2>3. x.pc = "recv" /\ syns' = syns /\ recv' = recv /\ drop' = drop /\ passed' = passed
    BY <1>4 DEF LoadRecv, At, seen
  <2>. HIDE DEF x, y
  <2>. QED  BY <1>1, <1>2, <2>2, <2>3
<1>5. CASE StoreRecv(p)
  <2>1. y = With(x, IF x.cw = None THEN "create" ELSE "check", x.cw, x.total, x.old)
    BY <1>5, Puts, PacketAfter
  <2>2. y.pc \in {"create", "check"}  BY <2>1 DEF With
  <2>3. x.pc = "recv store" /\ syns' = syns /\ recv' = x.old + 1 /\ drop' = drop /\ passed' = passed
    BY <1>5 DEF StoreRecv, At, seen
  <2>. HIDE DEF x, y
  <2>. QED  BY <1>1, <1>2, <2>2, <2>3
<1>6. CASE CreateWindow(p)
  <2>1. y = With(x, "lookup", x.cw, x.total, x.old)  BY <1>6, Puts, PacketAfter
  <2>2. y.pc = "lookup"  BY <2>1 DEF With
  <2>3. x.pc = "create" /\ syns' = syns /\ recv' = recv /\ drop' = drop /\ passed' = passed
    BY <1>6 DEF CreateWindow, At
  <2>. HIDE DEF x, y
  <2>. QED  BY <1>1, <1>2, <2>2, <2>3
<1>7. CASE LookupWindow(p)
  <2>. DEFINE e == Lookup(Window(x.tnow))
  <2>1. y = With(x, IF e = None THEN "idle" ELSE "check", e, x.total, x.old)
    BY <1>7, Puts, PacketAfter
  <2>2. /\ x.pc = "lookup" /\ syns' = syns /\ recv' = recv /\ drop' = drop
        /\ passed' = IF e = None THEN passed + 1 ELSE passed
    BY <1>7 DEF LookupWindow, At
  <2>. HIDE DEF e
  <2>3. y.pc = IF e = None THEN "idle" ELSE "check"  BY <2>1 DEF With
  <2>. HIDE DEF x, y
  <2>. QED  BY <1>1, <1>2, <2>2, <2>3
<1>8. CASE Check(p)
  <2>1. y.pc \in {"drop", "inc"}  BY <1>8, CheckSteps
  <2>2. x.pc = "check" /\ syns' = syns /\ recv' = recv /\ drop' = drop /\ passed' = passed
    BY <1>8 DEF Check, At, seen
  <2>. HIDE DEF x, y
  <2>. QED  BY <1>1, <1>2, <2>1, <2>2
<1>9. CASE LoadCount(p)
  <2>1. y.pc = "inc store"  BY <1>9, LoadSteps
  <2>2. x.pc = "inc" /\ syns' = syns /\ recv' = recv /\ drop' = drop /\ passed' = passed
    BY <1>9 DEF LoadCount, At, seen
  <2>. HIDE DEF x, y
  <2>. QED  BY <1>1, <1>2, <2>1, <2>2
<1>10. CASE StoreCount(p)
  <2>1. y = With(x, "idle", x.cw, x.total, x.old)  BY <1>10, Puts, PacketAfter
  <2>2. y.pc = "idle"  BY <2>1 DEF With
  <2>3. x.pc = "inc store" /\ syns' = syns /\ recv' = recv /\ drop' = drop /\ passed' = passed + 1
    BY <1>10 DEF StoreCount, At
  <2>. HIDE DEF x, y
  <2>4. syns = recv /\ recv = passed + drop + 1  BY <1>2, <2>3
  <2>5. syns' = recv' /\ recv' = passed' + drop'
    <3>1. passed' = passed + 1 /\ drop' = drop  BY <2>3
    <3>2. passed' + drop' = passed + drop + 1  BY <1>1, <3>1
    <3>. QED  BY <2>3, <2>4, <3>2
  <2>. QED  BY <2>2, <2>5
<1>11. CASE LoadDrop(p)
  <2>1. y = With(x, "drop store", x.cw, x.total, drop)  BY <1>11, Puts, PacketAfter
  <2>2. y.pc = "drop store" /\ y.old = drop
    <3>. HIDE DEF x, y
    <3>. QED  BY <2>1 DEF With
  <2>3. x.pc = "drop" /\ syns' = syns /\ recv' = recv /\ drop' = drop /\ passed' = passed
    BY <1>11 DEF LoadDrop, At, seen
  <2>. HIDE DEF x, y
  <2>. QED  BY <1>1, <1>2, <2>2, <2>3
<1>12. CASE StoreDrop(p)
  <2>1. y = With(x, "idle", x.cw, x.total, x.old)  BY <1>12, Puts, PacketAfter
  <2>2. y.pc = "idle"  BY <2>1 DEF With
  <2>3. x.pc = "drop store" /\ syns' = syns /\ recv' = recv /\ drop' = x.old + 1 /\ passed' = passed
    BY <1>12 DEF StoreDrop, At, seen
  <2>. HIDE DEF x, y
  <2>4. syns = recv /\ recv = passed + drop + 1 /\ x.old = drop  BY <1>2, <2>3
  <2>5. syns' = recv' /\ recv' = passed' + drop'
    <3>1. passed' = passed /\ drop' = drop + 1  BY <2>3, <2>4
    <3>2. passed' + drop' = passed + drop + 1  BY <1>1, <3>1
    <3>. QED  BY <2>3, <2>4, <3>2
  <2>. QED  BY <2>2, <2>5
<1>. QED
  BY <1>3, <1>4, <1>5, <1>6, <1>7, <1>8, <1>9, <1>10, <1>11, <1>12 DEF Handle

LEMMA OneStep ==
    ASSUME RoomInv, CwRight, Counted, OneInv, NEW p \in CPUs, Receive(p) \/ Handle(p), setup' = setup
    PROVE  OneInv'
<1>1. Typed  BY DEF RoomInv
<1>2. p \in setup.cpus
  <2>1. CASE Receive(p)  BY <2>1 DEF Receive
  <2>2. CASE Handle(p)
    <3>1. cpu[p].pc # "idle"
      BY <2>2 DEF Handle, At, LoadRecv, StoreRecv, CreateWindow, LookupWindow, Check,
                  LoadCount, StoreCount, LoadDrop, StoreDrop
    <3>. QED  BY <1>1, <3>1 DEF Typed
  <2>. QED  BY <2>1, <2>2
<1>3. ASSUME setup.cpus = {p} PROVE OneCounts(p)' /\ OneAccounts(p)'
  <2>1. OneCounts(p) /\ OneAccounts(p)  BY <1>3 DEF OneInv
  <2>. QED  BY <1>1, <2>1, OneCountsStep, OneAccountsStep
<1>. SUFFICES ASSUME NEW q \in CPUs, setup.cpus = {q} PROVE OneCounts(q)' /\ OneAccounts(q)'
  BY DEF OneInv
<1>4. q = p  BY <1>2
<1>. QED  BY <1>3, <1>4

-----------------------------------------------------------------------------
(* Two CPUs: how the potential falls. *)
LEMMA PotentialSymmetric ==
    ASSUME NEW Q \in Nat, NEW x \in Nat, NEW y \in Nat
    PROVE  Potential(Q, x, y) = Potential(Q, y, x)
BY DEF Potential

LEMMA SquareStep ==
    ASSUME NEW n \in Int
    PROVE  n * (n + 3) = n * n + 3 * n /\ (n + 1) * (n + 1 + 3) = n * n + 5 * n + 4
OBVIOUS

(* With x the lesser of the two, and n counts still to go from it. *)
LEMMA PotentialAt ==
    ASSUME NEW Q \in Nat, NEW x \in 0 .. Q, NEW y \in 0 .. Q, x <= y
    PROVE  LET n == Q - x IN Potential(Q, x, y) = n * n + 3 * n - 2 * (y - x)
<1>. DEFINE n == Q - x
<1>1. n \in Int  OBVIOUS
<1>2. Potential(Q, x, y) = n * (n + 3) - 2 * (y - x)  BY DEF Potential
<1>. HIDE DEF n
<1>3. n * (n + 3) = n * n + 3 * n  BY <1>1, SquareStep
<1>. QED  BY <1>2, <1>3 DEF n

LEMMA PotentialNat ==
    ASSUME NEW Q \in Nat, NEW x \in 0 .. Q, NEW y \in 0 .. Q
    PROVE  Potential(Q, x, y) \in Nat
<1>1. ASSUME NEW a \in 0 .. Q, NEW b \in 0 .. Q, a <= b PROVE Potential(Q, a, b) \in Nat
  <2>. DEFINE n == Q - a
  <2>1. n \in Nat /\ b - a \in Nat /\ b - a <= n  BY <1>1
  <2>2. Potential(Q, a, b) = n * n + 3 * n - 2 * (b - a)  BY <1>1, PotentialAt
  <2>3. n * n \in Nat  BY <2>1
  <2>. HIDE DEF n
  <2>. QED  BY <1>1, <2>1, <2>2, <2>3
<1>2. CASE x <= y  BY <1>1, <1>2
<1>3. CASE y <= x  BY <1>1, <1>3, PotentialSymmetric
<1>. QED  BY <1>2, <1>3

(* The other CPU holds the count that it loaded. *)
LEMMA StoreAgainstHolder ==
    ASSUME NEW Q \in Nat, NEW x \in 0 .. Q - 1, NEW y \in 0 .. Q
    PROVE  Potential(Q, x + 1, y) + 2 <= Potential(Q, x, y)
<1>1. CASE x + 1 <= y
  <2>. DEFINE n == Q - (x + 1)
              d == y - x
  <2>1. n \in Nat /\ d \in Int /\ Q - x = n + 1  OBVIOUS
  <2>2. Potential(Q, x + 1, y) = n * n + 3 * n - 2 * (y - (x + 1))  BY <1>1, PotentialAt
  <2>3. Potential(Q, x, y) = (Q - x) * (Q - x) + 3 * (Q - x) - 2 * (y - x)  BY <1>1, PotentialAt
  <2>4. y - (x + 1) = d - 1  OBVIOUS
  <2>. HIDE DEF n, d
  <2>5. Potential(Q, x, y) = (n + 1) * (n + 1) + 3 * (n + 1) - 2 * d  BY <2>1, <2>3 DEF d
  <2>6. (n + 1) * (n + 1) = n * n + 2 * n + 1 /\ n * n \in Nat  BY <2>1
  <2>. QED  BY <2>1, <2>2, <2>4, <2>5, <2>6
<1>2. CASE y <= x
  <2>. DEFINE n == Q - y
  <2>1. Potential(Q, y, x) = n * n + 3 * n - 2 * (x - y)  BY <1>2, PotentialAt
  <2>2. Potential(Q, y, x + 1) = n * n + 3 * n - 2 * (x + 1 - y)  BY <1>2, PotentialAt
  <2>3. n \in Nat  OBVIOUS
  <2>4. n * n \in Nat  BY <2>3
  <2>5. Potential(Q, x, y) = Potential(Q, y, x) /\ Potential(Q, x + 1, y) = Potential(Q, y, x + 1)
    BY PotentialSymmetric
  <2>. HIDE DEF n
  <2>. QED  BY <2>1, <2>2, <2>3, <2>4, <2>5
<1>. QED  BY <1>1, <1>2

(* The other CPU stands where the map is, which the store moves to x + 1,  *)
(* or back to it.                                                          *)
LEMMA StoreAgainstMap ==
    ASSUME NEW Q \in Nat, NEW x \in 0 .. Q - 1, NEW y \in 0 .. Q
    PROVE  Potential(Q, x + 1, x + 1) + 2 <= Potential(Q, x, y)
<1>. DEFINE n == Q - (x + 1)
<1>1. n \in Nat /\ Q - x = n + 1 /\ n * n \in Nat  OBVIOUS
<1>2. Potential(Q, x + 1, x + 1) = n * n + 3 * n
  <2>1. Potential(Q, x + 1, x + 1) = n * n + 3 * n - 2 * (x + 1 - (x + 1))  BY PotentialAt
  <2>. HIDE DEF n
  <2>. QED  BY <1>1, <2>1
<1>3. CASE x <= y
  <2>1. Potential(Q, x, y) = (Q - x) * (Q - x) + 3 * (Q - x) - 2 * (y - x)  BY <1>3, PotentialAt
  <2>2. y - x <= n + 1  OBVIOUS
  <2>. HIDE DEF n
  <2>3. (Q - x) * (Q - x) = n * n + 2 * n + 1  BY <1>1
  <2>. QED  BY <1>1, <1>2, <2>1, <2>2, <2>3
<1>4. CASE y < x
  <2>. DEFINE m == Q - y
  <2>1. Potential(Q, x, y) = m * m + 3 * m - 2 * (x - y)  BY <1>4, PotentialAt, PotentialSymmetric
  <2>2. m \in Nat /\ m >= n + 2 /\ x - y <= m  BY <1>4
  <2>. HIDE DEF n, m
  <2>3. (n + 2) * (n + 2) <= m * m
    <3>1. (n + 2) * (n + 2) <= (n + 2) * m  BY <1>1, <2>2, ProductMono
    <3>2. m * (n + 2) <= m * m  BY <1>1, <2>2, ProductMono
    <3>3. (n + 2) * m = m * (n + 2)  BY <1>1, <2>2
    <3>. QED  BY <1>1, <2>2, <3>1, <3>2, <3>3
  <2>4. (n + 2) * (n + 2) = n * n + 4 * n + 4  BY <1>1
  <2>5. m * m \in Nat  BY <2>2
  <2>. QED  BY <1>1, <1>2, <2>1, <2>2, <2>3, <2>4, <2>5
<1>. QED  BY <1>3, <1>4

(* The other CPU has compared but not loaded: it will count once more. *)
LEMMA StoreAgainstLoader ==
    ASSUME NEW Q \in Nat \ {0}, NEW x \in 0 .. Q - 1, NEW y \in 0 .. Q - 1
    PROVE  Potential(Q, x + 1, Least(x + 1, Q - 1)) + 2 <= Potential(Q, x, y)
<1>1. CASE x + 1 <= Q - 1
  <2>1. Least(x + 1, Q - 1) = x + 1  BY <1>1 DEF Least
  <2>. QED  BY <2>1, StoreAgainstMap
<1>2. CASE x = Q - 1
  <2>1. Least(x + 1, Q - 1) = Q - 1 /\ x + 1 = Q  BY <1>2 DEF Least
  <2>2. Potential(Q, Q, Q - 1) = 2
    <3>1. Potential(Q, Q - 1, Q) = 1 * 1 + 3 * 1 - 2 * 1
      <4>1. Q - 1 \in 0 .. Q /\ Q \in 0 .. Q /\ Q - 1 <= Q /\ Q - (Q - 1) = 1  OBVIOUS
      <4>. QED  BY <4>1, PotentialAt
    <3>. QED  BY <3>1, PotentialSymmetric
  <2>. DEFINE m == Q - y
  <2>3. Potential(Q, x, y) = m * m + 3 * m - 2 * (x - y)
    BY <1>2, PotentialAt, PotentialSymmetric
  <2>4. m \in Nat /\ m >= 1 /\ x - y = m - 1  BY <1>2
  <2>. HIDE DEF m
  <2>5. m * m \in Nat /\ m * m >= m  BY <2>4
  <2>. QED  BY <2>1, <2>2, <2>3, <2>4, <2>5
<1>. QED  BY <1>1, <1>2

LEMMA LeastUp ==
    ASSUME NEW Q \in Nat \ {0}, NEW o \in Nat
    PROVE  /\ Least(o, Q - 1) \in 0 .. Q - 1
           /\ Least(o + 1, Q) = Least(o, Q - 1) + 1
           /\ Least(o + 1, Q - 1) = Least(Least(o, Q - 1) + 1, Q - 1)
           /\ Least(o + 1, Q - 1) \in 0 .. Q
<1>1. CASE o <= Q - 1
  <2>1. Least(o, Q - 1) = o /\ Least(o + 1, Q) = o + 1  BY <1>1 DEF Least
  <2>. QED  BY <1>1, <2>1 DEF Least
<1>2. CASE o >= Q
  <2>1. Least(o, Q - 1) = Q - 1 /\ Least(o + 1, Q) = Q /\ Least(o + 1, Q - 1) = Q - 1
    BY <1>2 DEF Least
  <2>2. Least((Q - 1) + 1, Q - 1) = Q - 1  BY DEF Least
  <2>3. Q - 1 + 1 = Q  OBVIOUS
  <2>. QED  BY <2>1, <2>2, <2>3
<1>. QED  BY <1>1, <1>2

LEMMA StandRange ==
    ASSUME Typed, NEW r \in CPUs, NEW e \in Elems
    PROVE  Stand(r, e) \in 0 .. Quota
<1>1. Quota \in Nat \ {0} /\ count[e] \in Nat /\ cpu[r].old \in Nat
  BY QuotaFacts, PacketFields DEF Typed, TypeOK
<1>2. /\ Least(cpu[r].old, Quota - 1) \in 0 .. Quota - 1 /\ Least(count[e], Quota - 1) \in 0 .. Quota - 1
  BY <1>1, LeastUp
<1>3. Least(count[e], Quota) \in 0 .. Quota
  <2>. DEFINE n == count[e]
              Q == Quota
  <2>. HIDE DEF n, Q
  <2>1. n \in Nat /\ Q \in Nat  BY <1>1 DEF n, Q
  <2>2. Least(n, Q) \in 0 .. Q  BY <2>1 DEF Least
  <2>. QED  BY <2>2 DEF n, Q
<1>. DEFINE a == Least(cpu[r].old, Quota - 1)
            b == Least(count[e], Quota - 1)
            c == Least(count[e], Quota)
<1>4. Stand(r, e) = a \/ Stand(r, e) = b \/ Stand(r, e) = c  BY DEF Stand
<1>. HIDE DEF a, b, c
<1>5. a \in 0 .. Quota /\ b \in 0 .. Quota /\ c \in 0 .. Quota  BY <1>1, <1>2, <1>3 DEF a, b, c
<1>. QED  BY <1>4, <1>5

(* Where a CPU that neither compares nor counts stands. *)
LEMMA StandSame ==
    ASSUME NEW r \in CPUs, NEW e \in Elems, setup' = setup, count'[e] = count[e],
           cpu'[r] = cpu[r] \/ (cpu[r].pc \notin Holding /\ cpu'[r].pc \notin Holding)
    PROVE  Stand(r, e)' = Stand(r, e)
<1>1. Quota' = Quota  BY DEF Quota, Rate
<1>2. CASE cpu'[r] = cpu[r]  BY <1>1, <1>2 DEF Stand, Least
<1>3. CASE cpu[r].pc \notin Holding /\ cpu'[r].pc \notin Holding
  <2>1. Stand(r, e) = Least(count[e], Quota)  BY <1>3 DEF Stand, Holding
  <2>2. Stand(r, e)' = Least(count'[e], Quota)  BY <1>1, <1>3 DEF Stand, Holding, Least
  <2>. QED  BY <2>1, <2>2
<1>. QED  BY <1>2, <1>3

(* Two CPUs, of which p takes a step. *)
Within(a, x, y) == 2 * a + Potential(Quota, x, y) <= Quota * (Quota + 3)

LEMMA TwoNew ==
    ASSUME RoomInv, CwRight, Counted, NEW p \in CPUs, NEW q \in CPUs, p # q, setup' = setup,
           CreateWindow(p), NEW e \in Elems, key[e] = None, count'[e] = 0,
           accepted'[key'[e]] = 0
    PROVE  Within(accepted'[key'[e]], Stand(p, e)', Stand(q, e)')
<1>1. Quota' = Quota  BY DEF Quota, Rate
<1>2. Typed  BY DEF RoomInv
<1>3. Quota \in Nat \ {0}  BY <1>2, QuotaFacts
<1>4. cpu'[p].pc \notin Holding
  <2>1. cpu'[p] = With(cpu[p], "lookup", cpu[p].cw, cpu[p].total, cpu[p].old)  BY CreateSteps
  <2>2. cpu'[p].pc = "lookup"  BY <2>1 DEF With
  <2>. QED  BY <2>2 DEF Holding
<1>5. cpu'[q] = cpu[q]  BY CreateSteps
<1>6. ~(cpu[q].pc \in Holding /\ cpu[q].cw = e)
  <2>. SUFFICES ASSUME cpu[q].pc \in Holding, cpu[q].cw = e PROVE FALSE  OBVIOUS
  <2>1. e # None /\ cpu[q].pc # "idle"  BY NoneAssumption DEF Holding
  <2>2. key[e] = Window(cpu[q].tnow)  BY <2>1 DEF CwRight
  <2>3. cpu[q].tnow \in Nat  BY <1>2, PacketFields DEF Typed, TypeOK
  <2>. QED  BY <2>2, <2>3, WindowFacts, NoneAssumption
<1>7. Stand(p, e)' = Least(0, Quota)  BY <1>1, <1>4 DEF Stand, Holding, Least
<1>8. Stand(q, e)' = Least(0, Quota)  BY <1>1, <1>5, <1>6 DEF Stand, Holding, Least
<1>9. Least(0, Quota) = 0  BY <1>3 DEF Least
<1>10. Potential(Quota, 0, 0) = Quota * (Quota + 3)
  <2>1. 0 \in 0 .. Quota /\ Quota - 0 = Quota /\ 0 - 0 = 0  BY <1>3
  <2>2. Potential(Quota, 0, 0) = Quota * Quota + 3 * Quota - 2 * 0  BY <1>3, <2>1, PotentialAt
  <2>3. Quota * (Quota + 3) = Quota * Quota + 3 * Quota  BY <1>3
  <2>4. Quota * Quota \in Nat  BY <1>3
  <2>. QED  BY <1>3, <2>2, <2>3, <2>4
<1>11. Quota * (Quota + 3) \in Nat  BY <1>3
<1>12. Within(0, 0, 0)  BY <1>10, <1>11 DEF Within
<1>. QED  BY <1>7, <1>8, <1>9, <1>12

LEMMA TwoStore ==
    ASSUME RoomInv, CwRight, NEW p \in CPUs, NEW q \in CPUs, p # q, setup' = setup,
           StoreCount(p), NEW e \in Elems, e = cpu[p].cw,
           Within(accepted[key[e]], Stand(p, e), Stand(q, e))
    PROVE  Within(accepted'[key'[e]], Stand(p, e)', Stand(q, e)')
<1>. DEFINE Q == Quota
            o == cpu[p].old
            x == Stand(p, e)
            y == Stand(q, e)
            z == Stand(q, e)'
            a == accepted[key[e]]
<1>1. Quota' = Q  BY DEF Quota, Rate
<1>2. Typed  BY DEF RoomInv
<1>3. Q \in Nat \ {0} /\ count[e] \in Nat  BY <1>2, QuotaFacts DEF Typed, TypeOK
<1>4. /\ key' = key /\ cpu[p].pc = "inc store" /\ o \in Nat /\ cpu'[p].pc = "idle"
      /\ cpu'[q] = cpu[q] /\ accepted'[key[e]] = a + 1 /\ count'[e] = o + 1
      /\ key[e] \in 0 .. MaxTime
  BY StoreSteps
<1>5. a \in Nat  BY <1>2, <1>4 DEF Typed, TypeOK
<1>6. x = Least(o, Q - 1)  BY <1>4 DEF Stand
<1>7. /\ x \in 0 .. Q - 1 /\ Least(o + 1, Q) = x + 1
      /\ Least(o + 1, Q - 1) = Least(x + 1, Q - 1) /\ Least(o + 1, Q - 1) \in 0 .. Q
  <2>. HIDE DEF Q, o, x
  <2>. QED  BY <1>3, <1>4, <1>6, LeastUp
<1>8. Stand(p, e)' = x + 1
  <2>1. Stand(p, e)' = Least(o + 1, Q)  BY <1>1, <1>4 DEF Stand, Least
  <2>. QED  BY <1>7, <2>1
<1>9. y \in 0 .. Q  BY <1>2, StandRange
<1>10. Potential(Q, x + 1, z) + 2 <= Potential(Q, x, y) /\ z \in 0 .. Q
  <2>1. CASE cpu[q].pc = "inc store" /\ cpu[q].cw = e
    <3>1. z = y  BY <1>1, <1>4, <2>1 DEF Stand, Least
    <3>. HIDE DEF Q, x, y, z
    <3>. QED  BY <1>3, <1>7, <1>9, <3>1, StoreAgainstHolder
  <2>2. CASE cpu[q].pc = "inc" /\ cpu[q].cw = e
    <3>1. y = Least(count[e], Q - 1)  BY <2>2 DEF Stand
    <3>2. y \in 0 .. Q - 1  BY <1>3, <3>1 DEF Least
    <3>3. z = Least(o + 1, Q - 1)  BY <1>1, <1>4, <2>2 DEF Stand, Least
    <3>. HIDE DEF Q, o, x, y, z
    <3>4. z = Least(x + 1, Q - 1) /\ z \in 0 .. Q  BY <1>7, <3>3
    <3>. QED  BY <1>3, <1>7, <3>2, <3>4, StoreAgainstLoader
  <2>3. CASE ~(cpu[q].pc \in Holding /\ cpu[q].cw = e)
    <3>1. z = Least(o + 1, Q)  BY <1>1, <1>4, <2>3 DEF Stand, Least, Holding
    <3>2. z = x + 1  BY <1>7, <3>1
    <3>. HIDE DEF Q, o, x, y, z
    <3>3. x + 1 \in 0 .. Q  BY <1>3, <1>7
    <3>. QED  BY <1>3, <1>7, <1>9, <3>2, <3>3, StoreAgainstMap
  <2>. QED  BY <2>1, <2>2, <2>3 DEF Holding
<1>11. 2 * a + Potential(Q, x, y) <= Q * (Q + 3)  BY DEF Within
<1>12. Potential(Q, x, y) \in Nat /\ Potential(Q, x + 1, z) \in Int /\ Q * (Q + 3) \in Nat
  <2>. HIDE DEF Q, x, y, z
  <2>2. x \in 0 .. Q /\ x + 1 \in 0 .. Q  BY <1>3, <1>7
  <2>3. Q * (Q + 3) \in Nat  BY <1>3
  <2>. QED  BY <1>3, <1>9, <1>10, <2>2, <2>3, PotentialNat
<1>13. 2 * (a + 1) + Potential(Q, x + 1, z) <= Q * (Q + 3)
  <2>. DEFINE g == Potential(Q, x, y)
              h == Potential(Q, x + 1, z)
              b == Q * (Q + 3)
  <2>1. h + 2 <= g /\ 2 * a + g <= b /\ g \in Nat /\ h \in Int /\ b \in Nat  BY <1>10, <1>11, <1>12
  <2>. HIDE DEF g, h, b, a
  <2>2. 2 * (a + 1) + h <= b  BY <1>5, <2>1
  <2>. QED  BY <2>2 DEF g, h, b
<1>. QED  BY <1>4, <1>8, <1>13 DEF Within

LEMMA TwoStepOf ==
    ASSUME RoomInv, CwRight, Counted, NEW p \in CPUs, NEW q \in CPUs, p # q, setup' = setup,
           Receive(p) \/ Handle(p),
           \A e \in Elems : key[e] # None => Within(accepted[key[e]], Stand(p, e), Stand(q, e)),
           NEW e \in Elems, key'[e] # None
    PROVE  Within(accepted'[key'[e]], Stand(p, e)', Stand(q, e)')
<1>1. Typed /\ Clocked /\ KeysRecent /\ KeysDistinct  BY DEF RoomInv
<1>2. Quota' = Quota  BY DEF Quota, Rate
<1>3. CASE Neutral(p)
  <2>1. /\ key' = key /\ count' = count /\ accepted' = accepted
        /\ cpu[p].pc \notin Holding /\ cpu'[p].pc \notin Holding /\ cpu'[q] = cpu[q]
    BY <1>1, <1>3, NeutralSteps
  <2>2. Stand(p, e)' = Stand(p, e) /\ Stand(q, e)' = Stand(q, e)  BY <2>1, StandSame
  <2>. QED  BY <2>1, <2>2
<1>4. CASE CreateWindow(p)
  <2>1. accepted' = accepted /\ cpu[p].pc = "create" /\ cpu'[q] = cpu[q]  BY <1>4, CreateSteps
  <2>2. cpu[p].pc \notin Holding /\ cpu'[p].pc \notin Holding
    <3>1. cpu'[p] = With(cpu[p], "lookup", cpu[p].cw, cpu[p].total, cpu[p].old)
      BY <1>4, CreateSteps
    <3>2. cpu'[p].pc = "lookup"  BY <3>1 DEF With
    <3>. QED  BY <2>1, <3>2 DEF Holding
  <2>3. CASE key'[e] = key[e] /\ count'[e] = count[e]
    <3>1. Stand(p, e)' = Stand(p, e) /\ Stand(q, e)' = Stand(q, e)
      BY <2>1, <2>2, <2>3, StandSame
    <3>. QED  BY <2>1, <2>3, <3>1
  <2>4. CASE key[e] = None /\ count'[e] = 0 /\ accepted[key'[e]] = 0
    BY <1>4, <2>1, <2>4, TwoNew
  <2>. QED  BY <1>4, <2>3, <2>4, CreateSteps
<1>5. CASE Check(p)
  <2>. DEFINE c == cpu[p].cw
              n == count[e]
              Q == Quota
  <2>1. /\ key' = key /\ count' = count /\ accepted' = accepted
        /\ cpu[p].pc = "check" /\ cpu'[p].cw = c /\ cpu'[q] = cpu[q]
        /\ \/ cpu'[p].pc = "drop"
           \/ cpu'[p].pc = "inc" /\ count[c] < Q
    BY <1>1, <1>5, CheckSteps
  <2>2. Stand(q, e)' = Stand(q, e)  BY <2>1, StandSame
  <2>3. Stand(p, e)' = Stand(p, e)
    <3>1. Stand(p, e) = Least(n, Q)  BY <2>1 DEF Stand
    <3>2. CASE cpu'[p].pc = "inc" /\ c = e
      <4>1. Stand(p, e)' = Least(n, Q - 1)  BY <1>2, <2>1, <3>2 DEF Stand, Least
      <4>2. n \in Nat /\ Q \in Nat /\ n < Q
        <5>1. n \in Nat /\ Q \in Nat  BY <1>1, QuotaFacts DEF Typed, TypeOK
        <5>. QED  BY <2>1, <3>2, <5>1
      <4>. HIDE DEF n, Q
      <4>3. Least(n, Q - 1) = n /\ Least(n, Q) = n  BY <4>2 DEF Least
      <4>. QED  BY <3>1, <4>1, <4>3
    <3>3. CASE ~(cpu'[p].pc = "inc" /\ c = e)
      <4>1. Stand(p, e)' = Least(n, Q)  BY <1>2, <2>1, <3>3 DEF Stand, Least
      <4>. QED  BY <3>1, <4>1
    <3>. QED  BY <3>2, <3>3
  <2>. QED  BY <2>1, <2>2, <2>3
<1>6. CASE LoadCount(p)
  <2>1. /\ key' = key /\ count' = count /\ accepted' = accepted
        /\ cpu[p].pc = "inc" /\ cpu'[p].cw = cpu[p].cw /\ cpu'[p].pc = "inc store"
        /\ cpu'[p].old = count[cpu[p].cw] /\ cpu'[q] = cpu[q]
    BY <1>1, <1>6, LoadSteps
  <2>2. Stand(q, e)' = Stand(q, e)  BY <2>1, StandSame
  <2>3. CASE cpu[p].cw = e
    <3>1. Stand(p, e) = Least(count[e], Quota - 1)  BY <2>1, <2>3 DEF Stand
    <3>2. Stand(p, e)' = Least(count[e], Quota - 1)  BY <1>2, <2>1, <2>3 DEF Stand, Least
    <3>. QED  BY <2>1, <2>2, <3>1, <3>2
  <2>4. CASE cpu[p].cw # e
    <3>1. Stand(p, e) = Least(count[e], Quota)  BY <2>1, <2>4 DEF Stand
    <3>2. Stand(p, e)' = Least(count[e], Quota)  BY <1>2, <2>1, <2>4 DEF Stand, Least
    <3>. QED  BY <2>1, <2>2, <3>1, <3>2
  <2>. QED  BY <2>3, <2>4
<1>7. CASE StoreCount(p)
  <2>. DEFINE c == cpu[p].cw
  <2>1. /\ key' = key /\ cpu[p].pc = "inc store" /\ c \in Elems /\ cpu'[p].pc = "idle"
        /\ cpu'[q] = cpu[q] /\ \A t \in 0 .. MaxTime : t # key[c] => accepted'[t] = accepted[t]
        /\ \A d \in Elems : d # c => count'[d] = count[d]
    BY <1>7, StoreSteps
  <2>2. CASE e = c  BY <1>7, <2>1, <2>2, TwoStore
  <2>3. CASE e # c
    <3>1. key[e] # None /\ key[e] # key[c]  BY <1>1, <2>1, <2>3 DEF KeysDistinct
    <3>2. key[e] \in 0 .. MaxTime  BY <1>1, <3>1, KeysInTime
    <3>3. accepted'[key[e]] = accepted[key[e]] /\ count'[e] = count[e]  BY <2>1, <2>3, <3>1, <3>2
    <3>4. Stand(q, e)' = Stand(q, e)  BY <2>1, <3>3, StandSame
    <3>5. Stand(p, e) = Least(count[e], Quota)  BY <2>1, <2>3 DEF Stand
    <3>6. Stand(p, e)' = Least(count[e], Quota)  BY <1>2, <2>1, <3>3 DEF Stand, Least
    <3>. QED  BY <2>1, <3>1, <3>3, <3>4, <3>5, <3>6
  <2>. QED  BY <2>2, <2>3
<1>. QED  BY <1>3, <1>4, <1>5, <1>6, <1>7, StepKinds

LEMMA TwoStep ==
    ASSUME RoomInv, CwRight, Counted, TwoInv, NEW p \in CPUs, Receive(p) \/ Handle(p), setup' = setup
    PROVE  TwoInv'
<1>1. Typed  BY DEF RoomInv
<1>2. Typed'  BY <1>1, StepTyped DEF Next
<1>3. Quota' = Quota /\ Quota \in Nat  BY <1>1, QuotaFacts DEF Quota, Rate
<1>4. p \in setup.cpus
  <2>1. CASE Receive(p)  BY <2>1 DEF Receive
  <2>2. CASE Handle(p)
    <3>1. cpu[p].pc # "idle"
      BY <2>2 DEF Handle, At, LoadRecv, StoreRecv, CreateWindow, LookupWindow, Check,
                  LoadCount, StoreCount, LoadDrop, StoreDrop
    <3>. QED  BY <1>1, <3>1 DEF Typed
  <2>. QED  BY <2>1, <2>2
<1>5. ASSUME NEW q \in CPUs, q # p, setup.cpus = {p, q}, NEW e \in Elems, key'[e] # None
      PROVE  Within(accepted'[key'[e]], Stand(p, e)', Stand(q, e)')
  <2>1. \A d \in Elems : key[d] # None => Within(accepted[key[d]], Stand(p, d), Stand(q, d))
    BY <1>5 DEF TwoInv, Within
  <2>. QED  BY <1>5, <2>1, TwoStepOf
<1>. SUFFICES ASSUME NEW r \in CPUs, NEW s \in CPUs, r # s, setup.cpus = {r, s},
                     NEW e \in Elems, key'[e] # None
              PROVE  Within(accepted'[key'[e]], Stand(r, e)', Stand(s, e)')
  BY <1>3 DEF TwoInv, Within, Potential
<1>6. CASE p = r  BY <1>5, <1>6
<1>7. CASE p = s
  <2>1. Within(accepted'[key'[e]], Stand(s, e)', Stand(r, e)')
    <3>1. setup.cpus = {s, r}  OBVIOUS
    <3>. QED  BY <1>5, <1>7, <3>1
  <2>2. Stand(r, e)' \in Nat /\ Stand(s, e)' \in Nat
    <3>1. Quota' \in Nat \ {0} /\ count'[e] \in Nat /\ cpu'[r].old \in Nat /\ cpu'[s].old \in Nat
      <4>1. count' \in [Elems -> Nat] /\ cpu' \in [CPUs -> Packet]  BY <1>2 DEF Typed, TypeOK
      <4>. QED  BY <1>1, <1>3, <4>1, QuotaFacts, PacketFields
    <3>2. ASSUME NEW a \in Nat, NEW b \in Nat PROVE Least(a, b) \in Nat  BY DEF Least
    <3>3. Quota' - 1 \in Nat
      <4>1. Quota - 1 \in Nat  BY <1>1, QuotaFacts
      <4>. QED  BY <1>3, <4>1
    <3>4. Stand(r, e)' \in {Least(cpu'[r].old, Quota' - 1), Least(count'[e], Quota' - 1),
                            Least(count'[e], Quota')}
      BY DEF Stand, Least
    <3>5. Stand(s, e)' \in {Least(cpu'[s].old, Quota' - 1), Least(count'[e], Quota' - 1),
                            Least(count'[e], Quota')}
      BY DEF Stand, Least
    <3>. QED  BY <3>1, <3>2, <3>3, <3>4, <3>5
  <2>. QED  BY <1>3, <2>1, <2>2, PotentialSymmetric DEF Within
<1>. QED  BY <1>4, <1>6, <1>7

-----------------------------------------------------------------------------
LEMMA InitRate == Init => RateInv
<1>. SUFFICES ASSUME Init PROVE RateInv  OBVIOUS
<1>1. RoomInv  BY InitRoom
<1>2. \A p \in CPUs : cpu[p].pc = "idle"  BY DEF Init
<1>3. CwRight  BY <1>2 DEF CwRight
<1>4. Counted  BY DEF Init, Counted
<1>5. \A e \in Elems : key[e] = None  BY DEF Init
<1>6. OneInv
  <2>1. syns = 0 /\ recv = 0 /\ drop = 0 /\ passed = 0  BY DEF Init
  <2>. SUFFICES ASSUME NEW p \in CPUs PROVE OneCounts(p) /\ OneAccounts(p)  BY DEF OneInv
  <2>2. OneCounts(p)  BY <1>2, <1>5 DEF OneCounts
  <2>3. cpu[p].pc = "idle" /\ syns = recv /\ recv = passed + drop  BY <1>2, <2>1
  <2>4. OneAccounts(p)  BY <2>3 DEF OneAccounts
  <2>. QED  BY <2>2, <2>4
<1>7. TwoInv  BY <1>5 DEF TwoInv
<1>. QED  BY <1>1, <1>3, <1>4, <1>6, <1>7 DEF RateInv

(* The daemon sleeps through its first period only once. *)
LEMMA StillUndisturbed ==
    ASSUME RoomInv, [Next]_vars, Undisturbed'
    PROVE  /\ Undisturbed /\ setup' = setup
           /\ \/ \E p \in CPUs : Receive(p) \/ Handle(p)
              \/ key' = key /\ cpu' = cpu /\ count' = count /\ recv' = recv /\ drop' = drop
                 /\ syns' = syns /\ accepted' = accepted /\ passed' = passed
<1>1. Typed /\ Clocked  BY DEF RoomInv
<1>2. setup' = setup  BY DEF Next, vars
<1>3. daemon'.pc = "sleep" /\ daemon'.time = NANO  BY DEF Undisturbed
<1>4. CASE \E p \in CPUs : Receive(p) \/ Handle(p)
  <2>1. daemon' = daemon  BY <1>1, <1>2, <1>4, PacketStep
  <2>. QED  BY <1>2, <1>4, <2>1 DEF Undisturbed
<1>5. ~Wake  BY <1>3 DEF Wake
<1>6. ~\E e \in Elems : DeleteStale(e)  BY <1>3 DEF DeleteStale
<1>7. ASSUME Sleep PROVE FALSE
  <2>1. daemon.pc = "scan" /\ now = NANO  BY <1>3, <1>7 DEF Sleep
  <2>2. SleepSecs \in Nat \ {0} /\ NANO \in Nat \ {0}
    BY <1>1, SetupType, NumbersAssumption DEF Typed
  <2>3. NANO <= NANO - SleepSecs * NANO  BY <1>1, <2>1 DEF Clocked, Base
  <2>4. 1 <= SleepSecs /\ 1 \in Int /\ SleepSecs \in Int  BY <2>2
  <2>5. NANO * 1 <= NANO * SleepSecs  BY <2>2, <2>4, ProductMono
  <2>6. SleepSecs * NANO = NANO * SleepSecs /\ NANO * SleepSecs \in Nat  BY <2>2
  <2>. QED  BY <2>2, <2>3, <2>5, <2>6
<1>8. CASE Tick \/ UNCHANGED vars
  <2>1. daemon' = daemon  BY <1>8 DEF Tick, vars
  <2>2. /\ key' = key /\ cpu' = cpu /\ count' = count /\ recv' = recv /\ drop' = drop
        /\ syns' = syns /\ accepted' = accepted /\ passed' = passed
    BY <1>8 DEF Tick, vars, map, seen
  <2>. QED  BY <1>2, <2>1, <2>2 DEF Undisturbed
<1>. QED  BY <1>4, <1>5, <1>6, <1>7, <1>8 DEF Next

LEMMA RateNext == RateInv /\ [Next]_vars => RateInv'
<1>. SUFFICES ASSUME RateInv, [Next]_vars PROVE RateInv'  OBVIOUS
<1>1. RoomInv /\ RoomInv'  BY RoomNext DEF RateInv
<1>. SUFFICES ASSUME Undisturbed' PROVE CwRight' /\ Counted' /\ OneInv' /\ TwoInv'
  BY <1>1 DEF RateInv
<1>2. Undisturbed /\ setup' = setup  BY <1>1, StillUndisturbed
<1>3. CwRight /\ Counted /\ OneInv /\ TwoInv  BY <1>2 DEF RateInv
<1>4. ASSUME NEW p \in CPUs, Receive(p) \/ Handle(p)
      PROVE  CwRight' /\ Counted' /\ OneInv' /\ TwoInv'
  BY <1>1, <1>2, <1>3, <1>4, CwRightStep, CountedStep, OneStep, TwoStep
<1>5. CASE /\ key' = key /\ cpu' = cpu /\ count' = count /\ recv' = recv /\ drop' = drop
           /\ syns' = syns /\ accepted' = accepted /\ passed' = passed
  <2>1. MaxTime' = MaxTime /\ Quota' = Quota  BY <1>2 DEF MaxTime, Quota, Rate
  <2>2. CwRight'  BY <1>3, <1>5 DEF CwRight, Window
  <2>3. Counted'  BY <1>3, <1>5, <2>1 DEF Counted
  <2>4. OneInv'  BY <1>2, <1>3, <1>5, <2>1 DEF OneInv, OneCounts, OneAccounts
  <2>5. ASSUME NEW p \in CPUs, NEW e \in Elems PROVE Stand(p, e)' = Stand(p, e)
    BY <1>2, <1>5, StandSame
  <2>6. TwoInv'  BY <1>2, <1>3, <1>5, <2>1, <2>5 DEF TwoInv, Potential
  <2>. QED  BY <2>2, <2>3, <2>4, <2>6
<1>. QED  BY <1>1, <1>4, <1>5, StillUndisturbed

LEMMA RateInductive == Spec => []RateInv
BY InitRate, RateNext, PTL DEF Spec

(* What of the setup's CPUs can be in flight. *)
LEMMA InFlightOne ==
    ASSUME Typed, NEW p \in CPUs, setup.cpus = {p}, NEW s, "idle" \notin s
    PROVE  /\ cpu[p].pc \in s => InFlight(s) = 1
           /\ cpu[p].pc \notin s => InFlight(s) = 0
<1>1. \A q \in CPUs : q # p => cpu[q].pc = "idle"  BY DEF Typed
<1>2. ASSUME cpu[p].pc \in s PROVE InFlight(s) = 1
  <2>1. {q \in CPUs : cpu[q].pc \in s} = {p}  BY <1>1, <1>2
  <2>2. Cardinality({p}) = 1  BY FS_Singleton
  <2>. QED  BY <2>1, <2>2 DEF InFlight
<1>3. ASSUME cpu[p].pc \notin s PROVE InFlight(s) = 0
  <2>1. {q \in CPUs : cpu[q].pc \in s} = {}  BY <1>1, <1>3
  <2>. QED  BY <2>1, FS_EmptySet DEF InFlight
<1>. QED  BY <1>2, <1>3

LEMMA OneKept == RateInv => RateKept
<1>. SUFFICES ASSUME RateInv, Undisturbed, Cardinality(setup.cpus) = 1
              PROVE  /\ \A t \in 0 .. MaxTime : accepted[t] <= Quota
                     /\ syns = recv + InFlight({"recv", "recv store"})
                     /\ recv = passed + drop
                               + InFlight({"create", "lookup", "check", "inc", "inc store",
                                           "drop", "drop store"})
  BY DEF RateKept
<1>1. Typed /\ Counted /\ OneInv  BY DEF RateInv, RoomInv
<1>2. PICK p : setup.cpus = {p}
  <2>1. setup.cpus \subseteq CPUs  BY <1>1, SetupType DEF Typed
  <2>2. IsFiniteSet(setup.cpus)  BY <2>1, SetsAssumption, FS_Subset
  <2>. QED  BY <2>2, FS_Singleton
<1>3. p \in CPUs  BY <1>1, <1>2, SetupType DEF Typed
<1>4. OneCounts(p) /\ OneAccounts(p)  BY <1>1, <1>2, <1>3 DEF OneInv
<1>5. recv \in Nat /\ drop \in Nat /\ syns \in Nat /\ passed \in Nat /\ Quota \in Nat
  BY <1>1, QuotaFacts DEF Typed, TypeOK
<1>6. ASSUME NEW t \in 0 .. MaxTime PROVE accepted[t] <= Quota
  <2>1. CASE accepted[t] = 0  BY <1>5, <2>1
  <2>2. CASE accepted[t] # 0
    <3>1. PICK e \in Elems : key[e] = t  BY <1>1, <2>2 DEF Counted
    <3>2. key[e] # None  BY <3>1, NoneAssumption
    <3>. QED  BY <1>4, <3>1, <3>2 DEF OneCounts
  <2>. QED  BY <2>1, <2>2
<1>. DEFINE first == {"recv", "recv store"}
            later == {"create", "lookup", "check", "inc", "inc store", "drop", "drop store"}
<1>7. /\ cpu[p].pc \in first => InFlight(first) = 1
      /\ cpu[p].pc \notin first => InFlight(first) = 0
      /\ cpu[p].pc \in later => InFlight(later) = 1
      /\ cpu[p].pc \notin later => InFlight(later) = 0
  BY <1>1, <1>2, <1>3, InFlightOne
<1>8. cpu[p].pc \in later <=> cpu[p].pc \notin {"idle", "recv", "recv store"}
  <2>1. cpu[p].pc \in Steps  BY <1>1, <1>3, PacketFields DEF Typed, TypeOK
  <2>. QED  BY <2>1 DEF Steps
<1>9. syns = recv + InFlight(first)
  <2>1. CASE cpu[p].pc \in first
    <3>1. InFlight(first) = 1 /\ syns = recv + 1  BY <1>4, <1>7, <2>1 DEF OneAccounts
    <3>. QED  BY <3>1
  <2>2. CASE cpu[p].pc \notin first
    <3>1. InFlight(first) = 0 /\ syns = recv  BY <1>4, <1>7, <2>2 DEF OneAccounts
    <3>2. recv + 0 = recv  BY <1>5
    <3>. QED  BY <3>1, <3>2, Zenon
  <2>. QED  BY <2>1, <2>2
<1>10. recv = passed + drop + InFlight(later)
  <2>1. CASE cpu[p].pc \in later
    <3>1. InFlight(later) = 1 /\ recv = passed + drop + 1  BY <1>4, <1>7, <1>8, <2>1 DEF OneAccounts
    <3>. QED  BY <3>1
  <2>2. CASE cpu[p].pc \notin later
    <3>1. InFlight(later) = 0 /\ recv = passed + drop  BY <1>4, <1>7, <1>8, <2>2 DEF OneAccounts
    <3>2. passed + drop + 0 = passed + drop  BY <1>5
    <3>. QED  BY <3>1, <3>2, Zenon
  <2>. QED  BY <2>1, <2>2
<1>. QED  BY <1>6, <1>9, <1>10

(* On one CPU, and until the daemon wakes, no window accepts more than the *)
(* rate, whatever the rate and whatever the windows before it counted, and *)
(* the counts of received and dropped SYNs are exact.                      *)
THEOREM OneCPUKeepsRate == Spec => []RateKept
BY RateInductive, OneKept, PTL

LEMMA TwoKept == RateInv => RateKeptByTwo
<1>. SUFFICES ASSUME RateInv, Undisturbed, Cardinality(setup.cpus) = 2, NEW t \in 0 .. MaxTime
              PROVE  2 * accepted[t] <= Quota * (Quota + 3)
  BY DEF RateKeptByTwo
<1>1. Typed /\ Counted /\ TwoInv  BY DEF RateInv, RoomInv
<1>2. setup.cpus \subseteq CPUs /\ IsFiniteSet(setup.cpus)
  <2>1. setup.cpus \subseteq CPUs  BY <1>1, SetupType DEF Typed
  <2>. QED  BY <2>1, SetsAssumption, FS_Subset
<1>3. PICK p : p \in setup.cpus
  <2>1. setup.cpus # {}  BY <1>2, FS_EmptySet
  <2>. QED  BY <2>1
<1>4. IsFiniteSet(setup.cpus \ {p}) /\ Cardinality(setup.cpus \ {p}) = 1
  BY <1>2, <1>3, FS_RemoveElement
<1>5. PICK q : setup.cpus \ {p} = {q}  BY <1>4, FS_Singleton
<1>6. p \in CPUs /\ q \in CPUs /\ p # q /\ setup.cpus = {p, q}  BY <1>2, <1>3, <1>5
<1>7. Quota \in Nat /\ accepted[t] \in Nat  BY <1>1, QuotaFacts DEF Typed, TypeOK
<1>8. Quota * (Quota + 3) \in Nat  BY <1>7
<1>9. CASE accepted[t] = 0  BY <1>8, <1>9
<1>10. CASE accepted[t] # 0
  <2>1. PICK e \in Elems : key[e] = t  BY <1>1, <1>10 DEF Counted
  <2>2. key[e] # None  BY <2>1, NoneAssumption
  <2>. DEFINE g == Potential(Quota, Stand(p, e), Stand(q, e))
  <2>3. 2 * accepted[t] + g <= Quota * (Quota + 3)  BY <1>1, <1>6, <2>1, <2>2 DEF TwoInv
  <2>4. g \in Nat
    <3>1. Stand(p, e) \in 0 .. Quota /\ Stand(q, e) \in 0 .. Quota  BY <1>1, <1>6, StandRange
    <3>. QED  BY <1>7, <3>1, PotentialNat
  <2>. HIDE DEF g
  <2>. QED  BY <1>7, <1>8, <2>3, <2>4
<1>. QED  BY <1>9, <1>10

(* On two CPUs that count without locks or atomic operations, and until    *)
(* the daemon wakes, no window accepts more than Quota * (Quota + 3) / 2   *)
(* connections, whatever the rate and the interleaving.                    *)
THEOREM TwoCPUsKeepBound == Spec => []RateKeptByTwo
BY RateInductive, TwoKept, PTL
=============================================================================
