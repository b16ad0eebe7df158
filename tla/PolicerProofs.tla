--------------------------- MODULE PolicerProofs ---------------------------
(***************************************************************************)
(* Proofs about Policer, for every policer, any number of CPUs and any     *)
(* order in which they take the lock.                                      *)
(***************************************************************************)
EXTENDS Policer, TLAPS

LEMMA SetupType ==
    ASSUME NEW s \in Setups
    PROVE  /\ s.pol.cbs \in Nat /\ s.pol.ebs \in Nat
           /\ s.pol.toksc_pus \in Nat /\ s.pol.tokse_pus \in Nat
           /\ s.cpus \subseteq CPUs /\ s.lengths \subseteq Nat
BY PolAssumption

(* The remainder of an integer is a natural number: what is accrued does   *)
(* not become negative, whatever the two timestamps are.                   *)
LEMMA AccruedType ==
    ASSUME NEW b, b.last \in Nat, NEW rate \in Nat, NEW ts \in Nat
    PROVE  Accrued(b, rate, ts) \in Nat
<1>1. WORD \in Nat \ {0} /\ NSECS_IN_USEC \in Nat \ {0}  BY NumbersAssumption
<1>2. ts - b.last \in Int  OBVIOUS
<1>3. (ts - b.last) % WORD \in Nat  BY <1>1, <1>2
<1>4. ((ts - b.last) % WORD) \div NSECS_IN_USEC \in Nat  BY <1>1, <1>3
<1>5. rate * (((ts - b.last) % WORD) \div NSECS_IN_USEC) \in Nat  BY <1>4
<1>. QED  BY <1>1, <1>5 DEF Accrued

(* A refill keeps a bucket within its size. *)
LEMMA RefillType ==
    ASSUME NEW size \in Nat, NEW b \in Bucket(size), NEW rate \in Nat, NEW ts \in Nat
    PROVE  Refill(b, size, rate, ts) \in Bucket(size)
<1>1. b.tok \in 0 .. size /\ b.last \in Nat  BY DEF Bucket
<1>2. Accrued(b, rate, ts) \in Nat  BY <1>1, AccruedType
<1>3. Accrued(b, rate, ts) = 0 => Refill(b, size, rate, ts) = b  BY DEF Refill
<1>4. ASSUME Accrued(b, rate, ts) # 0
      PROVE  Refill(b, size, rate, ts) \in Bucket(size)
  <2>. DEFINE acc == Accrued(b, rate, ts)
              room == IF size > b.tok THEN size - b.tok ELSE 0
  <2>1. Refill(b, size, rate, ts)
            = [tok |-> b.tok + (IF acc > room THEN room ELSE acc), last |-> ts]
    BY <1>4 DEF Refill
  <2>2. b.tok + (IF acc > room THEN room ELSE acc) \in 0 .. size
    BY <1>1, <1>2
  <2>. QED  BY <2>1, <2>2 DEF Bucket
<1>. QED  BY <1>3, <1>4

(* Neither charge is more than the bucket holds. *)
LEMMA ChargeBounds ==
    ASSUME NEW x, x.len \in Nat, NEW tokc \in Nat, NEW toke \in Nat
    PROVE  /\ ChargeC(x, tokc, toke) \in 0 .. tokc
           /\ ChargeE(x, tokc, toke) \in 0 .. toke
BY DEF ChargeC, ChargeE

LEMMA ChargedType ==
    ASSUME NEW size \in Nat, NEW b \in Bucket(size), NEW n \in 0 .. b.tok
    PROVE  [b EXCEPT !.tok = @ - n] \in Bucket(size)
<1>1. b.tok \in 0 .. size /\ b.last \in Nat /\ b = [tok |-> b.tok, last |-> b.last]  BY DEF Bucket
<1>2. b.tok - n \in 0 .. size  BY <1>1
<1>3. [b EXCEPT !.tok = @ - n] = [tok |-> b.tok - n, last |-> b.last]  BY <1>1
<1>. QED  BY <1>1, <1>2, <1>3 DEF Bucket

-----------------------------------------------------------------------------
LEMMA InitTypes == Init => TypeOK
<1>. SUFFICES ASSUME Init PROVE TypeOK  OBVIOUS
<1>1. setup \in Setups  BY DEF Init
<1>2. pol.cbs \in Nat /\ pol.ebs \in Nat  BY <1>1, SetupType DEF pol
<1>3. c \in Bucket(pol.cbs) /\ e \in Bucket(pol.ebs)  BY <1>2 DEF Init, Bucket
<1>4. now \in 0 .. MaxTime  BY NumbersAssumption DEF Init
<1>5. pkt \in [CPUs -> Packet \cup {Idle, Unknown}]  BY DEF Init
<1>. QED  BY <1>1, <1>3, <1>4, <1>5 DEF TypeOK

LEMMA ArriveTypes ==
    ASSUME TypeOK, NEW p \in setup.cpus, Arrive(p)
    PROVE  TypeOK'
<1>1. setup' = setup /\ now' = now /\ c' = c /\ e' = e  BY DEF Arrive
<1>2. pol' = pol  BY <1>1 DEF pol
<1>3. setup.lengths \subseteq Nat /\ setup.cpus \subseteq CPUs  BY SetupType DEF TypeOK
<1>4. PICK len \in setup.lengths, icol \in IF pol.color_aware THEN NONE .. RED ELSE {NONE} :
          pkt' \in {[pkt EXCEPT ![p] = x] :
                        x \in {[pc |-> "lock", ts |-> now, len |-> len, icol |-> icol], Unknown}}
  BY DEF Arrive
<1>5. icol \in NONE .. RED  BY <1>4 DEF NONE, RED
<1>6. now \in Nat  BY NumbersAssumption DEF TypeOK
<1>7. [pc |-> "lock", ts |-> now, len |-> len, icol |-> icol] \in Packet
  BY <1>3, <1>5, <1>6 DEF Packet
<1>8. PICK x \in Packet \cup {Unknown} : pkt' = [pkt EXCEPT ![p] = x]
  BY <1>4, <1>7
<1>9. pkt' \in [CPUs -> Packet \cup {Idle, Unknown}]  BY <1>3, <1>8 DEF TypeOK
<1>. QED  BY <1>1, <1>2, <1>9 DEF TypeOK

LEMMA PoliceTypes ==
    ASSUME TypeOK, NEW p \in setup.cpus, Police(p)
    PROVE  TypeOK'
<1>. DEFINE x == pkt[p]
            c1 == Refill(c, pol.cbs, pol.toksc_pus, x.ts)
            e1 == Refill(e, pol.ebs, pol.tokse_pus, x.ts)
<1>1. setup' = setup /\ now' = now /\ pkt' = [pkt EXCEPT ![p] = Idle] /\ x.pc = "lock"
  BY DEF Police
<1>2. pol' = pol  BY <1>1 DEF pol
<1>3. /\ pol.cbs \in Nat /\ pol.ebs \in Nat /\ pol.toksc_pus \in Nat /\ pol.tokse_pus \in Nat
      /\ setup.cpus \subseteq CPUs
  BY SetupType DEF TypeOK, pol
<1>4. x \in Packet
  <2>1. x \in Packet \cup {Idle, Unknown}  BY <1>3 DEF TypeOK
  <2>2. x # Idle /\ x # Unknown  BY <1>1 DEF Idle, Unknown
  <2>. QED  BY <2>1, <2>2
<1>5. x.ts \in Nat /\ x.len \in Nat  BY <1>4 DEF Packet
<1>6. c1 \in Bucket(pol.cbs) /\ e1 \in Bucket(pol.ebs)
  BY <1>3, <1>5, RefillType DEF TypeOK
<1>7. c1.tok \in Nat /\ e1.tok \in Nat  BY <1>3, <1>6 DEF Bucket
<1>8. /\ ChargeC(x, c1.tok, e1.tok) \in 0 .. c1.tok
      /\ ChargeE(x, c1.tok, e1.tok) \in 0 .. e1.tok
  BY <1>5, <1>7, ChargeBounds
<1>9. c' = [c1 EXCEPT !.tok = @ - ChargeC(x, c1.tok, e1.tok)]
      /\ e' = [e1 EXCEPT !.tok = @ - ChargeE(x, c1.tok, e1.tok)]
  BY DEF Police
<1>10. c' \in Bucket(pol.cbs) /\ e' \in Bucket(pol.ebs)
  <2>. HIDE DEF c1, e1, x
  <2>. QED  BY <1>3, <1>6, <1>8, <1>9, ChargedType
<1>11. pkt' \in [CPUs -> Packet \cup {Idle, Unknown}]  BY <1>1, <1>3 DEF TypeOK
<1>. QED  BY <1>1, <1>2, <1>10, <1>11 DEF TypeOK

LEMMA StepTypes == TypeOK /\ [Next]_vars => TypeOK'
<1>. SUFFICES ASSUME TypeOK, [Next]_vars PROVE TypeOK'  OBVIOUS
<1>1. ASSUME NEW p \in setup.cpus, Arrive(p) PROVE TypeOK'  BY <1>1, ArriveTypes
<1>2. ASSUME NEW p \in setup.cpus, NotPoliced(p) PROVE TypeOK'
  <2>1. setup' = setup /\ now' = now /\ c' = c /\ e' = e /\ pkt' = [pkt EXCEPT ![p] = Idle]
    BY <1>2 DEF NotPoliced
  <2>2. pkt' \in [CPUs -> Packet \cup {Idle, Unknown}]  BY <2>1 DEF TypeOK
  <2>. QED  BY <2>1, <2>2 DEF TypeOK, pol
<1>3. ASSUME NEW p \in setup.cpus, Police(p) PROVE TypeOK'  BY <1>3, PoliceTypes
<1>4. CASE Tick
  <2>1. setup' = setup /\ now' = now + 1 /\ now < MaxTime /\ c' = c /\ e' = e /\ pkt' = pkt
    BY <1>4 DEF Tick
  <2>2. now' \in 0 .. MaxTime  BY <2>1, NumbersAssumption DEF TypeOK
  <2>. QED  BY <2>1, <2>2 DEF TypeOK, pol
<1>5. CASE UNCHANGED vars  BY <1>5 DEF vars, TypeOK, pol
<1>. QED  BY <1>1, <1>2, <1>3, <1>4, <1>5 DEF Next

(* do_dp_policer never leaves more tokens in a bucket than its size and    *)
(* never takes more than it holds, for every rate, burst size and packet   *)
(* length, and also when the timestamps that CPUs bring to the lock are    *)
(* out of order and their difference wraps.                                *)
THEOREM BucketsBounded == Spec => []TypeOK
<1>1. Init => TypeOK  BY InitTypes
<1>2. TypeOK /\ [Next]_vars => TypeOK'  BY StepTypes
<1>. QED  BY <1>1, <1>2, PTL DEF Spec

-----------------------------------------------------------------------------
(* Arithmetic of the meter. *)

LEMMA ProductMono ==
    ASSUME NEW n \in Nat, NEW x \in Int, NEW y \in Int, x <= y
    PROVE  n * x \in Int /\ n * y \in Int /\ n * x <= n * y
<1>1. y - x \in Nat  OBVIOUS
<1>2. n * (y - x) \in Nat  BY <1>1
<1>3. n * (y - x) = n * y - n * x  OBVIOUS
<1>. QED  BY <1>2, <1>3

LEMMA DivFacts ==
    ASSUME NEW n \in Nat \ {0}, NEW a \in Int
    PROVE  a \div n \in Int /\ n * (a \div n) <= a /\ a < n * (a \div n) + n
OBVIOUS

LEMMA DivGreatest ==
    ASSUME NEW n \in Nat \ {0}, NEW a \in Int, NEW q \in Int, n * q <= a
    PROVE  q <= a \div n
<1>. DEFINE d == a \div n
<1>1. d \in Int /\ n * d <= a /\ a < n * d + n  BY DivFacts
<1>. HIDE DEF d
<1>. SUFFICES ASSUME d + 1 <= q PROVE FALSE  BY <1>1 DEF d
<1>2. n * (d + 1) <= n * q  BY <1>1, ProductMono
<1>3. n * (d + 1) = n * d + n  BY <1>1
<1>. QED  BY <1>1, <1>2, <1>3

(* Truncating twice gives no more than truncating once. *)
LEMMA DivSum ==
    ASSUME NEW n \in Nat \ {0}, NEW a \in Int, NEW b \in Int
    PROVE  (a \div n) + (b \div n) <= (a + b) \div n
<1>. DEFINE x == a \div n
            y == b \div n
<1>1. x \in Int /\ y \in Int /\ n * x <= a /\ n * y <= b  BY DivFacts
<1>. HIDE DEF x, y
<1>2. n * (x + y) = n * x + n * y  BY <1>1
<1>3. n * (x + y) <= a + b  BY <1>1, <1>2
<1>4. x + y <= (a + b) \div n  BY <1>1, <1>3, DivGreatest
<1>. QED  BY <1>4 DEF x, y

(* A refill, if anything is due, counts more than half of the time. *)
LEMMA HalfCounted ==
    ASSUME NEW n \in Nat \ {0}, NEW rate \in Nat, NEW d \in Nat, rate * (d \div n) # 0
    PROVE  d * rate <= 2 * n * (rate * (d \div n))
<1>. DEFINE q == d \div n
<1>1. q \in Int /\ n * q <= d /\ d < n * q + n  BY DivFacts
<1>2. rate * q # 0  OBVIOUS
<1>3. 0 <= q  BY DivGreatest
<1>. HIDE DEF q
<1>4. 1 <= q  BY <1>1, <1>2, <1>3
<1>5. n * 1 <= n * q  BY <1>1, <1>4, ProductMono
<1>6. n * q \in Int /\ d <= 2 * (n * q)  BY <1>1, <1>5
<1>7. rate * d <= rate * (2 * (n * q))  BY <1>6, ProductMono
<1>8. rate * (2 * (n * q)) = 2 * n * (rate * q)  BY <1>1
<1>9. rate * d = d * rate  OBVIOUS
<1>. QED  BY <1>7, <1>8, <1>9 DEF q

-----------------------------------------------------------------------------
(* When the lock is taken in order nothing wraps, and a refill either      *)
(* leaves the bucket alone, because nothing is due, or brings its time up  *)
(* to date with what is due as far as there is room for it.                *)
LEMMA RefillInOrder ==
    ASSUME NEW size \in Nat, NEW b \in Bucket(size), NEW rate \in Nat, NEW ts \in 0 .. MaxTime,
           b.last <= ts, rate * MaxTime < WORD
    PROVE  LET due == rate * ((ts - b.last) \div NSECS_IN_USEC)
               b1 == Refill(b, size, rate, ts)
           IN  /\ due \in Nat
               /\ \/ due = 0 /\ b1 = b
                  \/ /\ due # 0 /\ b1.last = ts /\ b1.tok <= b.tok + due
                     /\ b1.tok = size \/ b1.tok = b.tok + due
<1>. DEFINE n == NSECS_IN_USEC
            d == ts - b.last
            q == d \div n
            due == rate * q
<1>1. /\ n \in Nat \ {0} /\ WORD \in Nat \ {0} /\ MaxTime \in Nat /\ MaxTime < WORD
      /\ b.tok \in 0 .. size /\ b.last \in Nat
  BY NumbersAssumption, WordAssumption DEF Bucket
<1>2. d \in Nat /\ d <= MaxTime  BY <1>1
<1>3. d % WORD = d
  <2>. HIDE DEF d
  <2>. QED  BY <1>1, <1>2
<1>4. q \in Nat /\ q <= MaxTime
  <2>. HIDE DEF d
  <2>1. q \in Int /\ n * q <= d  BY <1>1, <1>2, DivFacts
  <2>2. 0 <= q  BY <1>1, <1>2, DivGreatest
  <2>. HIDE DEF q, n
  <2>3. q * 1 <= q * n  BY <1>1, <2>1, <2>2, ProductMono
  <2>. QED  BY <1>1, <1>2, <2>1, <2>2, <2>3
<1>5. due \in Nat /\ due < WORD
  <2>. HIDE DEF q
  <2>1. rate * q <= rate * MaxTime  BY <1>1, <1>4, ProductMono
  <2>. QED  BY <1>1, <1>4, <2>1
<1>6. due % WORD = due
  <2>. HIDE DEF due
  <2>. QED  BY <1>1, <1>5
<1>7. Accrued(b, rate, ts) = due  BY <1>3, <1>6 DEF Accrued
<1>8. CASE due = 0
  <2>1. Refill(b, size, rate, ts) = b  BY <1>7, <1>8 DEF Refill
  <2>. QED  BY <1>5, <1>8, <2>1
<1>9. CASE due # 0
  <2>. DEFINE room == IF size > b.tok THEN size - b.tok ELSE 0
              tok1 == b.tok + (IF due > room THEN room ELSE due)
  <2>1. Refill(b, size, rate, ts) = [tok |-> tok1, last |-> ts]  BY <1>7, <1>9 DEF Refill
  <2>. HIDE DEF due
  <2>2. tok1 <= b.tok + due /\ (tok1 = size \/ tok1 = b.tok + due)  BY <1>1, <1>5
  <2>. HIDE DEF tok1
  <2>3. /\ Refill(b, size, rate, ts).tok = tok1 /\ Refill(b, size, rate, ts).last = ts
    BY <2>1
  <2>. QED  BY <1>5, <1>9, <2>2, <2>3 DEF due
<1>. QED  BY <1>8, <1>9

-----------------------------------------------------------------------------
(* The strengthening of HalfRate and ColoursConform.  A bucket was last    *)
(* refilled at the timestamp of a packet that was metered, no timestamp is *)
(* in the future, and the slow bucket is not above its size.               *)
Entry == [ts : Nat, len : Nat, col : NONE .. RED, dropped : BOOLEAN, green : Nat, passed : Nat]
LastMetered(b) == b.last = 0 \/ \E i \in DOMAIN done : done[i].ts = b.last
Timely == \A p \in CPUs : pkt[p].pc = "lock" => pkt[p].ts <= now
SlowBounded == slow \in Int /\ slow <= 2 * NSECS_IN_USEC * pol.cbs

MeterTypes ==
    /\ TypeOK
    /\ done \in Seq(Entry)
    /\ LastMetered(c) /\ LastMetered(e)
    /\ Timely /\ SlowBounded

(* What was handed out since packet i and what is left, against the size   *)
(* and what the time up to the last refill is worth, from one microsecond  *)
(* before packet i.                                                        *)
Worth(rate, last, ts) == rate * ((last - ts + NSECS_IN_USEC - 1) \div NSECS_IN_USEC)
Balance ==
    InOrder => \A i \in DOMAIN done :
        /\ GreenBytes(i, Len(done)) + c.tok <= pol.cbs + Worth(pol.toksc_pus, c.last, done[i].ts)
        /\ PassedBytes(i, Len(done)) + e.tok <= pol.ebs + Worth(pol.tokse_pus, e.last, done[i].ts)

MeterInv == MeterTypes /\ Balance /\ HalfRate /\ ColoursConform

LEMMA WorthType ==
    ASSUME NEW rate \in Nat, NEW last \in Int, NEW ts \in Int
    PROVE  Worth(rate, last, ts) \in Int
<1>1. NSECS_IN_USEC \in Nat \ {0}  BY NumbersAssumption
<1>2. (last - ts + NSECS_IN_USEC - 1) \div NSECS_IN_USEC \in Int  BY <1>1
<1>. QED  BY <1>2 DEF Worth

(* A refill adds no more than the time since the last one is worth. *)
LEMMA WorthGrows ==
    ASSUME NEW rate \in Nat, NEW last \in Int, NEW ts \in Int, NEW t \in Int
    PROVE  Worth(rate, last, t) + rate * ((ts - last) \div NSECS_IN_USEC) <= Worth(rate, ts, t)
<1>. DEFINE n == NSECS_IN_USEC
            a == last - t + n - 1
            b == ts - last
            x == a \div n
            y == b \div n
            z == (a + b) \div n
<1>1. n \in Nat \ {0}  BY NumbersAssumption
<1>2. a \in Int /\ b \in Int /\ a + b = ts - t + n - 1  BY <1>1
<1>3. x \in Int /\ y \in Int /\ z \in Int /\ x + y <= z
  <2>. HIDE DEF a, b
  <2>. QED  BY <1>1, <1>2, DivSum, DivFacts
<1>4. Worth(rate, last, t) = rate * x /\ Worth(rate, ts, t) = rate * z
  BY <1>2 DEF Worth
<1>5. rate * (x + y) <= rate * z /\ rate * (x + y) = rate * x + rate * y
  <2>. HIDE DEF x, y, z
  <2>. QED  BY <1>3, ProductMono
<1>6. rate * x \in Int /\ rate * y \in Int /\ rate * z \in Int
  <2>. HIDE DEF x, y, z
  <2>. QED  BY <1>3
<1>. QED  BY <1>4, <1>5, <1>6

(* Of the packet just metered: nothing is due, so nothing is owed. *)
LEMMA WorthFresh ==
    ASSUME NEW rate \in Nat, NEW last \in Int, NEW ts \in Int, last <= ts,
           last = ts \/ rate * ((ts - last) \div NSECS_IN_USEC) = 0
    PROVE  0 <= Worth(rate, last, ts)
<1>. DEFINE n == NSECS_IN_USEC
            a == last - ts + n - 1
            d == ts - last
<1>1. n \in Nat \ {0}  BY NumbersAssumption
<1>2. CASE rate = 0
  <2>1. a \div n \in Int  BY <1>1
  <2>. QED  BY <1>2, <2>1 DEF Worth
<1>3. CASE rate # 0
  <2>1. d < n
    <3>1. CASE last = ts  BY <1>1, <3>1
    <3>2. CASE last # ts
      <4>1. d \in Nat  OBVIOUS
      <4>2. rate * (d \div n) = 0  BY <3>2
      <4>3. d \div n \in Int /\ d < n * (d \div n) + n
        <5>. HIDE DEF d
        <5>. QED  BY <1>1, <4>1, DivFacts
      <4>. HIDE DEF d
      <4>4. d \div n = 0  BY <1>3, <4>2, <4>3
      <4>. QED  BY <1>1, <4>1, <4>3, <4>4
    <3>. QED  BY <3>1, <3>2
  <2>2. a \in Int /\ 0 <= a  BY <1>1, <2>1
  <2>3. 0 <= a \div n
    <3>. HIDE DEF a
    <3>. QED  BY <1>1, <2>2, DivGreatest
  <2>4. a \div n \in Nat
    <3>. HIDE DEF a
    <3>. QED  BY <1>1, <2>2, <2>3
  <2>5. rate * (a \div n) \in Nat  BY <2>4
  <2>. QED  BY <2>5 DEF Worth
<1>. QED  BY <1>2, <1>3

LEMMA WorthAllowed ==
    ASSUME NEW rate \in Nat, NEW last \in Int, NEW ts \in Int, NEW t \in Int, last <= ts
    PROVE  Worth(rate, last, t) <= rate * ((ts - t) \div NSECS_IN_USEC + 1)
<1>. DEFINE n == NSECS_IN_USEC
            a == last - t + n - 1
            b == ts - t
            q == b \div n
<1>1. n \in Nat \ {0}  BY NumbersAssumption
<1>2. a \in Int /\ b \in Int /\ a < b + n  BY <1>1
<1>3. a \div n \in Int /\ n * (a \div n) <= a /\ q \in Int /\ b < n * q + n
  <2>. HIDE DEF a, b
  <2>. QED  BY <1>1, <1>2, DivFacts
<1>4. a \div n <= q + 1
  <2>. DEFINE x == a \div n
  <2>. HIDE DEF a, b, q, x
  <2>1. SUFFICES ASSUME q + 2 <= x PROVE FALSE  BY <1>3 DEF x
  <2>2. n * (q + 2) <= n * x  BY <1>1, <1>3, <2>1, ProductMono DEF x
  <2>3. n * (q + 2) = n * q + n + n  BY <1>1, <1>3
  <2>4. n * q \in Int /\ n * x \in Int  BY <1>1, <1>3 DEF x
  <2>. QED  BY <1>1, <1>2, <1>3, <2>2, <2>3, <2>4 DEF x
<1>5. rate * (a \div n) <= rate * (q + 1)
  <2>. HIDE DEF a, q
  <2>. QED  BY <1>3, <1>4, ProductMono
<1>. QED  BY <1>5 DEF Worth

-----------------------------------------------------------------------------
(* A green packet was charged to the committed bucket, and one that is not *)
(* red to the excess bucket.                                               *)
LEMMA ColourCharged ==
    ASSUME NEW x \in Packet, NEW tokc \in Nat, NEW toke \in Nat
    PROVE  /\ Colour(x, tokc, toke) \in NONE .. RED
           /\ Colour(x, tokc, toke) = GREEN => ChargeC(x, tokc, toke) = x.len
           /\ Colour(x, tokc, toke) \in {GREEN, YELLOW} => ChargeE(x, tokc, toke) = x.len
<1>1. x.icol \in NONE .. RED /\ x.len \in Nat  BY DEF Packet
<1>2. CASE ~Metered(x)
  <2>1. Colour(x, tokc, toke) = x.icol /\ x.icol \in {NONE, RED}  BY <1>2 DEF Colour, Metered
  <2>. QED  BY <1>1, <2>1 DEF NONE, GREEN, YELLOW, RED
<1>3. CASE Metered(x) /\ toke < x.len
  <2>1. Colour(x, tokc, toke) = RED  BY <1>3 DEF Colour
  <2>. QED  BY <2>1 DEF NONE, GREEN, YELLOW, RED
<1>4. CASE Metered(x) /\ ~(toke < x.len)
  <2>1. Colour(x, tokc, toke)
          = IF tokc < x.len
            THEN IF pol.color_aware /\ x.icol # GREEN THEN x.icol ELSE YELLOW
            ELSE IF pol.color_aware THEN x.icol ELSE GREEN
    BY <1>4 DEF Colour
  <2>2. Metered(x) /\ toke >= x.len  BY <1>1, <1>4
  <2>3. ChargeE(x, tokc, toke) = x.len  BY <2>2 DEF ChargeE
  <2>4. CASE tokc < x.len
    BY <1>1, <2>1, <2>3, <2>4 DEF NONE, GREEN, YELLOW, RED
  <2>5. CASE ~(tokc < x.len)
    <3>1. ChargeC(x, tokc, toke) = x.len  BY <1>1, <2>2, <2>5 DEF ChargeC
    <3>. QED  BY <1>1, <2>1, <2>3, <2>5, <3>1 DEF NONE, GREEN, YELLOW, RED
  <2>. QED  BY <2>4, <2>5
<1>. QED  BY <1>2, <1>3, <1>4

LEMMA ChargedFields ==
    ASSUME NEW b, b = [tok |-> b.tok, last |-> b.last], NEW n
    PROVE  /\ [b EXCEPT !.tok = @ - n].tok = b.tok - n
           /\ [b EXCEPT !.tok = @ - n].last = b.last
<1>1. [b EXCEPT !.tok = @ - n] = [tok |-> b.tok - n, last |-> b.last]  OBVIOUS
<1>. QED  BY <1>1

LEMMA TotalsType ==
    ASSUME done \in Seq(Entry)
    PROVE  /\ Totals.green \in Nat /\ Totals.passed \in Nat
           /\ done # <<>> => /\ Len(done) \in DOMAIN done
                             /\ Totals.green = done[Len(done)].green
                             /\ Totals.passed = done[Len(done)].passed
<1>1. CASE done = <<>>  BY <1>1 DEF Totals
<1>2. CASE done # <<>>
  <2>1. Len(done) \in DOMAIN done /\ done[Len(done)] \in Entry  BY <1>2
  <2>. QED  BY <1>2, <2>1 DEF Totals, Entry
<1>. QED  BY <1>1, <1>2

(* What a packet under the lock does to the buckets and to the totals. *)
LEMMA PoliceEffect ==
    ASSUME TypeOK, done \in Seq(Entry), NEW p \in setup.cpus, Police(p)
    PROVE  LET x == pkt[p]
               c1 == Refill(c, pol.cbs, pol.toksc_pus, x.ts)
               e1 == Refill(e, pol.ebs, pol.tokse_pus, x.ts)
           IN  /\ setup' = setup /\ now' = now /\ pkt' = [pkt EXCEPT ![p] = Idle]
               /\ p \in CPUs /\ x \in Packet /\ x.pc = "lock"
               /\ c1 \in Bucket(pol.cbs) /\ e1 \in Bucket(pol.ebs)
               /\ \E n \in 0 .. c1.tok, m \in 0 .. e1.tok, d \in Entry :
                      /\ c'.tok = c1.tok - n /\ c'.last = c1.last
                      /\ e'.tok = e1.tok - m /\ e'.last = e1.last
                      /\ slow' = slow - 2 * NSECS_IN_USEC * n
                      /\ done' = Append(done, d) /\ d.ts = x.ts
                      /\ Green(d) \in 0 .. n /\ d.green = Totals.green + Green(d)
                      /\ Passed(d) \in 0 .. m /\ d.passed = Totals.passed + Passed(d)
<1>. DEFINE x == pkt[p]
            c1 == Refill(c, pol.cbs, pol.toksc_pus, x.ts)
            e1 == Refill(e, pol.ebs, pol.tokse_pus, x.ts)
            col == Colour(x, c1.tok, e1.tok)
            n == ChargeC(x, c1.tok, e1.tok)
            m == ChargeE(x, c1.tok, e1.tok)
            d0 == [len |-> x.len, col |-> col]
            d == [ts |-> x.ts, len |-> x.len, col |-> col, dropped |-> pol.drop_prio < col,
                  green |-> Totals.green + Green(d0), passed |-> Totals.passed + Passed(d0)]
<1>1. /\ setup' = setup /\ now' = now /\ pkt' = [pkt EXCEPT ![p] = Idle] /\ x.pc = "lock"
      /\ c' = [c1 EXCEPT !.tok = @ - n] /\ e' = [e1 EXCEPT !.tok = @ - m]
      /\ slow' = slow - 2 * NSECS_IN_USEC * n /\ done' = Append(done, d)
  BY DEF Police
<1>2. /\ pol.cbs \in Nat /\ pol.ebs \in Nat /\ pol.toksc_pus \in Nat /\ pol.tokse_pus \in Nat
      /\ p \in CPUs
  BY SetupType DEF TypeOK, pol
<1>3. x \in Packet
  <2>1. x \in Packet \cup {Idle, Unknown}  BY <1>2 DEF TypeOK
  <2>2. x # Idle /\ x # Unknown  BY <1>1 DEF Idle, Unknown
  <2>. QED  BY <2>1, <2>2
<1>4. x.ts \in Nat /\ x.len \in Nat  BY <1>3 DEF Packet
<1>5. c1 \in Bucket(pol.cbs) /\ e1 \in Bucket(pol.ebs)
  BY <1>2, <1>4, RefillType DEF TypeOK
<1>6. /\ c1.tok \in Nat /\ c1.last \in Nat /\ c1 = [tok |-> c1.tok, last |-> c1.last]
      /\ e1.tok \in Nat /\ e1.last \in Nat /\ e1 = [tok |-> e1.tok, last |-> e1.last]
  BY <1>2, <1>5 DEF Bucket
<1>7. n \in 0 .. c1.tok /\ m \in 0 .. e1.tok  BY <1>4, <1>6, ChargeBounds
<1>8. col \in NONE .. RED /\ (col = GREEN => n = x.len) /\ (col \in {GREEN, YELLOW} => m = x.len)
  BY <1>3, <1>6, ColourCharged
<1>9. Green(d0) \in 0 .. n /\ Passed(d0) \in 0 .. m
  <2>. HIDE DEF n, m, col, c1, e1, x
  <2>1. d0.len = x.len /\ d0.col = col  OBVIOUS
  <2>. HIDE DEF d0
  <2>2. n \in Nat /\ m \in Nat  BY <1>6, <1>7
  <2>. QED  BY <1>4, <1>8, <2>1, <2>2 DEF Green, Passed
<1>10. c'.tok = c1.tok - n /\ c'.last = c1.last
  <2>. HIDE DEF n, m, c1, e1, x
  <2>. QED  BY <1>1, <1>6, ChargedFields
<1>11. e'.tok = e1.tok - m /\ e'.last = e1.last
  <2>. HIDE DEF n, m, c1, e1, x
  <2>. QED  BY <1>1, <1>6, ChargedFields
<1>12. /\ d.ts = x.ts /\ Green(d) = Green(d0) /\ Passed(d) = Passed(d0)
       /\ d.green = Totals.green + Green(d0) /\ d.passed = Totals.passed + Passed(d0)
  BY DEF Green, Passed
<1>13. d \in Entry
  <2>1. Totals.green \in Nat /\ Totals.passed \in Nat  BY TotalsType
  <2>2. Green(d0) \in Nat /\ Passed(d0) \in Nat
    <3>. HIDE DEF n, m, d0, c1, e1
    <3>. QED  BY <1>6, <1>7, <1>9
  <2>3. Totals.green + Green(d0) \in Nat /\ Totals.passed + Passed(d0) \in Nat  BY <2>1, <2>2
  <2>. HIDE DEF col, d0, x, c1, e1
  <2>. QED  BY <1>4, <1>8, <2>3 DEF Entry
<1>. HIDE DEF n, m, d, x, c1, e1
<1>14. Green(d) \in 0 .. n /\ Passed(d) \in 0 .. m  BY <1>9, <1>12
<1>15. d.green = Totals.green + Green(d) /\ d.passed = Totals.passed + Passed(d)  BY <1>12
<1>. QED  BY <1>1, <1>2, <1>3, <1>5, <1>7, <1>10, <1>11, <1>12, <1>13, <1>14, <1>15 DEF x, c1, e1

-----------------------------------------------------------------------------
LEMMA InitMeter == Init => MeterInv
<1>. SUFFICES ASSUME Init PROVE MeterInv  OBVIOUS
<1>1. TypeOK  BY InitTypes
<1>2. done = <<>> /\ now = 0 /\ c.last = 0 /\ e.last = 0 /\ slow = 2 * NSECS_IN_USEC * c.tok
  BY DEF Init
<1>3. done \in Seq(Entry) /\ DOMAIN done = {}  BY <1>2
<1>4. pol.cbs \in Nat /\ pol.toksc_pus \in Nat /\ c.tok \in 0 .. pol.cbs
  BY <1>1, SetupType DEF TypeOK, Bucket, pol
<1>5. NSECS_IN_USEC \in Nat  BY NumbersAssumption
<1>6. SlowBounded
  <2>1. 2 * NSECS_IN_USEC \in Nat  BY <1>5
  <2>2. (2 * NSECS_IN_USEC) * c.tok <= (2 * NSECS_IN_USEC) * pol.cbs
        /\ (2 * NSECS_IN_USEC) * c.tok \in Int
    BY <1>4, <2>1, ProductMono
  <2>. QED  BY <1>2, <2>2 DEF SlowBounded
<1>7. Timely  BY DEF Timely, Init, Idle
<1>8. HalfRate  BY <1>2, <1>4, <1>6 DEF HalfRate, SlowBounded
<1>9. Balance /\ ColoursConform  BY <1>3 DEF Balance, ColoursConform
<1>. QED  BY <1>1, <1>2, <1>3, <1>6, <1>7, <1>8, <1>9 DEF MeterInv, MeterTypes, LastMetered

(* The steps outside the lock leave the buckets and the totals alone. *)
LEMMA SameMeter ==
    ASSUME MeterInv, setup' = setup, c' = c, e' = e, done' = done
    PROVE  /\ pol' = pol /\ LastMetered(c)' /\ LastMetered(e)'
           /\ InOrder' = InOrder /\ Balance' /\ ColoursConform'
<1>1. pol' = pol  BY DEF pol
<1>2. InOrder' = InOrder  BY DEF InOrder
<1>3. LastMetered(c)' /\ LastMetered(e)'  BY DEF MeterInv, MeterTypes, LastMetered
<1>4. \A i, j : GreenBytes(i, j)' = GreenBytes(i, j) /\ PassedBytes(i, j)' = PassedBytes(i, j)
  BY DEF GreenBytes, PassedBytes, Green, Passed
<1>5. Balance'  BY <1>1, <1>2, <1>4 DEF MeterInv, Balance, Worth
<1>6. ColoursConform'  BY <1>1, <1>2, <1>4 DEF MeterInv, ColoursConform, Allowed
<1>. QED  BY <1>1, <1>2, <1>3, <1>5, <1>6

LEMMA ArriveMeter ==
    ASSUME MeterInv, NEW p \in setup.cpus, Arrive(p) \/ NotPoliced(p)
    PROVE  MeterInv'
<1>1. setup' = setup /\ now' = now /\ c' = c /\ e' = e /\ done' = done /\ slow' = slow
  BY DEF Arrive, NotPoliced
<1>2. TypeOK'  BY StepTypes DEF MeterInv, MeterTypes, Next
<1>3. /\ pol' = pol /\ LastMetered(c)' /\ LastMetered(e)' /\ InOrder' = InOrder
      /\ Balance' /\ ColoursConform'
  BY <1>1, SameMeter
<1>4. HalfRate' /\ SlowBounded' /\ (done \in Seq(Entry))'
  BY <1>1, <1>3 DEF MeterInv, MeterTypes, HalfRate, SlowBounded
<1>5. Timely'
  <2>1. now \in Nat /\ pkt \in [CPUs -> Packet \cup {Idle, Unknown}] /\ Timely
    BY NumbersAssumption DEF MeterInv, MeterTypes, TypeOK
  <2>2. PICK x : pkt' = [pkt EXCEPT ![p] = x] /\ (x.pc = "lock" => x.ts = now)
    <3>1. CASE Arrive(p)
      <4>1. PICK len, icol :
                pkt' \in {[pkt EXCEPT ![p] = x] :
                    x \in {[pc |-> "lock", ts |-> now, len |-> len, icol |-> icol], Unknown}}
        BY <3>1 DEF Arrive
      <4>2. Unknown.pc # "lock"  BY DEF Unknown
      <4>. QED  BY <4>1, <4>2
    <3>2. CASE NotPoliced(p)
      <4>1. Idle.pc # "lock"  BY DEF Idle
      <4>. QED  BY <3>2, <4>1 DEF NotPoliced
    <3>. QED  BY <3>1, <3>2
  <2>. SUFFICES ASSUME NEW q \in CPUs, pkt'[q].pc = "lock" PROVE pkt'[q].ts <= now
    BY <1>1 DEF Timely
  <2>3. CASE q = p  BY <2>1, <2>2, <2>3
  <2>4. CASE q # p  BY <2>1, <2>2, <2>4 DEF Timely
  <2>. QED  BY <2>3, <2>4
<1>. QED  BY <1>2, <1>3, <1>4, <1>5 DEF MeterInv, MeterTypes

LEMMA TickMeter ==
    ASSUME MeterInv, Tick
    PROVE  MeterInv'
<1>. DEFINE full == 2 * NSECS_IN_USEC * pol.cbs
<1>1. /\ setup' = setup /\ now' = now + 1 /\ c' = c /\ e' = e /\ done' = done /\ pkt' = pkt
      /\ slow' = IF slow + pol.toksc_pus > full THEN full ELSE slow + pol.toksc_pus
  BY DEF Tick
<1>2. TypeOK'  BY StepTypes DEF MeterInv, MeterTypes, Next
<1>3. /\ pol' = pol /\ LastMetered(c)' /\ LastMetered(e)' /\ InOrder' = InOrder
      /\ Balance' /\ ColoursConform'
  BY <1>1, SameMeter
<1>4. /\ pol.cbs \in Nat /\ pol.toksc_pus \in Nat /\ c.tok \in Nat /\ c.last \in Nat
      /\ now \in Nat /\ NSECS_IN_USEC \in Nat /\ full \in Int
  BY SetupType, NumbersAssumption DEF MeterInv, MeterTypes, TypeOK, Bucket, pol
<1>5. slow \in Int /\ slow' \in Int /\ slow' <= full /\ slow' <= slow + pol.toksc_pus
  <2>. HIDE DEF full
  <2>. QED  BY <1>1, <1>4 DEF MeterInv, MeterTypes, SlowBounded
<1>6. SlowBounded'  BY <1>3, <1>5 DEF SlowBounded
<1>7. HalfRate'
  <2>. DEFINE a == 2 * NSECS_IN_USEC * c.tok
              r == pol.toksc_pus
              d == now - c.last
  <2>1. a \in Int /\ r \in Int /\ d \in Int  BY <1>4
  <2>2. (now' - c'.last) * r = d * r + r
    <3>1. now' - c'.last = d + 1  BY <1>1, <1>4
    <3>. HIDE DEF d, r
    <3>. QED  BY <2>1, <3>1
  <2>3. InOrder => slow <= a + d * r  BY DEF MeterInv, HalfRate
  <2>4. d * r \in Int
    <3>. HIDE DEF d, r
    <3>. QED  BY <2>1
  <2>5. InOrder => slow' <= a + (now' - c'.last) * r
    <3>. HIDE DEF a, r
    <3>1. slow' <= slow + r  BY <1>5 DEF r
    <3>2. (now' - c'.last) * r \in Int  BY <2>1, <2>2, <2>4
    <3>. HIDE DEF d
    <3>. QED  BY <1>5, <2>1, <2>2, <2>3, <2>4, <3>1, <3>2
  <2>. QED  BY <1>1, <1>3, <2>5 DEF HalfRate
<1>8. Timely'
  <2>. SUFFICES ASSUME NEW q \in CPUs, pkt[q].pc = "lock" PROVE pkt[q].ts <= now + 1
    BY <1>1 DEF Timely
  <2>1. pkt[q] \in Packet \cup {Idle, Unknown}  BY DEF MeterInv, MeterTypes, TypeOK
  <2>2. pkt[q] # Idle /\ pkt[q] # Unknown  BY DEF Idle, Unknown
  <2>3. pkt[q].ts \in Nat  BY <2>1, <2>2 DEF Packet
  <2>. QED  BY <1>4, <2>3 DEF MeterInv, MeterTypes, Timely
<1>9. (done \in Seq(Entry))'  BY <1>1 DEF MeterInv, MeterTypes
<1>. QED  BY <1>2, <1>3, <1>6, <1>7, <1>8, <1>9 DEF MeterInv, MeterTypes

-----------------------------------------------------------------------------
(* What was handed out and what is left, one packet later. *)
LEMMA Carry ==
    ASSUME NEW rate \in Nat, NEW size \in Nat, NEW last \in Nat, NEW last1 \in Nat, NEW ts \in Nat,
           NEW t \in Nat, NEW out \in Int, NEW tok \in Nat, NEW tok1 \in Nat,
           NEW n \in Nat, NEW g \in 0 .. n,
           out + tok <= size + Worth(rate, last, t),
           \/ last1 = last /\ tok1 = tok
           \/ last1 = ts /\ tok1 <= tok + rate * ((ts - last) \div NSECS_IN_USEC)
    PROVE  (out + g) + (tok1 - n) <= size + Worth(rate, last1, t)
<1>1. Worth(rate, last, t) \in Int /\ Worth(rate, last1, t) \in Int /\ Worth(rate, ts, t) \in Int
  <2>1. last \in Int /\ last1 \in Int /\ ts \in Int /\ t \in Int  OBVIOUS
  <2>. QED  BY <2>1, WorthType
<1>2. CASE last1 = last /\ tok1 = tok  BY <1>1, <1>2
<1>3. CASE last1 = ts /\ tok1 <= tok + rate * ((ts - last) \div NSECS_IN_USEC)
  <2>. DEFINE due == rate * ((ts - last) \div NSECS_IN_USEC)
  <2>1. due \in Int
    <3>1. NSECS_IN_USEC \in Nat \ {0} /\ ts - last \in Int  BY NumbersAssumption
    <3>2. (ts - last) \div NSECS_IN_USEC \in Int  BY <3>1, DivFacts
    <3>. QED  BY <3>2
  <2>2. Worth(rate, last, t) + due <= Worth(rate, ts, t)  BY WorthGrows
  <2>. HIDE DEF due
  <2>. QED  BY <1>1, <1>3, <2>1, <2>2 DEF due
<1>. QED  BY <1>2, <1>3

(* In the order of the timestamps a packet's is not before the bucket's. *)
LEMMA LastBefore ==
    ASSUME done \in Seq(Entry), NEW d \in Entry, done' = Append(done, d), InOrder'
    PROVE  /\ InOrder
           /\ \A i \in DOMAIN done : done[i].ts <= d.ts
           /\ \A b : LastMetered(b) => b.last <= d.ts
<1>1. /\ DOMAIN done = 1 .. Len(done) /\ DOMAIN done' = 1 .. Len(done) + 1 /\ Len(done) \in Nat
      /\ done'[Len(done) + 1] = d /\ \A i \in DOMAIN done : done'[i] = done[i]
  OBVIOUS
<1>2. \A i, j \in DOMAIN done' : i <= j => done'[i].ts <= done'[j].ts  BY DEF InOrder
<1>3. InOrder  BY <1>1, <1>2 DEF InOrder
<1>4. \A i \in DOMAIN done : done[i].ts <= d.ts
  <2>. TAKE i \in DOMAIN done
  <2>1. i \in DOMAIN done' /\ Len(done) + 1 \in DOMAIN done' /\ i <= Len(done) + 1  BY <1>1
  <2>. QED  BY <1>1, <1>2, <2>1
<1>5. d.ts \in Nat  BY DEF Entry
<1>. QED  BY <1>3, <1>4, <1>5 DEF LastMetered

LEMMA PoliceHalfRate ==
    ASSUME MeterInv, NEW p \in setup.cpus, Police(p)
    PROVE  HalfRate' /\ SlowBounded'
<1>. DEFINE x == pkt[p]
            N == NSECS_IN_USEC
            r == pol.toksc_pus
            c1 == Refill(c, pol.cbs, r, x.ts)
            due == r * ((x.ts - c.last) \div N)
<1>1. TypeOK /\ done \in Seq(Entry)  BY DEF MeterInv, MeterTypes
<1>2. /\ setup' = setup /\ now' = now /\ p \in CPUs /\ x \in Packet /\ x.pc = "lock"
      /\ c1 \in Bucket(pol.cbs)
      /\ \E n \in 0 .. c1.tok, m, d \in Entry :
            /\ c'.tok = c1.tok - n /\ c'.last = c1.last /\ slow' = slow - 2 * N * n
            /\ done' = Append(done, d) /\ d.ts = x.ts
  BY <1>1, PoliceEffect
<1>3. PICK n \in 0 .. c1.tok, d \in Entry :
            /\ c'.tok = c1.tok - n /\ c'.last = c1.last /\ slow' = slow - 2 * N * n
            /\ done' = Append(done, d) /\ d.ts = x.ts
  BY <1>2
<1>4. /\ pol.cbs \in Nat /\ r \in Nat /\ c \in Bucket(pol.cbs) /\ c.tok \in 0 .. pol.cbs
      /\ c.last \in Nat /\ now \in Nat /\ now <= MaxTime /\ N \in Nat \ {0} /\ MaxTime \in Nat
      /\ r * MaxTime < WORD
  BY <1>1, SetupType, NumbersAssumption, WordAssumption DEF TypeOK, Bucket, pol
<1>5. c1.tok \in 0 .. pol.cbs /\ c1.last \in Nat  BY <1>2 DEF Bucket
<1>6. x.ts \in Nat /\ x.ts <= now  BY <1>2 DEF MeterInv, MeterTypes, Timely, Packet
<1>7. slow \in Int /\ slow <= 2 * N * pol.cbs  BY DEF MeterInv, MeterTypes, SlowBounded
<1>8. pol' = pol  BY <1>2 DEF pol
<1>9. 2 * N * n \in Nat
  <2>1. n \in Nat /\ N \in Nat  BY <1>3, <1>4, <1>5
  <2>. HIDE DEF N
  <2>. QED  BY <2>1
<1>10. SlowBounded'
  <2>1. 2 * N * pol.cbs \in Int  BY <1>4
  <2>. HIDE DEF N
  <2>. QED  BY <1>3, <1>7, <1>8, <1>9, <2>1 DEF SlowBounded, N
<1>11. ASSUME InOrder'
       PROVE  slow' <= 2 * N * c'.tok + (now' - c'.last) * r
  <2>. DEFINE old == 2 * N * c.tok
              new == 2 * N * c1.tok
              age == (now - c.last) * r
              age1 == (now - c1.last) * r
  <2>1. InOrder /\ c.last <= x.ts
    BY <1>1, <1>3, <1>11, LastBefore DEF MeterInv, MeterTypes
  <2>2. slow <= old + age  BY <2>1 DEF MeterInv, HalfRate
  <2>3. old \in Int /\ new \in Int /\ age \in Int /\ age1 \in Int
    <3>1. now - c.last \in Int /\ now - c1.last \in Int  BY <1>4, <1>5
    <3>. QED  BY <1>4, <1>5, <3>1
  <2>4. slow <= new + age1
    <3>1. /\ due \in Nat
          /\ \/ due = 0 /\ c1 = c
             \/ /\ due # 0 /\ c1.last = x.ts /\ c1.tok <= c.tok + due
                /\ c1.tok = pol.cbs \/ c1.tok = c.tok + due
      <4>1. x.ts \in 0 .. MaxTime  BY <1>4, <1>6
      <4>. HIDE DEF x, r
      <4>. QED  BY <1>4, <2>1, <4>1, RefillInOrder
    <3>2. CASE c1 = c  BY <2>2, <3>2
    <3>3. CASE c1.last = x.ts /\ c1.tok = pol.cbs
      <4>1. new = 2 * N * pol.cbs  BY <3>3
      <4>2. now - c1.last \in Nat  BY <1>4, <1>6, <3>3
      <4>3. age1 \in Nat
        <5>. HIDE DEF r, c1
        <5>. QED  BY <1>4, <4>2
      <4>. HIDE DEF new, age1
      <4>. QED  BY <1>7, <2>3, <4>1, <4>3
    <3>4. CASE due # 0 /\ c1.last = x.ts /\ c1.tok = c.tok + due
      <4>. DEFINE k == x.ts - c.last
      <4>1. k \in Nat  BY <1>4, <1>6, <2>1
      <4>2. k * r <= 2 * N * due
        <5>1. r * (k \div N) # 0  BY <3>4
        <5>. HIDE DEF k, r, N
        <5>2. k * r <= 2 * N * (r * (k \div N))  BY <1>4, <4>1, <5>1, HalfCounted
        <5>. QED  BY <5>2 DEF k
      <4>3. new = old + 2 * N * due
        <5>. HIDE DEF due, c1, N
        <5>. QED  BY <1>4, <1>5, <3>1, <3>4
      <4>4. age = age1 + k * r
        <5>1. age1 = (now - x.ts) * r  BY <3>4
        <5>. HIDE DEF x, c1, r
        <5>. QED  BY <1>4, <1>6, <5>1
      <4>5. k * r \in Int /\ 2 * N * due \in Int
        <5>. HIDE DEF k, due, r, N
        <5>. QED  BY <1>4, <3>1, <4>1
      <4>. HIDE DEF new, old, age, age1, k, due
      <4>. QED  BY <1>7, <2>2, <2>3, <4>2, <4>3, <4>4, <4>5
    <3>. QED  BY <3>1, <3>2, <3>3, <3>4
  <2>5. 2 * N * c'.tok = new - 2 * N * n
    <3>. HIDE DEF c1, N
    <3>. QED  BY <1>3, <1>4, <1>5
  <2>6. (now' - c'.last) * r = age1  BY <1>2, <1>3
  <2>. HIDE DEF new, age1
  <2>. QED  BY <1>3, <1>7, <1>9, <2>3, <2>4, <2>5, <2>6
<1>. QED  BY <1>8, <1>10, <1>11 DEF HalfRate

(* One packet at one bucket: n is taken of it, g of them are counted. *)
LEMMA BucketStep ==
    ASSUME NEW size \in Nat, NEW rate \in Nat, NEW b \in Bucket(size), NEW ts \in 0 .. MaxTime,
           b.last <= ts, rate * MaxTime < WORD, NEW b1, b1 = Refill(b, size, rate, ts),
           NEW n \in 0 .. b1.tok, NEW g \in 0 .. n
    PROVE  /\ b1.last \in Nat /\ b1.last <= ts /\ b1.tok \in 0 .. size
           /\ \A t \in Nat, out \in Int :
                  out + b.tok <= size + Worth(rate, b.last, t)
                  => (out + g) + (b1.tok - n) <= size + Worth(rate, b1.last, t)
           /\ g + (b1.tok - n) <= size + Worth(rate, b1.last, ts)
<1>. DEFINE due == rate * ((ts - b.last) \div NSECS_IN_USEC)
<1>1. /\ b.tok \in Nat /\ b.last \in Nat /\ ts \in Nat
  BY NumbersAssumption DEF Bucket
<1>2. b1.tok \in 0 .. size /\ b1.last \in Nat  BY <1>1, RefillType DEF Bucket
<1>3. /\ due \in Nat
      /\ \/ due = 0 /\ b1 = b
         \/ due # 0 /\ b1.last = ts /\ b1.tok <= b.tok + due
  BY RefillInOrder
<1>4. n \in Nat /\ b1.tok \in Nat  BY <1>2
<1>5. \/ b1.last = b.last /\ b1.tok = b.tok
      \/ b1.last = ts /\ b1.tok <= b.tok + due
  BY <1>3
<1>6. ASSUME NEW t \in Nat, NEW out \in Int, out + b.tok <= size + Worth(rate, b.last, t)
      PROVE  (out + g) + (b1.tok - n) <= size + Worth(rate, b1.last, t)
  BY <1>1, <1>2, <1>4, <1>5, <1>6, Carry
<1>7. b1.last <= ts  BY <1>1, <1>3
<1>8. 0 <= Worth(rate, b1.last, ts)
  <2>1. b1.last = ts \/ rate * ((ts - b1.last) \div NSECS_IN_USEC) = 0  BY <1>3
  <2>2. b1.last \in Int /\ ts \in Int  BY <1>1, <1>2
  <2>. QED  BY <1>7, <2>1, <2>2, WorthFresh
<1>9. Worth(rate, b1.last, ts) \in Int
  <2>1. b1.last \in Int /\ ts \in Int  BY <1>1, <1>2
  <2>. QED  BY <2>1, WorthType
<1>10. g + (b1.tok - n) <= size + Worth(rate, b1.last, ts)  BY <1>2, <1>4, <1>8, <1>9
<1>. QED  BY <1>2, <1>6, <1>7, <1>10

(* The bytes counted from packet i on, one packet later. *)
LEMMA BytesStep ==
    ASSUME done \in Seq(Entry), NEW d \in Entry, done' = Append(done, d),
           d.green = Totals.green + Green(d), d.passed = Totals.passed + Passed(d),
           NEW k, k = Len(done)
    PROVE  /\ \A i \in DOMAIN done :
                  /\ GreenBytes(i, k) \in Int /\ PassedBytes(i, k) \in Int
                  /\ GreenBytes(i, k + 1)' = GreenBytes(i, k) + Green(d)
                  /\ PassedBytes(i, k + 1)' = PassedBytes(i, k) + Passed(d)
           /\ \A i, j \in DOMAIN done : /\ GreenBytes(i, j)' = GreenBytes(i, j)
                                        /\ PassedBytes(i, j)' = PassedBytes(i, j)
           /\ GreenBytes(k + 1, k + 1)' = Green(d) /\ PassedBytes(k + 1, k + 1)' = Passed(d)
<1>1. /\ DOMAIN done = 1 .. k /\ DOMAIN done' = 1 .. k + 1 /\ k \in Nat
      /\ done'[k + 1] = d /\ \A i \in DOMAIN done : done'[i] = done[i] /\ done[i] \in Entry
  OBVIOUS
<1>2. ASSUME NEW x \in Entry
      PROVE  x.green \in Nat /\ x.passed \in Nat /\ Green(x) \in Nat /\ Passed(x) \in Nat
  BY DEF Entry, Green, Passed
<1>3. \A x : (Green(x)' = Green(x)) /\ (Passed(x)' = Passed(x))  OBVIOUS
<1>4. /\ GreenBytes(k + 1, k + 1)' = d.green - d.green + Green(d)
      /\ PassedBytes(k + 1, k + 1)' = d.passed - d.passed + Passed(d)
  BY <1>1 DEF GreenBytes, PassedBytes, Green, Passed
<1>5. ASSUME NEW i \in DOMAIN done, NEW j \in DOMAIN done
      PROVE  GreenBytes(i, j)' = GreenBytes(i, j) /\ PassedBytes(i, j)' = PassedBytes(i, j)
  BY <1>1 DEF GreenBytes, PassedBytes, Green, Passed
<1>6. ASSUME NEW i \in DOMAIN done
      PROVE  /\ GreenBytes(i, k) \in Int /\ PassedBytes(i, k) \in Int
             /\ GreenBytes(i, k + 1)' = GreenBytes(i, k) + Green(d)
             /\ PassedBytes(i, k + 1)' = PassedBytes(i, k) + Passed(d)
  <2>1. done # <<>> /\ k \in DOMAIN done  BY <1>1
  <2>2. Totals.green = done[k].green /\ Totals.passed = done[k].passed  BY <2>1, TotalsType
  <2>3. /\ GreenBytes(i, k + 1)' = d.green - done[i].green + Green(done[i])
        /\ PassedBytes(i, k + 1)' = d.passed - done[i].passed + Passed(done[i])
    BY <1>1 DEF GreenBytes, PassedBytes, Green, Passed
  <2>4. done[i] \in Entry /\ done[k] \in Entry  BY <1>1, <2>1
  <2>5. /\ done[k].green \in Nat /\ done[i].green \in Nat /\ Green(done[i]) \in Nat
        /\ done[k].passed \in Nat /\ done[i].passed \in Nat /\ Passed(done[i]) \in Nat
        /\ Green(d) \in Nat /\ Passed(d) \in Nat
    BY <1>2, <2>4
  <2>6. /\ GreenBytes(i, k) = done[k].green - done[i].green + Green(done[i])
        /\ PassedBytes(i, k) = done[k].passed - done[i].passed + Passed(done[i])
    BY DEF GreenBytes, PassedBytes
  <2>7. GreenBytes(i, k) \in Int /\ PassedBytes(i, k) \in Int
    <3>1. /\ done[k].green - done[i].green + Green(done[i]) \in Int
          /\ done[k].passed - done[i].passed + Passed(done[i]) \in Int
      BY <2>5
    <3>. QED  BY <2>6, <3>1
  <2>8. /\ d.green = done[k].green + Green(d)
        /\ d.passed = done[k].passed + Passed(d)
    BY <2>2
  <2>9. d.green - done[i].green + Green(done[i]) = GreenBytes(i, k) + Green(d)
    <3>1. (done[k].green + Green(d)) - done[i].green + Green(done[i])
             = (done[k].green - done[i].green + Green(done[i])) + Green(d)
      BY <2>5
    <3>. QED  BY <2>6, <2>8, <3>1, Zenon
  <2>10. d.passed - done[i].passed + Passed(done[i]) = PassedBytes(i, k) + Passed(d)
    <3>1. (done[k].passed + Passed(d)) - done[i].passed + Passed(done[i])
             = (done[k].passed - done[i].passed + Passed(done[i])) + Passed(d)
      BY <2>5
    <3>. QED  BY <2>6, <2>8, <3>1, Zenon
  <2>11. GreenBytes(i, k + 1)' = GreenBytes(i, k) + Green(d)  BY <2>3, <2>9
  <2>12. PassedBytes(i, k + 1)' = PassedBytes(i, k) + Passed(d)  BY <2>3, <2>10
  <2>. QED  BY <2>7, <2>11, <2>12
<1>7. Green(d) \in Nat /\ Passed(d) \in Nat /\ d.green \in Nat /\ d.passed \in Nat  BY <1>2
<1>8. GreenBytes(k + 1, k + 1)' = Green(d) /\ PassedBytes(k + 1, k + 1)' = Passed(d)
  BY <1>4, <1>7
<1>. QED  BY <1>5, <1>6, <1>8

LEMMA PoliceConforms ==
    ASSUME MeterInv, NEW p \in setup.cpus, Police(p)
    PROVE  Balance' /\ ColoursConform'
<1>. DEFINE x == pkt[p]
            c1 == Refill(c, pol.cbs, pol.toksc_pus, x.ts)
            e1 == Refill(e, pol.ebs, pol.tokse_pus, x.ts)
<1>1. TypeOK /\ done \in Seq(Entry)  BY DEF MeterInv, MeterTypes
<1>2. /\ setup' = setup /\ p \in CPUs /\ x \in Packet /\ x.pc = "lock"
      /\ \E n \in 0 .. c1.tok, m \in 0 .. e1.tok, d \in Entry :
            /\ c'.tok = c1.tok - n /\ c'.last = c1.last /\ e'.tok = e1.tok - m /\ e'.last = e1.last
            /\ done' = Append(done, d) /\ d.ts = x.ts
            /\ Green(d) \in 0 .. n /\ d.green = Totals.green + Green(d)
            /\ Passed(d) \in 0 .. m /\ d.passed = Totals.passed + Passed(d)
  BY <1>1, PoliceEffect
<1>3. PICK n \in 0 .. c1.tok, m \in 0 .. e1.tok, d \in Entry :
            /\ c'.tok = c1.tok - n /\ c'.last = c1.last /\ e'.tok = e1.tok - m /\ e'.last = e1.last
            /\ done' = Append(done, d) /\ d.ts = x.ts
            /\ Green(d) \in 0 .. n /\ d.green = Totals.green + Green(d)
            /\ Passed(d) \in 0 .. m /\ d.passed = Totals.passed + Passed(d)
  BY <1>2
<1>4. /\ pol.cbs \in Nat /\ pol.ebs \in Nat /\ pol.toksc_pus \in Nat /\ pol.tokse_pus \in Nat
      /\ c \in Bucket(pol.cbs) /\ e \in Bucket(pol.ebs)
      /\ pol.toksc_pus * MaxTime < WORD /\ pol.tokse_pus * MaxTime < WORD
  BY <1>1, SetupType, WordAssumption DEF TypeOK, pol
<1>5. x.ts \in 0 .. MaxTime
  <2>1. x.ts \in Nat /\ x.ts <= now  BY <1>2 DEF MeterInv, MeterTypes, Timely, Packet
  <2>2. now \in Nat /\ now <= MaxTime /\ MaxTime \in Nat  BY <1>1, NumbersAssumption DEF TypeOK
  <2>. QED  BY <2>1, <2>2
<1>6. pol' = pol  BY <1>2 DEF pol
<1>7. PICK k : k = Len(done)  OBVIOUS
<1>8. /\ k \in Nat /\ DOMAIN done = 1 .. k /\ DOMAIN done' = 1 .. k + 1 /\ Len(done') = k + 1
      /\ done'[k + 1] = d /\ \A i \in DOMAIN done : done'[i] = done[i] /\ done[i].ts \in Nat
  <2>1. /\ k \in Nat /\ DOMAIN done = 1 .. k /\ DOMAIN done' = 1 .. k + 1 /\ Len(done') = k + 1
        /\ done'[k + 1] = d /\ \A i \in DOMAIN done : done'[i] = done[i] /\ done[i] \in Entry
    BY <1>1, <1>3, <1>7
  <2>2. \A y \in Entry : y.ts \in Nat  BY DEF Entry
  <2>. QED  BY <2>1, <2>2
<1>9. /\ \A i \in DOMAIN done :
             /\ GreenBytes(i, k) \in Int /\ PassedBytes(i, k) \in Int
             /\ GreenBytes(i, k + 1)' = GreenBytes(i, k) + Green(d)
             /\ PassedBytes(i, k + 1)' = PassedBytes(i, k) + Passed(d)
      /\ \A i, j \in DOMAIN done : /\ GreenBytes(i, j)' = GreenBytes(i, j)
                                   /\ PassedBytes(i, j)' = PassedBytes(i, j)
      /\ GreenBytes(k + 1, k + 1)' = Green(d) /\ PassedBytes(k + 1, k + 1)' = Passed(d)
  BY <1>1, <1>3, <1>7, BytesStep
<1>10. SUFFICES ASSUME InOrder'
       PROVE  /\ \A i \in 1 .. k + 1 :
                    /\ GreenBytes(i, k + 1)' + c'.tok
                         <= pol.cbs + Worth(pol.toksc_pus, c'.last, done'[i].ts)
                    /\ PassedBytes(i, k + 1)' + e'.tok
                         <= pol.ebs + Worth(pol.tokse_pus, e'.last, done'[i].ts)
              /\ ColoursConform'
  <2>1. Balance' = (InOrder' => \A i \in DOMAIN done' :
                    /\ GreenBytes(i, Len(done))' + c'.tok
                         <= pol'.cbs + Worth(pol'.toksc_pus, c'.last, done'[i].ts)
                    /\ PassedBytes(i, Len(done))' + e'.tok
                         <= pol'.ebs + Worth(pol'.tokse_pus, e'.last, done'[i].ts))
    BY DEF Balance, Worth
  <2>2. \A i : /\ GreenBytes(i, Len(done))' = GreenBytes(i, k + 1)'
               /\ PassedBytes(i, Len(done))' = PassedBytes(i, k + 1)'
    BY <1>8 DEF GreenBytes, PassedBytes
  <2>. QED  BY <1>6, <1>8, <2>1, <2>2 DEF ColoursConform
<1>11. /\ InOrder /\ c.last <= x.ts /\ e.last <= x.ts
       /\ \A i \in DOMAIN done : done[i].ts <= d.ts
  BY <1>1, <1>3, <1>10, LastBefore DEF MeterInv, MeterTypes
<1>12. /\ c1.last \in Nat /\ c1.last <= x.ts /\ c1.tok \in 0 .. pol.cbs
       /\ \A t \in Nat, out \in Int :
             out + c.tok <= pol.cbs + Worth(pol.toksc_pus, c.last, t)
             => (out + Green(d)) + (c1.tok - n) <= pol.cbs + Worth(pol.toksc_pus, c1.last, t)
       /\ Green(d) + (c1.tok - n) <= pol.cbs + Worth(pol.toksc_pus, c1.last, x.ts)
  <2>1. n \in 0 .. c1.tok /\ Green(d) \in 0 .. n  BY <1>3
  <2>. HIDE DEF x
  <2>. QED  BY <1>4, <1>5, <1>11, <2>1, BucketStep
<1>13. /\ e1.last \in Nat /\ e1.last <= x.ts /\ e1.tok \in 0 .. pol.ebs
       /\ \A t \in Nat, out \in Int :
             out + e.tok <= pol.ebs + Worth(pol.tokse_pus, e.last, t)
             => (out + Passed(d)) + (e1.tok - m) <= pol.ebs + Worth(pol.tokse_pus, e1.last, t)
       /\ Passed(d) + (e1.tok - m) <= pol.ebs + Worth(pol.tokse_pus, e1.last, x.ts)
  <2>1. m \in 0 .. e1.tok /\ Passed(d) \in 0 .. m  BY <1>3
  <2>. HIDE DEF x
  <2>. QED  BY <1>4, <1>5, <1>11, <2>1, BucketStep
<1>. HIDE DEF c1, e1, x
<1>14. ASSUME NEW i \in 1 .. k + 1
       PROVE  /\ GreenBytes(i, k + 1)' + c'.tok
                   <= pol.cbs + Worth(pol.toksc_pus, c'.last, done'[i].ts)
              /\ PassedBytes(i, k + 1)' + e'.tok
                   <= pol.ebs + Worth(pol.tokse_pus, e'.last, done'[i].ts)
  <2>1. CASE i = k + 1  BY <1>3, <1>8, <1>9, <1>12, <1>13, <2>1
  <2>2. CASE i # k + 1
    <3>1. i \in DOMAIN done  BY <1>8, <2>2
    <3>2. /\ GreenBytes(i, k) + c.tok <= pol.cbs + Worth(pol.toksc_pus, c.last, done[i].ts)
          /\ PassedBytes(i, k) + e.tok <= pol.ebs + Worth(pol.tokse_pus, e.last, done[i].ts)
      BY <1>7, <1>11, <3>1 DEF MeterInv, Balance
    <3>3. /\ done'[i] = done[i] /\ done[i].ts \in Nat
          /\ GreenBytes(i, k) \in Int /\ PassedBytes(i, k) \in Int
          /\ GreenBytes(i, k + 1)' = GreenBytes(i, k) + Green(d)
          /\ PassedBytes(i, k + 1)' = PassedBytes(i, k) + Passed(d)
      BY <1>8, <1>9, <3>1
    <3>4. (GreenBytes(i, k) + Green(d)) + (c1.tok - n)
             <= pol.cbs + Worth(pol.toksc_pus, c1.last, done[i].ts)
      BY <1>12, <3>2, <3>3
    <3>5. (PassedBytes(i, k) + Passed(d)) + (e1.tok - m)
             <= pol.ebs + Worth(pol.tokse_pus, e1.last, done[i].ts)
      BY <1>13, <3>2, <3>3
    <3>. QED  BY <1>3, <3>3, <3>4, <3>5
  <2>. QED  BY <2>1, <2>2
<1>15. ColoursConform'
  <2>. SUFFICES ASSUME NEW i \in 1 .. k + 1, NEW j \in 1 .. k + 1, i <= j
       PROVE  /\ GreenBytes(i, j)' <= Allowed(i, j, pol.cbs, pol.toksc_pus)'
              /\ PassedBytes(i, j)' <= Allowed(i, j, pol.ebs, pol.tokse_pus)'
    BY <1>8 DEF ColoursConform
  <2>1. CASE j # k + 1
    <3>1. i \in DOMAIN done /\ j \in DOMAIN done  BY <1>8, <2>1
    <3>2. /\ GreenBytes(i, j) <= Allowed(i, j, pol.cbs, pol.toksc_pus)
          /\ PassedBytes(i, j) <= Allowed(i, j, pol.ebs, pol.tokse_pus)
      BY <1>11, <3>1 DEF MeterInv, ColoursConform
    <3>3. done'[i] = done[i] /\ done'[j] = done[j]  BY <1>8, <3>1
    <3>4. /\ Allowed(i, j, pol.cbs, pol.toksc_pus)' = Allowed(i, j, pol.cbs, pol.toksc_pus)
          /\ Allowed(i, j, pol.ebs, pol.tokse_pus)' = Allowed(i, j, pol.ebs, pol.tokse_pus)
      BY <1>6, <3>3 DEF Allowed
    <3>. QED  BY <1>9, <3>1, <3>2, <3>4
  <2>2. CASE j = k + 1
    <3>. DEFINE t == done'[i].ts
                ga == GreenBytes(i, k + 1)'
                pa == PassedBytes(i, k + 1)'
                wc == Worth(pol.toksc_pus, c1.last, t)
                we == Worth(pol.tokse_pus, e1.last, t)
                ac == pol.toksc_pus * ((x.ts - t) \div NSECS_IN_USEC + 1)
                ae == pol.tokse_pus * ((x.ts - t) \div NSECS_IN_USEC + 1)
    <3>1. t \in Nat /\ x.ts \in Nat
      <4>1. d.ts \in Nat  BY DEF Entry
      <4>2. CASE i = k + 1  BY <1>3, <1>8, <4>1, <4>2
      <4>3. CASE i # k + 1  BY <1>3, <1>8, <4>1, <4>3
      <4>. QED  BY <4>2, <4>3
    <3>2. /\ Allowed(i, j, pol.cbs, pol.toksc_pus)' = pol.cbs + ac
          /\ Allowed(i, j, pol.ebs, pol.tokse_pus)' = pol.ebs + ae
      BY <1>3, <1>6, <1>8, <2>2 DEF Allowed
    <3>3. wc \in Int /\ we \in Int /\ ac \in Int /\ ae \in Int
      <4>. HIDE DEF t
      <4>1. t \in Int /\ c1.last \in Int /\ e1.last \in Int  BY <1>12, <1>13, <3>1
      <4>2. wc \in Int /\ we \in Int  BY <1>4, <4>1, WorthType
      <4>3. x.ts - t \in Int /\ NSECS_IN_USEC \in Nat \ {0}  BY <3>1, NumbersAssumption
      <4>4. (x.ts - t) \div NSECS_IN_USEC \in Int  BY <4>3, DivFacts
      <4>5. ac \in Int /\ ae \in Int  BY <1>4, <4>4
      <4>. QED  BY <4>2, <4>5
    <3>4. wc <= ac
      <4>1. t \in Int /\ c1.last \in Int /\ x.ts \in Int  BY <1>12, <3>1
      <4>. HIDE DEF t
      <4>. QED  BY <1>4, <1>12, <4>1, WorthAllowed
    <3>5. we <= ae
      <4>1. t \in Int /\ e1.last \in Int /\ x.ts \in Int  BY <1>13, <3>1
      <4>. HIDE DEF t
      <4>. QED  BY <1>4, <1>13, <4>1, WorthAllowed
    <3>6. ga + c'.tok <= pol.cbs + wc /\ pa + e'.tok <= pol.ebs + we
      BY <1>3, <1>14
    <3>7. ga \in Int /\ pa \in Int
      <4>1. Green(d) \in Int /\ Passed(d) \in Int  BY <1>3
      <4>2. CASE i = k + 1  BY <1>9, <4>1, <4>2
      <4>3. CASE i # k + 1
        <5>1. i \in DOMAIN done  BY <1>8, <4>3
        <5>2. GreenBytes(i, k) \in Int /\ PassedBytes(i, k) \in Int  BY <1>9, <5>1
        <5>3. GreenBytes(i, k) + Green(d) \in Int /\ PassedBytes(i, k) + Passed(d) \in Int
          BY <4>1, <5>2
        <5>. QED  BY <1>9, <5>1, <5>3
      <4>. QED  BY <4>2, <4>3
    <3>8. c'.tok \in Nat /\ e'.tok \in Nat
      <4>1. c'.tok = c1.tok - n /\ e'.tok = e1.tok - m  BY <1>3
      <4>2. c1.tok \in Nat /\ e1.tok \in Nat  BY <1>4, <1>12, <1>13
      <4>3. c1.tok - n \in Nat /\ e1.tok - m \in Nat  BY <4>2
      <4>. QED  BY <4>1, <4>3
    <3>. HIDE DEF ga, pa, wc, we, ac, ae
    <3>9. ga <= pol.cbs + ac /\ pa <= pol.ebs + ae
      BY <1>4, <3>3, <3>4, <3>5, <3>6, <3>7, <3>8
    <3>. QED  BY <2>2, <3>2, <3>9 DEF ga, pa
  <2>. QED  BY <2>1, <2>2
<1>. QED  BY <1>14, <1>15

LEMMA PoliceMeter ==
    ASSUME MeterInv, NEW p \in setup.cpus, Police(p)
    PROVE  MeterInv'
<1>. DEFINE x == pkt[p]
            c1 == Refill(c, pol.cbs, pol.toksc_pus, x.ts)
            e1 == Refill(e, pol.ebs, pol.tokse_pus, x.ts)
<1>1. TypeOK /\ done \in Seq(Entry)  BY DEF MeterInv, MeterTypes
<1>2. TypeOK'  BY <1>1, PoliceTypes
<1>3. /\ now' = now /\ p \in CPUs /\ pkt' = [pkt EXCEPT ![p] = Idle]
      /\ \E d \in Entry : /\ c'.last = c1.last /\ e'.last = e1.last
                          /\ done' = Append(done, d) /\ d.ts = x.ts
  BY <1>1, PoliceEffect
<1>4. PICK d \in Entry : /\ c'.last = c1.last /\ e'.last = e1.last
                         /\ done' = Append(done, d) /\ d.ts = x.ts
  BY <1>3
<1>5. /\ done' \in Seq(Entry) /\ Len(done) + 1 \in DOMAIN done' /\ done'[Len(done) + 1] = d
      /\ \A i \in DOMAIN done : i \in DOMAIN done' /\ done'[i] = done[i]
  BY <1>1, <1>4
<1>6. c1.last \in {c.last, x.ts} /\ e1.last \in {e.last, x.ts}  BY DEF Refill
<1>. HIDE DEF c1, e1, x
<1>7. LastMetered(c)' /\ LastMetered(e)'
  <2>1. LastMetered(c) /\ LastMetered(e)  BY DEF MeterInv, MeterTypes
  <2>4. c1.last = c.last => LastMetered(c)'  BY <1>4, <1>5, <2>1 DEF LastMetered
  <2>5. e1.last = e.last => LastMetered(e)'  BY <1>4, <1>5, <2>1 DEF LastMetered
  <2>6. c1.last = x.ts => LastMetered(c)'  BY <1>4, <1>5 DEF LastMetered
  <2>7. e1.last = x.ts => LastMetered(e)'  BY <1>4, <1>5 DEF LastMetered
  <2>. QED  BY <1>6, <2>4, <2>5, <2>6, <2>7
<1>8. Timely'
  <2>. SUFFICES ASSUME NEW q \in CPUs, pkt'[q].pc = "lock" PROVE pkt'[q].ts <= now
    BY <1>3 DEF Timely
  <2>1. pkt \in [CPUs -> Packet \cup {Idle, Unknown}]  BY <1>1 DEF TypeOK
  <2>2. q # p  BY <1>3, <2>1 DEF Idle
  <2>. QED  BY <1>3, <2>1, <2>2 DEF MeterInv, MeterTypes, Timely
<1>. QED  BY <1>2, <1>5, <1>7, <1>8, PoliceHalfRate, PoliceConforms DEF MeterInv, MeterTypes

LEMMA MeterInductive == Spec => []MeterInv
<1>1. MeterInv /\ [Next]_vars => MeterInv'
  <2>. SUFFICES ASSUME MeterInv, [Next]_vars PROVE MeterInv'  OBVIOUS
  <2>1. ASSUME NEW p \in setup.cpus, Arrive(p) \/ NotPoliced(p) PROVE MeterInv'
    BY <2>1, ArriveMeter
  <2>2. ASSUME NEW p \in setup.cpus, Police(p) PROVE MeterInv'  BY <2>2, PoliceMeter
  <2>3. CASE Tick  BY <2>3, TickMeter
  <2>4. CASE UNCHANGED vars
    <3>1. /\ setup' = setup /\ now' = now /\ c' = c /\ e' = e /\ done' = done /\ slow' = slow
          /\ pkt' = pkt
      BY <2>4 DEF vars
    <3>2. TypeOK'  BY <2>4, StepTypes DEF MeterInv, MeterTypes
    <3>3. /\ pol' = pol /\ LastMetered(c)' /\ LastMetered(e)' /\ InOrder' = InOrder
          /\ Balance' /\ ColoursConform'
      BY <3>1, SameMeter
    <3>4. HalfRate' /\ SlowBounded' /\ (done \in Seq(Entry))' /\ Timely'
      BY <3>1, <3>3 DEF MeterInv, MeterTypes, HalfRate, SlowBounded, Timely
    <3>. QED  BY <3>2, <3>3, <3>4 DEF MeterInv, MeterTypes
  <2>. QED  BY <2>1, <2>2, <2>3, <2>4 DEF Next
<1>. QED  BY <1>1, InitMeter, PTL DEF Spec

(* For every rate, burst size, sequence of packets and number of CPUs, if  *)
(* they take the lock in the order of their timestamps: the truncation of  *)
(* each refill to whole microseconds costs do_dp_policer at most half of   *)
(* the committed rate.                                                     *)
THEOREM TruncationCostsHalf == Spec => []HalfRate
<1>1. MeterInv => HalfRate  BY DEF MeterInv
<1>. QED  BY <1>1, MeterInductive, PTL

(* Under the same condition, over every interval that begins and ends with *)
(* a packet, the green bytes keep to the committed burst size and rate and *)
(* the bytes that are not red to the excess burst size and rate.           *)
THEOREM ColoursKeepRates == Spec => []ColoursConform
<1>1. MeterInv => ColoursConform  BY DEF MeterInv
<1>. QED  BY <1>1, MeterInductive, PTL
=============================================================================
