--------------------------- MODULE ConntrackProofs ---------------------------
(***************************************************************************)
(* Proofs about Conntrack, for any number of CPUs and elements, any        *)
(* packets of any protocol, and with the ageing thread at work.            *)
(***************************************************************************)
EXTENDS Conntrack, FiniteSetTheorems, TLAPS

Steps == {"lookup", "create1", "create2", "again", "begin", "locked", "establish",
          "delete1", "delete2"}
Holding == {"begin", "locked", "establish"}

PiOK(pi, S) == "state" \in DOMAIN pi /\ pi.state \in S
ElemOK(x, S) ==
    /\ x = [live |-> x.live, key |-> x.key, dir |-> x.dir, act |-> x.act, fr |-> x.fr,
            idle |-> x.idle, pi |-> x.pi]
    /\ x.live \in BOOLEAN /\ x.key \in Keys /\ x.dir \in Dirs /\ x.act \in {"CT", "FAST"}
    /\ x.fr \in BOOLEAN /\ PiOK(x.pi, S)
JobOK(j, S) ==
    /\ j = [pc |-> j.pc, key |-> j.key, pkt |-> j.pkt, at |-> j.at, axt |-> j.axt,
            dir |-> j.dir, old |-> j.old]
    /\ j.pc \in Steps /\ j.key \in Keys /\ j.dir \in Dirs
    /\ j.pc \in Holding => j.at \in Elems /\ j.axt \in Elems
    /\ j.pc = "locked" => j.old \in S

AgerOK(a) ==
    /\ a = [pc |-> a.pc, todo |-> a.todo, key |-> a.key, again |-> a.again, churn |-> a.churn]
    /\ a.pc \in {"off", "walk", "delete"} /\ a.todo \subseteq Keys
    /\ a.pc = "delete" => a.key \in Keys

(* Type correctness, with the shapes of the records. *)
Typed ==
    /\ traffic \in Traffics
    /\ el = [e \in Elems |-> el[e]] /\ \A e \in Elems : ElemOK(el[e], ProtoStates)
    /\ cpu = [c \in CPUs |-> cpu[c]] /\ \A c \in CPUs : cpu[c] = Idle \/ JobOK(cpu[c], ProtoStates)
    /\ AgerOK(ager)
KeysDistinct == \A d, e \in Elems : el[d].live /\ el[e].live /\ el[d].key = el[e].key => d = e

(* Two entries of direction out are only there while a CPU is about to     *)
(* write one of direction in over one of them.                             *)
Pair(d, e) == el[d].live /\ el[e].live /\ d # e
OutInv ==
    \A d, e \in Elems : Pair(d, e) /\ el[d].dir = "OUT" /\ el[e].dir = "OUT" =>
        \E c \in CPUs : cpu[c].pc = "create2"
MapInv == Typed /\ KeysDistinct /\ OutInv

(* One CPU at a time.  The entries agree but while they are being written, *)
(* and so do those the CPU points to, in the map or not: the ageing thread *)
(* takes entries out of the map, and nobody else puts any in.  Entries     *)
(* marked established are, unless a packet that ends the connection was    *)
(* seen; only after one does the CPU track packets of theirs.              *)
Alike(x, y) == x.dir # y.dir /\ x.pi.state = y.pi.state /\ x.act = y.act
Marked(d, e) == el[d].act = "FAST" /\ ~el[d].fr /\ ~el[e].fr
AllAlike == \A d, e \in Elems : Pair(d, e) => Alike(el[d], el[e])
NonePaired == \A d, e \in Elems : ~Pair(d, e)
MarkedEst == \A d, e \in Elems : Pair(d, e) /\ Marked(d, e) => el[d].pi.state = EstablishedState
NoneMarked == \A d, e \in Elems : Pair(d, e) => ~Marked(d, e)
Fresh(j) ==
    \A e \in Elems : el[e].live /\ el[e].key = Rev(j.key) =>
        el[e].dir = "OUT" /\ el[e].act = "CT" /\ el[e].pi.state = Pi0.state
HoldsPair(j) ==
    /\ j.at # j.axt /\ Alike(el[j.at], el[j.axt])
    /\ \A e \in Elems : el[e].live => e \in {j.at, j.axt}

Agrees(c) ==
    /\ cpu[c].pc # "create2" => AllAlike
    /\ cpu[c].pc = "create1" => NonePaired
    /\ cpu[c].pc = "create2" => Fresh(cpu[c])
    /\ cpu[c].pc \in Holding => HoldsPair(cpu[c])
    /\ cpu[c].pc = "idle" => MarkedEst
    /\ cpu[c].pc \in Steps \ {"create2", "establish"} => NoneMarked
    /\ cpu[c].pc = "establish" => el[cpu[c].at].pi.state = EstablishedState
Sole(c) == \A d \in CPUs \ {c} : cpu[d] = Idle
OneInv == traffic.workers = 1 => \E c \in CPUs : Sole(c) /\ Agrees(c)

-----------------------------------------------------------------------------
(* The state machines: the states stay those of the protocol, the entries  *)
(* get the same one, and the result says when it is the established one.   *)
LEMMA TcpMachine ==
    ASSUME NEW t, NEW xt, NEW p, NEW d, PiOK(t, TcpStates), PiOK(xt, TcpStates)
    PROVE  /\ PiOK(dp_ct_tcp_sm(t, xt, p, d).pi, TcpStates)
           /\ PiOK(dp_ct_tcp_sm(t, xt, p, d).xpi, TcpStates)
           /\ dp_ct_tcp_sm(t, xt, p, d).pi.state = dp_ct_tcp_sm(t, xt, p, d).xpi.state
           /\ dp_ct_tcp_sm(t, xt, p, d).smr = "EST" => dp_ct_tcp_sm(t, xt, p, d).pi.state = "EST"
<1>. DEFINE m == TcpMove(t, p, d)
            r == dp_ct_tcp_sm(t, xt, p, d)
<1>1. \A s \in TcpStates : Keep(s).state \in TcpStates /\ Record(s).state \in TcpStates
  BY DEF Keep, Record
<1>2. TcpClosed(t, p, d).state \in TcpStates
  <2>1. \/ TcpClosed(t, p, d) = Keep("EST") \/ TcpClosed(t, p, d) = Record("EST")
        \/ TcpClosed(t, p, d) = Record("ERR") \/ TcpClosed(t, p, d) = Record("SS")
        \/ TcpClosed(t, p, d) = Keep("ERR")
    BY Zenon DEF TcpClosed
  <2>. QED  BY <2>1, <1>1 DEF TcpStates
<1>3. TcpSynSent(t, p, d).state \in TcpStates
  BY <1>1 DEF TcpSynSent, TcpStates
<1>4. TcpSynAcked(t, p, d).state \in TcpStates
  <2>1. \/ TcpSynAcked(t, p, d) = Keep("SA") \/ TcpSynAcked(t, p, d) = Keep("ERR")
        \/ TcpSynAcked(t, p, d) = Record("SS") \/ TcpSynAcked(t, p, d) = Record("EST")
    BY Zenon DEF TcpSynAcked
  <2>. QED  BY <2>1, <1>1 DEF TcpStates
<1>5. TcpFini(t, p, d).state \in TcpStates
  <2>1. \/ TcpFini(t, p, d) = Keep("CLOSED") \/ TcpFini(t, p, d) = Keep("ERR")
        \/ TcpFini(t, p, d) = Record("FINI3") \/ TcpFini(t, p, d) = Record("FINI2")
    BY Zenon DEF TcpFini
  <2>. QED  BY <2>1, <1>1 DEF TcpStates
<1>6. TcpFini2(t, p, d).state \in TcpStates /\ TcpFini3(t, p, d).state \in TcpStates
  BY <1>1 DEF TcpFini2, TcpFini3, TcpStates
<1>7. m.state \in TcpStates
  <2>1. t.state \in TcpStates  BY DEF PiOK
  <2>2. \/ m = Keep("CW") \/ m = TcpClosed(t, p, d) \/ m = TcpSynSent(t, p, d)
        \/ m = TcpSynAcked(t, p, d) \/ m = Record("FINI") \/ m = Keep("EST")
        \/ m = TcpFini(t, p, d) \/ m = TcpFini2(t, p, d) \/ m = TcpFini3(t, p, d)
        \/ m = Keep("CLOSED")
    BY <2>1, Zenon DEF TcpMove, TcpStates
  <2>3. Keep("CW").state \in TcpStates /\ Record("FINI").state \in TcpStates
        /\ Keep("EST").state \in TcpStates /\ Keep("CLOSED").state \in TcpStates
    BY <1>1 DEF TcpStates
  <2>. QED  BY <2>2, <2>3, <1>2, <1>3, <1>4, <1>5, <1>6
<1>8. TcpResult(m.state) = "EST" => m.state = "EST"  BY Zenon DEF TcpResult
<1>9. /\ r.pi.state = m.state /\ "state" \in DOMAIN r.pi
      /\ r.xpi.state = m.state /\ "state" \in DOMAIN r.xpi
      /\ r.smr = TcpResult(m.state)
  BY DEF dp_ct_tcp_sm, PiOK
<1>. QED  BY <1>7, <1>8, <1>9 DEF PiOK

LEMMA UdpMachine ==
    ASSUME NEW u, NEW xu, NEW d, NEW old \in UdpStates, PiOK(u, UdpStates), PiOK(xu, UdpStates)
    PROVE  /\ PiOK(dp_ct_udp_sm(u, xu, d, old).pi, UdpStates)
           /\ PiOK(dp_ct_udp_sm(u, xu, d, old).xpi, UdpStates)
           /\ dp_ct_udp_sm(u, xu, d, old).pi.state = dp_ct_udp_sm(u, xu, d, old).xpi.state
           /\ dp_ct_udp_sm(u, xu, d, old).smr = "EST" => dp_ct_udp_sm(u, xu, d, old).pi.state = "EST"
<1>. DEFINE w == IF d = "IN" THEN [u EXCEPT !.pkts_seen = (@ + 1) % U16]
                 ELSE [u EXCEPT !.rpkts_seen = (@ + 1) % U16]
            s == UdpState(w, old)
            r == dp_ct_udp_sm(u, xu, d, old)
<1>1. s \in UdpStates
  <2>1. ASSUME NEW v PROVE UdpState(v, old) = "EST" \/ UdpState(v, old) = "UEST" \/ UdpState(v, old) = old
    <3>. DEFINE P == v.pkts_seen > 0
                Q == v.rpkts_seen > 0
                T == v.pkts_seen > CT_UDP_CONN_THRESHOLD
    <3>1. UdpState(v, old) = CASE v.state = "CNI" /\ (Dsr \/ (P /\ Q)) -> "EST"
                               [] v.state = "CNI" /\ ~Dsr /\ v.rpkts_seen = 0 /\ T -> "UEST"
                               [] v.state = "UEST" /\ Q -> "EST"
                               [] OTHER -> old
      BY DEF UdpState
    <3>. HIDE DEF P, Q, T
    <3>. QED  BY <3>1, Zenon
  <2>. QED  BY <2>1 DEF UdpStates
<1>2. "state" \in DOMAIN w  BY DEF PiOK
<1>3. /\ r.pi = [w EXCEPT !.state = s] /\ r.xpi = [xu EXCEPT !.state = s]
      /\ r.smr = UdpResult(s)
  BY DEF dp_ct_udp_sm
<1>. HIDE DEF w, s, r
<1>4. UdpResult(s) = "EST" => s = "EST"  BY <1>1 DEF UdpResult, UdpStates
<1>. QED  BY <1>1, <1>2, <1>3, <1>4 DEF PiOK, r

LEMMA IcmpMachine ==
    ASSUME NEW i, NEW xi, NEW p, PiOK(i, IcmpStates), PiOK(xi, IcmpStates)
    PROVE  /\ PiOK(dp_ct_icmp_sm(i, xi, p).pi, IcmpStates)
           /\ PiOK(dp_ct_icmp_sm(i, xi, p).xpi, IcmpStates)
           /\ dp_ct_icmp_sm(i, xi, p).pi.state = dp_ct_icmp_sm(i, xi, p).xpi.state
           /\ dp_ct_icmp_sm(i, xi, p).smr = "EST" => dp_ct_icmp_sm(i, xi, p).pi.state = "REPS"
<1>. DEFINE r == dp_ct_icmp_sm(i, xi, p)
            w == r.pi
<1>1. \/ w = [i EXCEPT !.state = "REPS"] \/ w = [i EXCEPT !.state = "REQS", !.lseq = p.seq]
      \/ w = [i EXCEPT !.errs = 1] \/ w = [i EXCEPT !.lseq = p.seq] \/ w = i
  BY Zenon DEF dp_ct_icmp_sm
<1>2. r.xpi = [xi EXCEPT !.state = w.state] /\ r.smr = IcmpResult(w.state)
  BY Zenon DEF dp_ct_icmp_sm
<1>3. "state" \in DOMAIN w /\ w.state \in IcmpStates
  <2>. HIDE DEF w
  <2>. QED  BY <1>1 DEF PiOK, IcmpStates
<1>. HIDE DEF r
<1>. QED  BY <1>2, <1>3 DEF PiOK, IcmpResult, r

LEMMA SctpMachine ==
    ASSUME NEW s, NEW xs, NEW p, NEW d, NEW old \in SctpStates,
           PiOK(s, SctpStates), PiOK(xs, SctpStates)
    PROVE  /\ PiOK(dp_ct_sctp_sm(s, xs, p, d, old).pi, SctpStates)
           /\ PiOK(dp_ct_sctp_sm(s, xs, p, d, old).xpi, SctpStates)
           /\ dp_ct_sctp_sm(s, xs, p, d, old).pi.state = dp_ct_sctp_sm(s, xs, p, d, old).xpi.state
           /\ dp_ct_sctp_sm(s, xs, p, d, old).smr = "EST" =>
                 dp_ct_sctp_sm(s, xs, p, d, old).pi.state = "EST"
<1>. DEFINE m == SctpMove(s, p, d, old)
            r == dp_ct_sctp_sm(s, xs, p, d, old)
<1>1. ASSUME NEW x \in SctpStates PROVE PiOK(In(s, x), SctpStates)
  BY DEF In, PiOK
<1>2. PiOK(SctpInit(s, p), SctpStates)  BY DEF SctpInit, PiOK, SctpStates
<1>3. PiOK(SctpClosed(s, p, d, old), SctpStates)
  <2>1. \/ SctpClosed(s, p, d, old) = In(s, "EST") \/ SctpClosed(s, p, d, old) = In(s, "ERR")
        \/ SctpClosed(s, p, d, old) = In(s, old)
        \/ SctpClosed(s, p, d, old) = [s EXCEPT !.state = "INIT", !.itag = p.tag]
    BY Zenon DEF SctpClosed
  <2>2. PiOK([s EXCEPT !.state = "INIT", !.itag = p.tag], SctpStates)  BY DEF PiOK, SctpStates
  <2>3. PiOK(In(s, "EST"), SctpStates) /\ PiOK(In(s, "ERR"), SctpStates)  BY <1>1 DEF SctpStates
  <2>. QED  BY <2>1, <2>2, <2>3, <1>1
<1>4. PiOK(SctpInited(s, p, old), SctpStates)
  <2>1. \/ SctpInited(s, p, old) = In(s, old) \/ SctpInited(s, p, old) = SctpInit(s, p)
        \/ SctpInited(s, p, old) = In(s, "ERR")
        \/ SctpInited(s, p, old) = [s EXCEPT !.state = "INITA", !.otag = p.tag]
    BY Zenon DEF SctpInited
  <2>2. PiOK([s EXCEPT !.state = "INITA", !.otag = p.tag], SctpStates)  BY DEF PiOK, SctpStates
  <2>3. PiOK(In(s, "ERR"), SctpStates)  BY <1>1 DEF SctpStates
  <2>. QED  BY <2>1, <2>2, <2>3, <1>1, <1>2
<1>5. PiOK(SctpInitAcked(s, p, d, old), SctpStates)
  <2>1. \/ SctpInitAcked(s, p, d, old) = In(s, old) \/ SctpInitAcked(s, p, d, old) = SctpInit(s, p)
        \/ SctpInitAcked(s, p, d, old) = In(s, "ERR") \/ SctpInitAcked(s, p, d, old) = In(s, "COOKIE")
    BY Zenon DEF SctpInitAcked
  <2>2. PiOK(In(s, "ERR"), SctpStates) /\ PiOK(In(s, "COOKIE"), SctpStates)  BY <1>1 DEF SctpStates
  <2>. QED  BY <2>1, <2>2, <1>1, <1>2
<1>6. PiOK(m, SctpStates)
  <2>1. s.state \in SctpStates  BY DEF PiOK
  <2>2. \/ m = SctpClosed(s, p, d, old) \/ m = SctpInited(s, p, old) \/ m = SctpInitAcked(s, p, d, old)
        \/ m = In(s, "ERR") \/ m = In(s, "SHUT") \/ m = In(s, "ABRT") \/ m = In(s, "EST")
        \/ m = In(s, "SHUTA") \/ m = In(s, "SHUTC") \/ m = In(s, old)
    BY <2>1, Zenon DEF SctpMove, SctpStates
  <2>3. \A x \in {"ERR", "SHUT", "ABRT", "EST", "SHUTA", "SHUTC"} : PiOK(In(s, x), SctpStates)
    BY <1>1 DEF SctpStates
  <2>. QED  BY <2>2, <2>3, <1>1, <1>3, <1>4, <1>5
<1>7. SctpResult(m.state) = "EST" => m.state = "EST"  BY Zenon DEF SctpResult
<1>8. r.pi = m /\ r.xpi = [xs EXCEPT !.state = m.state] /\ r.smr = SctpResult(m.state)
  BY DEF dp_ct_sctp_sm
<1>. HIDE DEF m
<1>. QED  BY <1>6, <1>7, <1>8 DEF PiOK

LEMMA Machines ==
    ASSUME traffic \in Traffics, NEW pi, NEW xpi, NEW j, j.old \in ProtoStates,
           PiOK(pi, ProtoStates), PiOK(xpi, ProtoStates)
    PROVE  /\ PiOK(dp_ct_sm(pi, xpi, j).pi, ProtoStates)
           /\ PiOK(dp_ct_sm(pi, xpi, j).xpi, ProtoStates)
           /\ dp_ct_sm(pi, xpi, j).pi.state = dp_ct_sm(pi, xpi, j).xpi.state
           /\ dp_ct_sm(pi, xpi, j).smr = "EST" => dp_ct_sm(pi, xpi, j).pi.state = EstablishedState
<1>1. Proto \in {"TCP", "UDP", "ICMP", "SCTP"}  BY TrafficsAssumption DEF Traffic, Proto
<1>2. CASE Proto = "TCP"
  <2>1. ProtoStates = TcpStates /\ dp_ct_sm(pi, xpi, j) = dp_ct_tcp_sm(pi, xpi, j.pkt, j.dir)
    BY <1>2, Zenon DEF ProtoStates, dp_ct_sm
  <2>. QED  BY <1>2, <2>1, TcpMachine DEF EstablishedState
<1>3. CASE Proto = "UDP"
  <2>1. ProtoStates = UdpStates /\ dp_ct_sm(pi, xpi, j) = dp_ct_udp_sm(pi, xpi, j.dir, j.old)
    BY <1>3, Zenon DEF ProtoStates, dp_ct_sm
  <2>. QED  BY <1>3, <2>1, UdpMachine DEF EstablishedState
<1>4. CASE Proto = "ICMP"
  <2>1. ProtoStates = IcmpStates /\ dp_ct_sm(pi, xpi, j) = dp_ct_icmp_sm(pi, xpi, j.pkt)
    BY <1>4, Zenon DEF ProtoStates, dp_ct_sm
  <2>. QED  BY <1>4, <2>1, IcmpMachine DEF EstablishedState
<1>5. CASE Proto = "SCTP"
  <2>1. ProtoStates = SctpStates /\ dp_ct_sm(pi, xpi, j) = dp_ct_sctp_sm(pi, xpi, j.pkt, j.dir, j.old)
    BY <1>5, Zenon DEF ProtoStates, dp_ct_sm
  <2>. QED  BY <1>5, <2>1, SctpMachine DEF EstablishedState
<1>. QED  BY <1>1, <1>2, <1>3, <1>4, <1>5

LEMMA NewState ==
    ASSUME traffic \in Traffics
    PROVE  PiOK(Pi0, ProtoStates)
<1>1. Proto \in {"TCP", "UDP", "ICMP", "SCTP"}  BY TrafficsAssumption DEF Traffic, Proto
<1>2. PiOK(Tcp0, TcpStates) /\ PiOK(Udp0, UdpStates) /\ PiOK(Icmp0, IcmpStates) /\ PiOK(Sctp0, SctpStates)
  BY DEF PiOK, Tcp0, TcpStates, Udp0, UdpStates, Icmp0, IcmpStates, Sctp0, SctpStates
<1>3. \/ Pi0 = Tcp0 /\ ProtoStates = TcpStates
      \/ Pi0 = Udp0 /\ ProtoStates = UdpStates
      \/ Pi0 = Icmp0 /\ ProtoStates = IcmpStates
      \/ Pi0 = Sctp0 /\ ProtoStates = SctpStates
  BY <1>1, Zenon DEF Pi0, ProtoStates
<1>. QED  BY <1>2, <1>3

-----------------------------------------------------------------------------
(* Elements and jobs. *)
LEMMA RevFacts == \A k \in Keys : Rev(k) \in Keys /\ Rev(k) # k /\ Rev(Rev(k)) = k
BY DEF Keys, Rev

LEMMA NewEntryFacts ==
    ASSUME traffic \in Traffics, NEW k \in Keys, NEW d \in Dirs
    PROVE  /\ ElemOK(NewEntry(k, d), ProtoStates)
           /\ NewEntry(k, d).live = TRUE /\ NewEntry(k, d).key = k /\ NewEntry(k, d).dir = d
           /\ NewEntry(k, d).act = "CT" /\ NewEntry(k, d).pi = Pi0
BY NewState DEF NewEntry, ElemOK

LEMMA UnreadFacts ==
    ASSUME traffic \in Traffics
    PROVE  ElemOK(Unread, ProtoStates) /\ Unread.live = FALSE
<1>1. ElemOK(NewEntry("fwd", "IN"), ProtoStates)  BY NewEntryFacts DEF Keys, Dirs
<1>2. ASSUME NEW x, ElemOK(x, ProtoStates), NEW y, y = [x EXCEPT !.live = FALSE]
      PROVE  ElemOK(y, ProtoStates) /\ y.live = FALSE
  BY <1>2 DEF ElemOK
<1>. QED  BY <1>1, <1>2 DEF Unread

LEMMA AtFacts ==
    ASSUME NEW k
    PROVE  /\ At(k) \in Elems => el[At(k)].live /\ el[At(k)].key = k
           /\ At(k) # None => At(k) \in Elems
           /\ At(k) \in Elems \/ At(k) = None
           /\ At(k) = None => \A e \in Elems : el[e].live => el[e].key # k
           /\ KeysDistinct => \A e \in Elems : el[e].live /\ el[e].key = k => e = At(k)
<1>. DEFINE P(e) == el[e].live /\ el[e].key = k
<1>0. None \notin Elems  BY ElemsAssumption
<1>1. CASE \E e \in Elems : P(e)
  <2>1. At(k) = CHOOSE e \in Elems : P(e)  BY <1>1 DEF At
  <2>2. At(k) \in Elems /\ P(At(k))  BY <1>1, <2>1
  <2>. QED  BY <1>0, <2>2 DEF KeysDistinct
<1>2. CASE ~\E e \in Elems : P(e)
  <2>1. At(k) = None  BY <1>2 DEF At
  <2>. QED  BY <1>0, <1>2, <2>1
<1>. QED  BY <1>1, <1>2

(* What a step keeps of an element: its key and direction, what was seen   *)
(* of the connection's end, its action and its state.                      *)
Same(x, y) ==
    y.key = x.key /\ y.dir = x.dir /\ y.fr = x.fr /\ y.act = x.act /\ y.pi = x.pi

LEMMA StoreFacts ==
    ASSUME traffic \in Traffics, NEW f, Store(f), \A e \in Elems : ElemOK(f[e], ProtoStates)
    PROVE  /\ el' = [e \in Elems |-> el'[e]]
           /\ \A e \in Elems : ElemOK(el'[e], ProtoStates)
           /\ \A e \in Elems : el'[e].live \/ Held(e) => el'[e] = f[e]
           /\ \A e \in Elems : f[e].live => el'[e] = f[e]
<1>1. el' = [e \in Elems |-> IF f[e].live \/ Held(e) THEN f[e] ELSE Unread]  BY DEF Store
<1>2. \A e \in Elems : el'[e] = IF f[e].live \/ Held(e) THEN f[e] ELSE Unread  BY <1>1
<1>3. \A e \in Elems : el'[e] = f[e] \/ (el'[e] = Unread /\ ~f[e].live /\ ~Held(e))  BY <1>2
<1>4. ElemOK(Unread, ProtoStates) /\ ~Unread.live  BY UnreadFacts
<1>. HIDE DEF Unread
<1>5. el' = [e \in Elems |-> el'[e]]  BY <1>1
<1>6. \A e \in Elems : ElemOK(el'[e], ProtoStates)  BY <1>3, <1>4
<1>7. \A e \in Elems : el'[e].live \/ Held(e) => el'[e] = f[e]  BY <1>3, <1>4
<1>8. \A e \in Elems : f[e].live => el'[e] = f[e]  BY <1>3
<1>. QED  BY <1>5, <1>6, <1>7, <1>8

LEMMA FreeFacts ==
    ASSUME Typed, NEW k
    PROVE  \A e \in Elems :
              /\ ElemOK(Free(k)[e], ProtoStates) /\ Same(el[e], Free(k)[e])
              /\ Free(k)[e].live => el[e].live /\ el[e].key # k
              /\ el[e].live /\ el[e].key # k => Free(k)[e] = el[e]
<1>. SUFFICES ASSUME NEW e \in Elems
              PROVE  /\ ElemOK(Free(k)[e], ProtoStates) /\ Same(el[e], Free(k)[e])
                     /\ Free(k)[e].live => el[e].live /\ el[e].key # k
                     /\ el[e].live /\ el[e].key # k => Free(k)[e] = el[e]
  OBVIOUS
<1>1. ElemOK(el[e], ProtoStates)  BY DEF Typed
<1>2. Free(k)[e] = IF el[e].key = k THEN [el[e] EXCEPT !.live = FALSE] ELSE el[e]  BY DEF Free
<1>3. CASE el[e].key = k
  <2>1. Free(k)[e] = [el[e] EXCEPT !.live = FALSE]  BY <1>2, <1>3
  <2>. QED  BY <1>1, <1>3, <2>1 DEF ElemOK, Same
<1>4. CASE el[e].key # k
  <2>1. Free(k)[e] = el[e]  BY <1>2, <1>4
  <2>. QED  BY <1>1, <1>4, <2>1 DEF Same
<1>. QED  BY <1>3, <1>4

(* The others are left alone by what c does. *)
Others(c) == cpu' = [d \in CPUs |-> cpu'[d]] /\ \A d \in CPUs \ {c} : cpu'[d] = cpu[d]
LEMMA Moves ==
    ASSUME Typed, NEW c \in CPUs, NEW v
    PROVE  /\ cpu' = [cpu EXCEPT ![c] = v] => Others(c) /\ cpu'[c] = v
           /\ Go(c, v) => Others(c) /\ cpu'[c] = [cpu[c] EXCEPT !.pc = v]
           /\ Done(c) => Others(c) /\ cpu'[c] = Idle
<1>1. cpu = [d \in CPUs |-> cpu[d]]  BY DEF Typed
<1>2. ASSUME NEW w, cpu' = [cpu EXCEPT ![c] = w] PROVE Others(c) /\ cpu'[c] = w
  BY <1>1, <1>2 DEF Others
<1>3. ASSUME Go(c, v) PROVE Others(c) /\ cpu'[c] = [cpu[c] EXCEPT !.pc = v]
  BY <1>3, <1>1 DEF Others, Go
<1>. QED  BY <1>2, <1>3 DEF Done

LEMMA JobStep ==
    ASSUME NEW j, NEW S, JobOK(j, S), NEW pc \in Steps \ Holding, NEW v, v = [j EXCEPT !.pc = pc]
    PROVE  JobOK(v, S) /\ v.pc = pc /\ v.key = j.key
BY DEF JobOK, Steps, Holding

LEMMA Busy ==
    ASSUME Typed, NEW c \in CPUs, cpu[c].pc # "idle"
    PROVE  cpu[c] # Idle /\ JobOK(cpu[c], ProtoStates)
BY DEF Typed, Idle

LEMMA StatesStay ==
    ASSUME traffic' = traffic
    PROVE  /\ ProtoStates' = ProtoStates /\ Pi0' = Pi0
           /\ EstablishedState' = EstablishedState
<1>1. Proto' = Proto  BY DEF Proto
<1>. QED  BY <1>1, Zenon DEF ProtoStates, Pi0, EstablishedState

LEMMA TypedStep ==
    ASSUME Typed, traffic' = traffic, NEW c \in CPUs, Others(c),
           cpu'[c] = Idle \/ JobOK(cpu'[c], ProtoStates), ager' = ager,
           el' = [e \in Elems |-> el'[e]], \A e \in Elems : ElemOK(el'[e], ProtoStates)
    PROVE  Typed'
<1>1. ProtoStates' = ProtoStates  BY StatesStay
<1>2. \A d \in CPUs : cpu'[d] = Idle \/ JobOK(cpu'[d], ProtoStates)  BY DEF Typed, Others
<1>3. Idle' = Idle  BY DEF Idle
<1>. QED  BY <1>1, <1>2, <1>3 DEF Typed, Others

-----------------------------------------------------------------------------
(* What each action does. *)
LEMMA RecvEffect ==
    ASSUME Typed, NEW c \in CPUs, NEW k \in Keys, Recv(c, k)
    PROVE  /\ traffic' = traffic /\ ager' = ager /\ cpu[c] = Idle /\ Others(c)
           /\ el' = [e \in Elems |-> el'[e]]
           /\ \A e \in Elems :
                 /\ ElemOK(el'[e], ProtoStates) /\ el'[e].live = el[e].live
                 /\ el'[e].key = el[e].key /\ el'[e].dir = el[e].dir /\ el'[e].act = el[e].act
                 /\ el'[e].pi = el[e].pi /\ (el[e].fr => el'[e].fr)
           /\ \/ cpu'[c] = Idle
              \/ /\ JobOK(cpu'[c], ProtoStates) /\ cpu'[c].pc = "lookup" /\ cpu'[c].key = k
                 /\ At(k) \in Elems /\ el'[At(k)].act = "FAST" => el'[At(k)].fr
<1>. DEFINE e == At(k)
<1>1. PICK p \in traffic.packets[k] :
         LET fr == el[e].fr \/ l4fin(p)
         IN  IF e = None
             THEN /\ cpu' = [cpu EXCEPT ![c] = Job("lookup", k, p)]
                  /\ UNCHANGED <<el, used>>
             ELSE /\ el' = [el EXCEPT ![e].idle = FALSE,
                                      ![e].fr = IF @ \/ el[e].act = "FAST" THEN fr ELSE @]
                  /\ IF el[e].act = "FAST" /\ ~fr
                     THEN used' = [used EXCEPT ![k] = TRUE] /\ UNCHANGED cpu
                     ELSE cpu' = [cpu EXCEPT ![c] = Job("lookup", k, p)] /\ UNCHANGED used
  BY DEF Recv
<1>2. traffic' = traffic /\ ager' = ager /\ cpu[c] = Idle  BY DEF Recv
<1>3. el = [x \in Elems |-> el[x]] /\ \A x \in Elems : ElemOK(el[x], ProtoStates)  BY DEF Typed
<1>4. ASSUME cpu' = [cpu EXCEPT ![c] = Job("lookup", k, p)]
      PROVE  Others(c) /\ JobOK(cpu'[c], ProtoStates) /\ cpu'[c].pc = "lookup" /\ cpu'[c].key = k
  <2>1. Others(c) /\ cpu'[c] = Job("lookup", k, p)  BY <1>4, Moves
  <2>2. JobOK(Job("lookup", k, p), ProtoStates)  BY DEF JobOK, Job, Steps, Holding, Dirs
  <2>. QED  BY <2>1, <2>2 DEF Job
<1>5. CASE e = None
  <2>1. cpu' = [cpu EXCEPT ![c] = Job("lookup", k, p)] /\ el' = el  BY <1>1, <1>5
  <2>2. e \notin Elems  BY <1>5, ElemsAssumption
  <2>. QED  BY <1>2, <1>3, <1>4, <2>1, <2>2
<1>6. CASE e # None
  <2>0. e \in Elems  BY <1>6, AtFacts
  <2>. HIDE DEF e
  <2>. DEFINE fr == el[e].fr \/ l4fin(p)
              w == IF el[e].fr \/ el[e].act = "FAST" THEN fr ELSE el[e].fr
  <2>1. el' = [el EXCEPT ![e].idle = FALSE, ![e].fr = w]  BY <1>1, <1>6
  <2>2. IF el[e].act = "FAST" /\ ~fr THEN cpu' = cpu
                                     ELSE cpu' = [cpu EXCEPT ![c] = Job("lookup", k, p)]
    BY <1>1, <1>6
  <2>3. w \in BOOLEAN /\ (el[e].fr => w) /\ (el[e].act = "FAST" /\ fr => w)
    <3>1. el[e].fr \in BOOLEAN  BY <1>3, <2>0 DEF ElemOK
    <3>. QED  BY <3>1, Zenon
  <2>. HIDE DEF w
  <2>4. \A x \in Elems \ {e} : el'[x] = el[x]  BY <1>3, <2>1
  <2>5. el'[e] = [[el[e] EXCEPT !.idle = FALSE] EXCEPT !.fr = w]  BY <1>3, <2>0, <2>1
  <2>6. /\ ElemOK(el'[e], ProtoStates) /\ el'[e].live = el[e].live
        /\ el'[e].key = el[e].key /\ el'[e].dir = el[e].dir /\ el'[e].act = el[e].act
        /\ el'[e].pi = el[e].pi /\ el'[e].fr = w
    BY <1>3, <2>0, <2>3, <2>5 DEF ElemOK
  <2>7. el' = [x \in Elems |-> el'[x]]  BY <1>3, <2>1
  <2>8. \A x \in Elems :
           /\ ElemOK(el'[x], ProtoStates) /\ el'[x].live = el[x].live
           /\ el'[x].key = el[x].key /\ el'[x].dir = el[x].dir /\ el'[x].act = el[x].act
           /\ el'[x].pi = el[x].pi /\ (el[x].fr => el'[x].fr)
    BY <1>3, <2>3, <2>4, <2>6
  <2>9. CASE el[e].act = "FAST" /\ ~fr
    <3>1. cpu' = cpu  BY <2>2, <2>9
    <3>2. Others(c) /\ cpu'[c] = Idle  BY <3>1, <1>2 DEF Others, Typed
    <3>. QED  BY <1>2, <2>7, <2>8, <3>2
  <2>10. CASE ~(el[e].act = "FAST" /\ ~fr)
    <3>1. cpu' = [cpu EXCEPT ![c] = Job("lookup", k, p)]  BY <2>2, <2>10
    <3>2. el'[e].act = "FAST" => el'[e].fr  BY <2>3, <2>6, <2>10
    <3>. QED  BY <1>2, <1>4, <2>7, <2>8, <3>1, <3>2 DEF e
  <2>. QED  BY <2>9, <2>10
<1>. QED  BY <1>5, <1>6

LEMMA LookupEffect ==
    ASSUME Typed, NEW c \in CPUs, Lookup(c)
    PROVE  /\ traffic' = traffic /\ ager' = ager /\ el' = el /\ Others(c)
           /\ cpu[c].pc \in {"lookup", "again"} /\ JobOK(cpu[c], ProtoStates)
           /\ \/ cpu'[c] = Idle
              \/ /\ JobOK(cpu'[c], ProtoStates) /\ cpu'[c].pc = "create1"
                 /\ cpu'[c].key = cpu[c].key
                 /\ At(cpu[c].key) = None \/ At(Rev(cpu[c].key)) = None
              \/ /\ JobOK(cpu'[c], ProtoStates) /\ cpu'[c].pc = "begin"
                 /\ cpu'[c].at = At(cpu[c].key) /\ cpu'[c].axt = At(Rev(cpu[c].key))
<1>. DEFINE a == At(cpu[c].key)
            x == At(Rev(cpu[c].key))
            j == cpu[c]
            v == CASE a # None /\ x # None -> [j EXCEPT !.pc = "begin", !.at = a, !.axt = x]
                   [] (a = None \/ x = None) /\ j.pc = "lookup" -> [j EXCEPT !.pc = "create1"]
                   [] OTHER -> Idle
<1>1. /\ traffic' = traffic /\ ager' = ager /\ el' = el /\ cpu[c].pc \in {"lookup", "again"}
  BY DEF Lookup
<1>2. cpu' = [cpu EXCEPT ![c] = v]  BY Zenon DEF Lookup, Typed
<1>3. JobOK(j, ProtoStates)  BY <1>1, Busy
<1>4. \/ v = Idle
      \/ v = [j EXCEPT !.pc = "create1"] /\ (a = None \/ x = None)
      \/ v = [j EXCEPT !.pc = "begin", !.at = a, !.axt = x] /\ a # None /\ x # None
  BY Zenon
<1>. HIDE DEF v
<1>5. Others(c) /\ cpu'[c] = v  BY <1>2, Moves
<1>6. CASE v = Idle  BY <1>1, <1>3, <1>5, <1>6
<1>7. CASE v = [j EXCEPT !.pc = "create1"] /\ (a = None \/ x = None)
  <2>1. JobOK(v, ProtoStates) /\ v.pc = "create1" /\ v.key = j.key
    BY <1>3, <1>7, JobStep DEF Steps, Holding
  <2>. QED  BY <1>1, <1>3, <1>5, <1>7, <2>1
<1>8. CASE v = [j EXCEPT !.pc = "begin", !.at = a, !.axt = x] /\ a # None /\ x # None
  <2>1. a \in Elems /\ x \in Elems  BY <1>8, AtFacts
  <2>. HIDE DEF a, x
  <2>2. JobOK(v, ProtoStates) /\ v.pc = "begin" /\ v.at = a /\ v.axt = x
    BY <1>3, <1>8, <2>1 DEF JobOK, Steps, Holding
  <2>. QED  BY <1>1, <1>3, <1>5, <2>2 DEF a, x
<1>. QED  BY <1>4, <1>6, <1>7, <1>8

(* Elements only leave the map, and keep what they hold as long as they    *)
(* are in it or pointed to.                                                *)
Shrinks(e) ==
    /\ ElemOK(el'[e], ProtoStates) /\ (el'[e].live => el[e].live)
    /\ el'[e].live \/ Held(e) => Same(el[e], el'[e])

(* The entry of k is written to the element b. *)
Wrote(k, d, b) ==
    /\ ~el[b].live /\ el'[b] = NewEntry(k, d)
    /\ \A e \in Elems \ {b} : Shrinks(e) /\ (el'[e].live => el[e].key # k)

LEMMA UpdateEffect ==
    ASSUME Typed, NEW k \in Keys, NEW d \in Dirs, Update(k, d)
    PROVE  \/ el' = el /\ At(k) = None
           \/ /\ el' = [e \in Elems |-> el'[e]]
              /\ \A e \in Elems : ElemOK(el'[e], ProtoStates)
              /\ \E b \in Elems : Wrote(k, d, b)
<1>0. traffic \in Traffics  BY DEF Typed
<1>1. CASE traffic.shared /\ At(k) = None /\ UNCHANGED <<el, used>>
  BY <1>1
<1>2. ASSUME NEW b \in Elems, Takes(b), Store([Free(k) EXCEPT ![b] = NewEntry(k, d)])
      PROVE  /\ el' = [e \in Elems |-> el'[e]]
             /\ \A e \in Elems : ElemOK(el'[e], ProtoStates)
             /\ Wrote(k, d, b)
  <2>. DEFINE f == [Free(k) EXCEPT ![b] = NewEntry(k, d)]
  <2>1. Free(k) = [e \in Elems |-> Free(k)[e]]  BY DEF Free
  <2>2. f[b] = NewEntry(k, d) /\ \A e \in Elems \ {b} : f[e] = Free(k)[e]  BY <2>1
  <2>. HIDE DEF f
  <2>3. \A e \in Elems : /\ ElemOK(Free(k)[e], ProtoStates) /\ Same(el[e], Free(k)[e])
                         /\ (Free(k)[e].live => el[e].live /\ el[e].key # k)
    BY FreeFacts
  <2>4. ElemOK(NewEntry(k, d), ProtoStates) /\ NewEntry(k, d).live  BY <1>0, NewEntryFacts
  <2>5. \A e \in Elems : ElemOK(f[e], ProtoStates)  BY <2>2, <2>3, <2>4
  <2>6. Store(f)  BY <1>2 DEF f
  <2>7. /\ el' = [e \in Elems |-> el'[e]]
        /\ \A e \in Elems : ElemOK(el'[e], ProtoStates)
        /\ \A e \in Elems : el'[e].live \/ Held(e) => el'[e] = f[e]
        /\ \A e \in Elems : f[e].live => el'[e] = f[e]
    BY <1>0, <2>5, <2>6, StoreFacts
  <2>8. el'[b] = NewEntry(k, d)  BY <2>2, <2>4, <2>7
  <2>9. \A e \in Elems \ {b} : Shrinks(e) /\ (el'[e].live => el[e].key # k)
    BY <2>2, <2>3, <2>7 DEF Shrinks
  <2>10. ~el[b].live  BY <1>2 DEF Takes
  <2>. QED  BY <2>7, <2>8, <2>9, <2>10 DEF Wrote
<1>. QED  BY <1>1, <1>2 DEF Update

LEMMA CreateEffect ==
    ASSUME Typed, NEW c \in CPUs, Create(c)
    PROVE  /\ traffic' = traffic /\ ager' = ager /\ Others(c) /\ JobOK(cpu[c], ProtoStates)
           /\ JobOK(cpu'[c], ProtoStates) /\ cpu'[c].key = cpu[c].key
           /\ el' = [e \in Elems |-> el'[e]] /\ \A e \in Elems : ElemOK(el'[e], ProtoStates)
           /\ \/ /\ cpu[c].pc = "create1" /\ cpu'[c].pc = "create2"
                 /\ \/ el' = el /\ At(Rev(cpu[c].key)) = None
                    \/ \E b \in Elems : Wrote(Rev(cpu[c].key), "OUT", b)
              \/ /\ cpu[c].pc = "create2" /\ cpu'[c].pc = "again"
                 /\ \/ el' = el /\ At(cpu[c].key) = None
                    \/ \E b \in Elems : Wrote(cpu[c].key, "IN", b)
<1>. DEFINE j == cpu[c]
            i == IF cpu[c].pc = "create1" THEN 1 ELSE 2
            k == Order(cpu[c].key)[i]
<1>1. /\ traffic' = traffic /\ ager' = ager /\ j.pc \in {"create1", "create2"}
      /\ Go(c, IF i = 1 THEN "create2" ELSE "again")
      /\ Update(k, IF k = cpu[c].key THEN "IN" ELSE "OUT")
  BY DEF Create
<1>2. JobOK(j, ProtoStates) /\ j.key \in Keys  BY <1>1, Busy DEF JobOK
<1>3. Rev(j.key) \in Keys /\ Rev(j.key) # j.key  BY <1>2, RevFacts
<1>4. el = [e \in Elems |-> el[e]] /\ \A e \in Elems : ElemOK(el[e], ProtoStates)  BY DEF Typed
<1>5. CASE j.pc = "create1"
  <2>1. Go(c, "create2") /\ Update(Rev(j.key), "OUT")  BY <1>1, <1>3, <1>5 DEF Order
  <2>2. Others(c) /\ cpu'[c] = [j EXCEPT !.pc = "create2"]  BY <2>1, Moves
  <2>3. JobOK(cpu'[c], ProtoStates) /\ cpu'[c].pc = "create2" /\ cpu'[c].key = j.key
    BY <1>2, <2>2, JobStep DEF Steps, Holding
  <2>4. \/ el' = el /\ At(Rev(j.key)) = None
        \/ /\ el' = [e \in Elems |-> el'[e]] /\ \A e \in Elems : ElemOK(el'[e], ProtoStates)
           /\ \E b \in Elems : Wrote(Rev(j.key), "OUT", b)
    BY <1>3, <2>1, UpdateEffect DEF Dirs
  <2>. QED  BY <1>1, <1>2, <1>4, <1>5, <2>2, <2>3, <2>4
<1>6. CASE j.pc = "create2"
  <2>1. Go(c, "again") /\ Update(j.key, "IN")  BY <1>1, <1>6 DEF Order
  <2>2. Others(c) /\ cpu'[c] = [j EXCEPT !.pc = "again"]  BY <2>1, Moves
  <2>3. JobOK(cpu'[c], ProtoStates) /\ cpu'[c].pc = "again" /\ cpu'[c].key = j.key
    BY <1>2, <2>2, JobStep DEF Steps, Holding
  <2>4. \/ el' = el /\ At(j.key) = None
        \/ /\ el' = [e \in Elems |-> el'[e]] /\ \A e \in Elems : ElemOK(el'[e], ProtoStates)
           /\ \E b \in Elems : Wrote(j.key, "IN", b)
    BY <1>2, <2>1, UpdateEffect DEF Dirs
  <2>. QED  BY <1>1, <1>2, <1>4, <1>6, <2>2, <2>3, <2>4
<1>. QED  BY <1>1, <1>5, <1>6

LEMMA BeginEffect ==
    ASSUME Typed, NEW c \in CPUs, Begin(c)
    PROVE  /\ traffic' = traffic /\ ager' = ager /\ Others(c)
           /\ cpu[c].pc = "begin" /\ JobOK(cpu[c], ProtoStates)
           /\ el' = [e \in Elems |-> el'[e]] /\ \A e \in Elems : Shrinks(e)
           /\ \/ cpu'[c] = Idle
              \/ JobOK(cpu'[c], ProtoStates) /\ cpu'[c].pc = "delete1"
              \/ /\ JobOK(cpu'[c], ProtoStates) /\ cpu'[c].pc = "locked"
                 /\ cpu'[c].at = cpu[c].at /\ cpu'[c].axt = cpu[c].axt
<1>. DEFINE j == cpu[c]
            in == el[j.at].dir = "IN"
            main == IF in THEN j.at ELSE j.axt
            v == CASE j.pkt.hdr = "none"  -> Idle
                   [] j.pkt.hdr = "short" -> [j EXCEPT !.pc = "delete1"]
                   [] OTHER -> [j EXCEPT !.pc = "locked", !.dir = IF in THEN "IN" ELSE "OUT",
                                         !.old = el[main].pi.state]
            f == [el EXCEPT ![j.at].idle = FALSE, ![j.axt].idle = FALSE]
<1>1. traffic' = traffic /\ ager' = ager /\ j.pc = "begin" /\ cpu' = [cpu EXCEPT ![c] = v] /\ Store(f)
  BY DEF Begin
<1>2. JobOK(j, ProtoStates) /\ j.at \in Elems /\ j.axt \in Elems  BY <1>1, Busy DEF JobOK, Holding
<1>3. traffic \in Traffics /\ el = [e \in Elems |-> el[e]] /\ \A e \in Elems : ElemOK(el[e], ProtoStates)
  BY DEF Typed
<1>4. \/ v = Idle
      \/ v = [j EXCEPT !.pc = "delete1"]
      \/ v = [j EXCEPT !.pc = "locked", !.dir = IF in THEN "IN" ELSE "OUT", !.old = el[main].pi.state]
  BY Zenon
<1>5. \A e \in Elems : ElemOK(f[e], ProtoStates) /\ Same(el[e], f[e]) /\ f[e].live = el[e].live
  <2>. SUFFICES ASSUME NEW e \in Elems
                PROVE  ElemOK(f[e], ProtoStates) /\ Same(el[e], f[e]) /\ f[e].live = el[e].live
    OBVIOUS
  <2>. DEFINE g == [el EXCEPT ![j.at].idle = FALSE]
  <2>1. ElemOK(el[e], ProtoStates)  BY <1>3
  <2>2. g = [x \in Elems |-> g[x]] /\ (g[e] = el[e] \/ g[e] = [el[e] EXCEPT !.idle = FALSE])
    BY <1>2, <1>3
  <2>. HIDE DEF g
  <2>3. ElemOK(g[e], ProtoStates) /\ Same(el[e], g[e]) /\ g[e].live = el[e].live
    BY <2>1, <2>2 DEF ElemOK, Same
  <2>4. f = [g EXCEPT ![j.axt].idle = FALSE]  BY DEF g
  <2>5. f[e] = g[e] \/ f[e] = [g[e] EXCEPT !.idle = FALSE]  BY <1>2, <2>2, <2>4
  <2>. HIDE DEF f
  <2>6. ElemOK(f[e], ProtoStates) /\ Same(g[e], f[e]) /\ f[e].live = g[e].live
    BY <2>3, <2>5 DEF ElemOK, Same
  <2>. QED  BY <2>3, <2>6 DEF Same
<1>. HIDE DEF f, v
<1>6. Others(c) /\ cpu'[c] = v  BY <1>1, Moves
<1>7. /\ el' = [e \in Elems |-> el'[e]]
      /\ \A e \in Elems : ElemOK(el'[e], ProtoStates)
      /\ \A e \in Elems : el'[e].live \/ Held(e) => el'[e] = f[e]
  BY <1>1, <1>3, <1>5, StoreFacts
<1>8. \A e \in Elems : Shrinks(e)  BY <1>5, <1>7 DEF Shrinks
<1>9. CASE v = Idle  BY <1>1, <1>2, <1>6, <1>7, <1>8, <1>9
<1>10. CASE v = [j EXCEPT !.pc = "delete1"]
  <2>1. JobOK(v, ProtoStates) /\ v.pc = "delete1"  BY <1>2, <1>10, JobStep DEF Steps, Holding
  <2>. QED  BY <1>1, <1>2, <1>6, <1>7, <1>8, <2>1
<1>11. CASE v = [j EXCEPT !.pc = "locked", !.dir = IF in THEN "IN" ELSE "OUT", !.old = el[main].pi.state]
  <2>1. main \in Elems  BY <1>2
  <2>2. el[main].pi.state \in ProtoStates  BY <1>3, <2>1 DEF ElemOK, PiOK
  <2>3. (IF in THEN "IN" ELSE "OUT") \in Dirs  BY DEF Dirs
  <2>. DEFINE s == el[main].pi.state
              d == IF in THEN "IN" ELSE "OUT"
  <2>. HIDE DEF s, d
  <2>4. v = [j EXCEPT !.pc = "locked", !.dir = d, !.old = s]  BY <1>11 DEF s, d
  <2>5. JobOK(v, ProtoStates) /\ v.pc = "locked" /\ v.at = j.at /\ v.axt = j.axt
    BY <1>2, <2>2, <2>3, <2>4 DEF JobOK, Steps, Holding, s, d
  <2>. QED  BY <1>1, <1>2, <1>6, <1>7, <1>8, <2>5
<1>. QED  BY <1>4, <1>9, <1>10, <1>11

(* Both entries that c points to get the state s. *)
LEMMA TrackEffect ==
    ASSUME Typed, NEW c \in CPUs, Track(c)
    PROVE  /\ traffic' = traffic /\ ager' = ager /\ Others(c)
           /\ cpu[c].pc = "locked" /\ JobOK(cpu[c], ProtoStates)
           /\ el' = [e \in Elems |-> el'[e]]
           /\ \A e \in Elems :
                 /\ ElemOK(el'[e], ProtoStates) /\ (el'[e].live => el[e].live)
                 /\ el'[e].live \/ Held(e) =>
                       /\ el'[e].key = el[e].key /\ el'[e].dir = el[e].dir
                       /\ el'[e].fr = el[e].fr /\ el'[e].act = el[e].act
           /\ \E s \in ProtoStates :
                 /\ \A e \in {cpu[c].at, cpu[c].axt} :
                       el'[e].live \/ Held(e) => el'[e].pi.state = s
                 /\ \/ cpu'[c] = Idle
                    \/ JobOK(cpu'[c], ProtoStates) /\ cpu'[c].pc = "delete1"
                    \/ /\ JobOK(cpu'[c], ProtoStates) /\ cpu'[c].pc = "establish"
                       /\ cpu'[c].at = cpu[c].at /\ cpu'[c].axt = cpu[c].axt
                       /\ s = EstablishedState
<1>. DEFINE j == cpu[c]
            main == IF j.dir = "IN" THEN j.at ELSE j.axt
            x == IF j.dir = "IN" THEN j.axt ELSE j.at
            r == dp_ct_sm(el[main].pi, el[x].pi, j)
            f == [el EXCEPT ![x].pi = r.xpi, ![main].pi = r.pi]
<1>1. /\ traffic' = traffic /\ ager' = ager /\ j.pc = "locked" /\ Store(f)
      /\ IF r.smr \in {"EST", "ERR", "CTD"}
         THEN Go(c, IF r.smr = "EST" THEN "establish" ELSE "delete1")
         ELSE Done(c)
  BY DEF Track
<1>2. JobOK(j, ProtoStates) /\ j.at \in Elems /\ j.axt \in Elems /\ j.old \in ProtoStates
  BY <1>1, Busy DEF JobOK, Holding
<1>3. main \in Elems /\ x \in Elems /\ {main, x} = {j.at, j.axt}  BY <1>2
<1>4. traffic \in Traffics /\ el = [e \in Elems |-> el[e]] /\ \A e \in Elems : ElemOK(el[e], ProtoStates)
  BY DEF Typed
<1>5. /\ PiOK(r.pi, ProtoStates) /\ PiOK(r.xpi, ProtoStates) /\ r.pi.state = r.xpi.state
      /\ r.smr = "EST" => r.pi.state = EstablishedState
  <2>1. PiOK(el[main].pi, ProtoStates) /\ PiOK(el[x].pi, ProtoStates)  BY <1>3, <1>4 DEF ElemOK
  <2>. DEFINE a == el[main].pi
              b == el[x].pi
  <2>2. PiOK(a, ProtoStates) /\ PiOK(b, ProtoStates) /\ j.old \in ProtoStates /\ traffic \in Traffics
        /\ r = dp_ct_sm(a, b, j)
    BY <1>2, <1>4, <2>1
  <2>. HIDE DEF main, x, j, a, b, r
  <2>3. /\ PiOK(dp_ct_sm(a, b, j).pi, ProtoStates)
        /\ PiOK(dp_ct_sm(a, b, j).xpi, ProtoStates)
        /\ dp_ct_sm(a, b, j).pi.state = dp_ct_sm(a, b, j).xpi.state
        /\ dp_ct_sm(a, b, j).smr = "EST" => dp_ct_sm(a, b, j).pi.state = EstablishedState
    BY <2>2, Machines
  <2>. QED  BY <2>2, <2>3
<1>. HIDE DEF r, main, x
<1>. DEFINE s == r.pi.state
            g == [el EXCEPT ![x].pi = r.xpi]
<1>6. \A e \in Elems :
         /\ ElemOK(f[e], ProtoStates) /\ f[e].live = el[e].live
         /\ f[e].key = el[e].key /\ f[e].dir = el[e].dir
         /\ f[e].fr = el[e].fr /\ f[e].act = el[e].act
         /\ (e \in {main, x} => f[e].pi.state = s)
  <2>. SUFFICES ASSUME NEW e \in Elems
                PROVE  /\ ElemOK(f[e], ProtoStates) /\ f[e].live = el[e].live
                       /\ f[e].key = el[e].key /\ f[e].dir = el[e].dir
                       /\ f[e].fr = el[e].fr /\ f[e].act = el[e].act
                       /\ (e \in {main, x} => f[e].pi.state = s)
    OBVIOUS
  <2>1. ElemOK(el[e], ProtoStates)  BY <1>4
  <2>2. g = [y \in Elems |-> g[y]] /\ g[e] = IF e = x THEN [el[e] EXCEPT !.pi = r.xpi] ELSE el[e]
    BY <1>3, <1>4
  <2>3. f = [g EXCEPT ![main].pi = r.pi]  OBVIOUS
  <2>. HIDE DEF g
  <2>4. f[e] = IF e = main THEN [g[e] EXCEPT !.pi = r.pi] ELSE g[e]  BY <1>3, <2>2, <2>3
  <2>. HIDE DEF f
  <2>5. /\ ElemOK(g[e], ProtoStates) /\ g[e].live = el[e].live
        /\ g[e].key = el[e].key /\ g[e].dir = el[e].dir
        /\ g[e].fr = el[e].fr /\ g[e].act = el[e].act
        /\ (e = x => g[e].pi = r.xpi)
    <3>1. CASE e = x  BY <1>5, <2>1, <2>2, <3>1 DEF ElemOK
    <3>2. CASE e # x  BY <2>1, <2>2, <3>2
    <3>. QED  BY <3>1, <3>2
  <2>6. /\ ElemOK(f[e], ProtoStates) /\ f[e].live = g[e].live
        /\ f[e].key = g[e].key /\ f[e].dir = g[e].dir
        /\ f[e].fr = g[e].fr /\ f[e].act = g[e].act
        /\ (e = main => f[e].pi = r.pi) /\ (e # main => f[e].pi = g[e].pi)
    <3>1. CASE e = main  BY <1>5, <2>4, <2>5, <3>1 DEF ElemOK
    <3>2. CASE e # main  BY <2>4, <2>5, <3>2
    <3>. QED  BY <3>1, <3>2
  <2>. QED  BY <1>5, <2>5, <2>6
<1>. HIDE DEF f, g, s
<1>7. /\ el' = [e \in Elems |-> el'[e]]
      /\ \A e \in Elems : ElemOK(el'[e], ProtoStates)
      /\ \A e \in Elems : el'[e].live \/ Held(e) => el'[e] = f[e]
  BY <1>1, <1>4, <1>6, StoreFacts
<1>8. \A e \in Elems :
         /\ ElemOK(el'[e], ProtoStates) /\ (el'[e].live => el[e].live)
         /\ el'[e].live \/ Held(e) =>
               /\ el'[e].key = el[e].key /\ el'[e].dir = el[e].dir
               /\ el'[e].fr = el[e].fr /\ el'[e].act = el[e].act
  BY <1>6, <1>7
<1>9. \A e \in {j.at, j.axt} : el'[e].live \/ Held(e) => el'[e].pi.state = s
  <2>1. \A e \in {j.at, j.axt} : e \in Elems /\ e \in {main, x}  BY <1>2, <1>3
  <2>. HIDE DEF j
  <2>. QED  BY <1>6, <1>7, <2>1
<1>10. s \in ProtoStates  BY <1>5 DEF s, PiOK
<1>11. /\ Others(c)
       /\ \/ cpu'[c] = Idle
          \/ JobOK(cpu'[c], ProtoStates) /\ cpu'[c].pc = "delete1"
          \/ /\ JobOK(cpu'[c], ProtoStates) /\ cpu'[c].pc = "establish"
             /\ cpu'[c].at = j.at /\ cpu'[c].axt = j.axt
             /\ s = EstablishedState
  <2>1. CASE Done(c)
    <3>1. Others(c) /\ cpu'[c] = Idle  BY <2>1, Moves
    <3>. QED  BY <3>1
  <2>2. CASE Go(c, "delete1")
    <3>1. Others(c) /\ cpu'[c] = [j EXCEPT !.pc = "delete1"]  BY <2>2, Moves
    <3>2. JobOK(cpu'[c], ProtoStates) /\ cpu'[c].pc = "delete1"
      BY <1>2, <3>1, JobStep DEF Steps, Holding
    <3>. QED  BY <3>1, <3>2
  <2>3. CASE Go(c, "establish") /\ r.smr = "EST"
    <3>1. Others(c) /\ cpu'[c] = [j EXCEPT !.pc = "establish"]  BY <2>3, Moves
    <3>2. /\ JobOK(cpu'[c], ProtoStates) /\ cpu'[c].pc = "establish"
          /\ cpu'[c].at = j.at /\ cpu'[c].axt = j.axt
      BY <1>2, <3>1 DEF JobOK, Steps, Holding
    <3>. QED  BY <1>5, <2>3, <3>1, <3>2 DEF s
  <2>. QED  BY <1>1, <2>1, <2>2, <2>3
<1>. QED  BY <1>1, <1>2, <1>7, <1>8, <1>9, <1>10, <1>11

LEMMA EstablishEffect ==
    ASSUME Typed, NEW c \in CPUs, Establish(c)
    PROVE  /\ traffic' = traffic /\ ager' = ager /\ Others(c)
           /\ cpu[c].pc = "establish" /\ JobOK(cpu[c], ProtoStates) /\ cpu'[c] = Idle
           /\ el' = [e \in Elems |-> el'[e]]
           /\ \A e \in Elems :
                 /\ ElemOK(el'[e], ProtoStates) /\ (el'[e].live => el[e].live)
                 /\ el'[e].live \/ Held(e) =>
                       /\ el'[e].key = el[e].key /\ el'[e].dir = el[e].dir
                       /\ el'[e].fr = el[e].fr /\ el'[e].pi = el[e].pi
                       /\ (e \in {cpu[c].at, cpu[c].axt} \/ el[e].act = "FAST" => el'[e].act = "FAST")
<1>. DEFINE j == cpu[c]
            f == [el EXCEPT ![j.at].act = "FAST", ![j.axt].act = "FAST"]
            g == [el EXCEPT ![j.at].act = "FAST"]
<1>1. traffic' = traffic /\ ager' = ager /\ j.pc = "establish" /\ Store(f) /\ Done(c)
  BY DEF Establish
<1>2. JobOK(j, ProtoStates) /\ j.at \in Elems /\ j.axt \in Elems
  BY <1>1, Busy DEF JobOK, Holding
<1>3. traffic \in Traffics /\ el = [e \in Elems |-> el[e]] /\ \A e \in Elems : ElemOK(el[e], ProtoStates)
  BY DEF Typed
<1>4. \A e \in Elems :
         /\ ElemOK(f[e], ProtoStates) /\ f[e].live = el[e].live
         /\ f[e].key = el[e].key /\ f[e].dir = el[e].dir
         /\ f[e].fr = el[e].fr /\ f[e].pi = el[e].pi
         /\ (e \in {j.at, j.axt} \/ el[e].act = "FAST" => f[e].act = "FAST")
  <2>. SUFFICES ASSUME NEW e \in Elems
                PROVE  /\ ElemOK(f[e], ProtoStates) /\ f[e].live = el[e].live
                       /\ f[e].key = el[e].key /\ f[e].dir = el[e].dir
                       /\ f[e].fr = el[e].fr /\ f[e].pi = el[e].pi
                       /\ (e \in {j.at, j.axt} \/ el[e].act = "FAST" => f[e].act = "FAST")
    OBVIOUS
  <2>1. ElemOK(el[e], ProtoStates)  BY <1>3
  <2>2. g = [y \in Elems |-> g[y]] /\ g[e] = IF e = j.at THEN [el[e] EXCEPT !.act = "FAST"] ELSE el[e]
    BY <1>2, <1>3
  <2>3. f = [g EXCEPT ![j.axt].act = "FAST"]  OBVIOUS
  <2>. HIDE DEF g
  <2>4. f[e] = IF e = j.axt THEN [g[e] EXCEPT !.act = "FAST"] ELSE g[e]  BY <1>2, <2>2, <2>3
  <2>. HIDE DEF f
  <2>5. /\ ElemOK(g[e], ProtoStates) /\ g[e].live = el[e].live
        /\ g[e].key = el[e].key /\ g[e].dir = el[e].dir
        /\ g[e].fr = el[e].fr /\ g[e].pi = el[e].pi
        /\ (e = j.at \/ el[e].act = "FAST" => g[e].act = "FAST")
    <3>1. CASE e = j.at  BY <2>1, <2>2, <3>1 DEF ElemOK
    <3>2. CASE e # j.at  BY <2>1, <2>2, <3>2
    <3>. QED  BY <3>1, <3>2
  <2>6. /\ ElemOK(f[e], ProtoStates) /\ f[e].live = g[e].live
        /\ f[e].key = g[e].key /\ f[e].dir = g[e].dir
        /\ f[e].fr = g[e].fr /\ f[e].pi = g[e].pi
        /\ (e = j.axt => f[e].act = "FAST") /\ (e # j.axt => f[e].act = g[e].act)
    <3>1. CASE e = j.axt  BY <2>4, <2>5, <3>1 DEF ElemOK
    <3>2. CASE e # j.axt  BY <2>4, <2>5, <3>2
    <3>. QED  BY <3>1, <3>2
  <2>. QED  BY <2>5, <2>6
<1>. HIDE DEF f, g
<1>5. /\ el' = [e \in Elems |-> el'[e]]
      /\ \A e \in Elems : ElemOK(el'[e], ProtoStates)
      /\ \A e \in Elems : el'[e].live \/ Held(e) => el'[e] = f[e]
  BY <1>1, <1>3, <1>4, StoreFacts
<1>6. Others(c) /\ cpu'[c] = Idle  BY <1>1, Moves
<1>. QED  BY <1>1, <1>2, <1>4, <1>5, <1>6

LEMMA FreedEffect ==
    ASSUME Typed, NEW k, Store(Free(k))
    PROVE  /\ el' = [e \in Elems |-> el'[e]]
           /\ \A e \in Elems : Shrinks(e) /\ (el'[e].live => el[e].key # k)
<1>1. traffic \in Traffics  BY DEF Typed
<1>. QED  BY <1>1, FreeFacts, StoreFacts DEF Shrinks

LEMMA DeleteEffect ==
    ASSUME Typed, NEW c \in CPUs, Delete(c)
    PROVE  /\ traffic' = traffic /\ ager' = ager /\ Others(c)
           /\ cpu[c].pc \in {"delete1", "delete2"} /\ JobOK(cpu[c], ProtoStates)
           /\ el' = [e \in Elems |-> el'[e]] /\ \A e \in Elems : Shrinks(e)
           /\ \/ cpu'[c] = Idle
              \/ JobOK(cpu'[c], ProtoStates) /\ cpu'[c].pc = "delete2"
<1>. DEFINE j == cpu[c]
            k == IF j.pc = "delete1" THEN Rev(j.key) ELSE j.key
<1>1. /\ traffic' = traffic /\ ager' = ager /\ j.pc \in {"delete1", "delete2"}
      /\ Go(c, "delete2") \/ Done(c)
      /\ Store(Free(k))
  BY DEF Delete
<1>2. JobOK(j, ProtoStates)  BY <1>1, Busy
<1>3. el' = [e \in Elems |-> el'[e]] /\ \A e \in Elems : Shrinks(e)
  <2>. HIDE DEF k
  <2>. QED  BY <1>1, FreedEffect
<1>4. CASE Go(c, "delete2")
  <2>1. Others(c) /\ cpu'[c] = [j EXCEPT !.pc = "delete2"]  BY <1>4, Moves
  <2>2. JobOK(cpu'[c], ProtoStates) /\ cpu'[c].pc = "delete2"
    BY <1>2, <2>1, JobStep DEF Steps, Holding
  <2>. QED  BY <1>1, <1>2, <1>3, <2>1, <2>2
<1>5. CASE Done(c)
  <2>1. Others(c) /\ cpu'[c] = Idle  BY <1>5, Moves
  <2>. QED  BY <1>1, <1>2, <1>3, <2>1
<1>. QED  BY <1>1, <1>4, <1>5

(* The ageing thread and the clock. *)
Ageing == AgerStep \/ Elapse
LEMMA AgeingEffect ==
    ASSUME Typed, Ageing
    PROVE  /\ traffic' = traffic /\ cpu' = cpu
           /\ AgerOK(ager')
           /\ el' = [e \in Elems |-> el'[e]] /\ \A e \in Elems : Shrinks(e)
<1>1. /\ AgerOK(ager)
      /\ el = [e \in Elems |-> el[e]] /\ \A e \in Elems : ElemOK(el[e], ProtoStates)
  BY DEF Typed
<1>2. ASSUME el' = el PROVE el' = [e \in Elems |-> el'[e]] /\ \A e \in Elems : Shrinks(e)
  BY <1>1, <1>2 DEF Shrinks, Same
<1>8. ASSUME NEW k, NEW pc \in {"walk", "delete"}, pc = "delete" => k \in Keys, AgeMove(k, pc)
      PROVE  AgerOK(ager')
  <2>. DEFINE A == Ahead
              again == ager.again \/ Lost
  <2>1. A \subseteq Keys  BY <1>1 DEF Ahead, AgerOK
  <2>2. PICK passed : ager' = [ager EXCEPT !.pc = pc, !.key = k, !.todo = A \ (passed \cup {k}),
                                           !.again = again]
    BY <1>8 DEF AgeMove
  <2>. HIDE DEF A, again
  <2>. QED  BY <1>1, <1>8, <2>1, <2>2 DEF AgerOK
<1>3. CASE AgeStart
  <2>1. traffic' = traffic /\ cpu' = cpu /\ el' = el /\ ager' = [ager EXCEPT !.pc = "walk", !.todo = Keys]
    BY <1>3 DEF AgeStart
  <2>2. AgerOK(ager')  BY <1>1, <2>1 DEF AgerOK
  <2>. QED  BY <1>2, <2>1, <2>2
<1>4. CASE \E k \in Keys : AgeVisit(k)
  <2>1. PICK k \in Keys : AgeVisit(k)  BY <1>4
  <2>2. /\ traffic' = traffic /\ cpu' = cpu /\ el' = el
        /\ AgeMove(k, "delete") \/ AgeMove(k, "walk")
    BY <2>1 DEF AgeVisit
  <2>3. AgerOK(ager')  BY <1>8, <2>2
  <2>. QED  BY <1>2, <2>2, <2>3
<1>9. CASE AgeOther
  <2>1. /\ traffic' = traffic /\ cpu' = cpu /\ el' = el
        /\ \/ AgeMove(None, "walk")
           \/ /\ ager.pc = "walk"
              /\ ager' = [ager EXCEPT !.key = None, !.todo = Keys, !.again = TRUE, !.churn = @ - 1]
    BY <1>9 DEF AgeOther
  <2>2. CASE AgeMove(None, "walk")
    <3>1. AgerOK(ager')  BY <1>8, <2>2
    <3>. QED  BY <1>2, <2>1, <3>1
  <2>3. CASE /\ ager.pc = "walk"
             /\ ager' = [ager EXCEPT !.key = None, !.todo = Keys, !.again = TRUE, !.churn = @ - 1]
    <3>1. AgerOK(ager')  BY <1>1, <2>3 DEF AgerOK
    <3>. QED  BY <1>2, <2>1, <3>1
  <2>. QED  BY <2>1, <2>2, <2>3
<1>5. CASE AgeDelete
  <2>1. traffic' = traffic /\ cpu' = cpu /\ Store(Free(ager.key)) /\ ager' = [ager EXCEPT !.pc = "walk"]
    BY <1>5 DEF AgeDelete
  <2>2. AgerOK(ager')  BY <1>1, <2>1 DEF AgerOK
  <2>. QED  BY <2>1, <2>2, FreedEffect
<1>6. CASE AgeEnd
  <2>1. traffic' = traffic /\ cpu' = cpu /\ el' = el
        /\ ager' = [ager EXCEPT !.pc = "off", !.todo = {}, !.key = None, !.again = FALSE]
    BY <1>6 DEF AgeEnd
  <2>2. AgerOK(ager')  BY <1>1, <2>1 DEF AgerOK
  <2>. QED  BY <1>2, <2>1, <2>2
<1>7. CASE Elapse
  <2>1. traffic' = traffic /\ cpu' = cpu /\ ager' = ager
        /\ el' = [e \in Elems |-> [el[e] EXCEPT !.idle = TRUE]]
    BY <1>7 DEF Elapse
  <2>2. ASSUME NEW e \in Elems PROVE Shrinks(e)
    <3>1. el'[e] = [el[e] EXCEPT !.idle = TRUE] /\ ElemOK(el[e], ProtoStates)  BY <1>1, <2>1
    <3>. QED  BY <3>1 DEF ElemOK, Same, Shrinks
  <2>. QED  BY <1>1, <2>1, <2>2
<1>. QED  BY <1>3, <1>4, <1>5, <1>6, <1>7, <1>9 DEF Ageing, AgerStep
-----------------------------------------------------------------------------
(* The invariant of the map: no two entries of a key, and two entries of   *)
(* direction out only between the two updates of a CPU.                    *)
LEMMA InitMap == ASSUME Init PROVE MapInv
<1>1. ElemOK(Unread, ProtoStates) /\ Unread.live = FALSE  BY UnreadFacts DEF Init
<1>2. \A e \in Elems : el[e] = Unread  BY DEF Init
<1>3. Typed  BY <1>1 DEF Init, Typed, AgerOK, Keys
<1>4. \A e \in Elems : el[e].live = FALSE  BY <1>1, <1>2
<1>. QED  BY <1>3, <1>4 DEF MapInv, KeysDistinct, OutInv, Pair

LEMMA TwoKeys == \A k, i, j \in Keys : i # k /\ j # k => i = j
BY DEF Keys

(* A step that puts no entry in the map. *)
Keeps(e) == el'[e].live => el[e].live /\ el'[e].key = el[e].key /\ el'[e].dir = el[e].dir
LEMMA MapKept ==
    ASSUME MapInv, \A e \in Elems : Keeps(e),
           \A c \in CPUs : cpu[c].pc = "create2" => cpu'[c].pc = "create2"
    PROVE  KeysDistinct' /\ OutInv'
<1>1. KeysDistinct'  BY DEF MapInv, KeysDistinct, Keeps
<1>2. ASSUME NEW d \in Elems, NEW e \in Elems, Pair(d, e)', el'[d].dir = "OUT", el'[e].dir = "OUT"
      PROVE  \E c \in CPUs : cpu'[c].pc = "create2"
  <2>1. Pair(d, e) /\ el[d].dir = "OUT" /\ el[e].dir = "OUT"  BY <1>2 DEF Pair, Keeps
  <2>. QED  BY <2>1 DEF MapInv, OutInv
<1>. QED  BY <1>1, <1>2 DEF OutInv

LEMMA ShrinksKeeps == \A e \in Elems : Shrinks(e) => Keeps(e)
BY DEF Shrinks, Keeps, Same

LEMMA WroteNew ==
    ASSUME Typed, NEW k \in Keys, NEW d \in Dirs, NEW b, Wrote(k, d, b)
    PROVE  /\ el'[b].live = TRUE /\ el'[b].key = k /\ el'[b].dir = d
           /\ el'[b].act = "CT" /\ el'[b].pi = Pi0
<1>1. el'[b] = NewEntry(k, d)  BY DEF Wrote
<1>. QED  BY <1>1 DEF NewEntry

LEMMA CreateMap ==
    ASSUME MapInv, NEW c \in CPUs, Create(c)
    PROVE  MapInv'
<1>. DEFINE k == cpu[c].key
<1>1. Typed /\ KeysDistinct /\ OutInv  BY DEF MapInv
<1>2. /\ traffic' = traffic /\ ager' = ager /\ Others(c) /\ JobOK(cpu[c], ProtoStates)
      /\ JobOK(cpu'[c], ProtoStates) /\ cpu'[c].key = k
      /\ el' = [e \in Elems |-> el'[e]] /\ \A e \in Elems : ElemOK(el'[e], ProtoStates)
      /\ \/ /\ cpu[c].pc = "create1" /\ cpu'[c].pc = "create2"
            /\ \/ el' = el /\ At(Rev(k)) = None
               \/ \E b \in Elems : Wrote(Rev(k), "OUT", b)
         \/ /\ cpu[c].pc = "create2" /\ cpu'[c].pc = "again"
            /\ \/ el' = el /\ At(k) = None
               \/ \E b \in Elems : Wrote(k, "IN", b)
  BY <1>1, CreateEffect
<1>3. k \in Keys /\ Rev(k) \in Keys  BY <1>2, RevFacts DEF JobOK
<1>4. Typed'  BY <1>1, <1>2, TypedStep
<1>5. \A e \in Elems : el[e].key \in Keys  BY <1>1 DEF Typed, ElemOK
<1>. HIDE DEF k
<1>6. KeysDistinct'
  <2>1. ASSUME NEW i \in Keys, NEW d \in Dirs, NEW b \in Elems, Wrote(i, d, b) PROVE KeysDistinct'
    <3>1. el'[b].key = i  BY <2>1 DEF Wrote, NewEntry
    <3>2. \A e \in Elems \ {b} : el'[e].live => el[e].live /\ el'[e].key = el[e].key /\ el[e].key # i
      BY <2>1 DEF Wrote, Shrinks, Same
    <3>. QED  BY <1>1, <3>1, <3>2 DEF KeysDistinct
  <2>2. CASE el' = el  BY <1>1, <2>2 DEF KeysDistinct
  <2>3. CASE \E b \in Elems : Wrote(Rev(k), "OUT", b)  BY <1>3, <2>1, <2>3 DEF Dirs
  <2>4. CASE \E b \in Elems : Wrote(k, "IN", b)  BY <1>3, <2>1, <2>4 DEF Dirs
  <2>. QED  BY <1>2, <2>2, <2>3, <2>4
<1>7. CASE cpu[c].pc = "create1" /\ cpu'[c].pc = "create2"
  BY <1>4, <1>6, <1>7 DEF MapInv, OutInv
<1>8. CASE cpu[c].pc = "create2" /\ cpu'[c].pc = "again"
  <2>1. ASSUME NEW d \in Elems, NEW e \in Elems, Pair(d, e)', el'[d].dir = "OUT", el'[e].dir = "OUT"
        PROVE  FALSE
    <3>1. d # e /\ el'[d].live /\ el'[e].live  BY <2>1 DEF Pair
    <3>2. CASE el' = el /\ At(k) = None
      <4>1. el[d].key # k /\ el[e].key # k  BY <3>1, <3>2, AtFacts
      <4>2. el[d].key = el[e].key  BY <1>3, <1>5, <4>1, TwoKeys
      <4>. QED  BY <1>1, <3>1, <3>2, <4>2 DEF KeysDistinct
    <3>3. CASE \E b \in Elems : Wrote(k, "IN", b)
      <4>1. PICK b \in Elems : Wrote(k, "IN", b)  BY <3>3
      <4>2. el'[b].dir = "IN"  BY <1>1, <1>3, <4>1, WroteNew DEF Dirs
      <4>3. d # b /\ e # b  BY <2>1, <4>2
      <4>4. el[d].key # k /\ el[e].key # k /\ el[d].live /\ el[e].live
        BY <3>1, <4>1, <4>3 DEF Wrote, Shrinks
      <4>5. el[d].key = el[e].key  BY <1>3, <1>5, <4>4, TwoKeys
      <4>. QED  BY <1>1, <3>1, <4>4, <4>5 DEF KeysDistinct
    <3>. QED  BY <1>2, <1>8, <3>2, <3>3
  <2>2. OutInv'  BY <2>1 DEF OutInv
  <2>. QED  BY <1>4, <1>6, <2>2 DEF MapInv
<1>. QED  BY <1>2, <1>7, <1>8

LEMMA NextMap == ASSUME MapInv, [Next]_vars PROVE MapInv'
<1>1. Typed /\ KeysDistinct /\ OutInv  BY DEF MapInv
<1>2. ASSUME NEW c \in CPUs, Others(c), cpu[c].pc # "create2"
      PROVE  \A d \in CPUs : cpu[d].pc = "create2" => cpu'[d].pc = "create2"
  BY <1>2 DEF Others
<1>3. ASSUME NEW c \in CPUs, NEW k \in Keys, Recv(c, k) PROVE MapInv'
  <2>1. /\ traffic' = traffic /\ ager' = ager /\ cpu[c] = Idle /\ Others(c)
        /\ el' = [e \in Elems |-> el'[e]]
        /\ \A e \in Elems : /\ ElemOK(el'[e], ProtoStates) /\ el'[e].live = el[e].live
                            /\ el'[e].key = el[e].key /\ el'[e].dir = el[e].dir
        /\ cpu'[c] = Idle \/ JobOK(cpu'[c], ProtoStates)
    BY <1>1, <1>3, RecvEffect
  <2>2. \A e \in Elems : Keeps(e)  BY <2>1 DEF Keeps
  <2>3. cpu[c].pc # "create2"  BY <2>1 DEF Idle
  <2>. QED  BY <1>1, <1>2, <2>1, <2>2, <2>3, MapKept, TypedStep DEF MapInv
<1>4. ASSUME NEW c \in CPUs, Lookup(c) PROVE MapInv'
  <2>1. /\ traffic' = traffic /\ ager' = ager /\ el' = el /\ Others(c)
        /\ cpu[c].pc # "create2" /\ (cpu'[c] = Idle \/ JobOK(cpu'[c], ProtoStates))
    BY <1>1, <1>4, LookupEffect
  <2>2. el' = [e \in Elems |-> el'[e]] /\ \A e \in Elems : ElemOK(el'[e], ProtoStates)
    BY <1>1, <2>1 DEF Typed
  <2>3. \A e \in Elems : Keeps(e)  BY <2>1 DEF Keeps
  <2>. QED  BY <1>1, <1>2, <2>1, <2>2, <2>3, MapKept, TypedStep DEF MapInv
<1>5. ASSUME NEW c \in CPUs, Begin(c) \/ Delete(c) PROVE MapInv'
  <2>1. /\ traffic' = traffic /\ ager' = ager /\ Others(c) /\ cpu[c].pc # "create2"
        /\ cpu'[c] = Idle \/ JobOK(cpu'[c], ProtoStates)
        /\ el' = [e \in Elems |-> el'[e]] /\ \A e \in Elems : Shrinks(e)
    BY <1>1, <1>5, BeginEffect, DeleteEffect
  <2>2. \A e \in Elems : ElemOK(el'[e], ProtoStates)  BY <2>1 DEF Shrinks
  <2>. QED  BY <1>1, <1>2, <2>1, <2>2, ShrinksKeeps, MapKept, TypedStep DEF MapInv
<1>6. ASSUME NEW c \in CPUs, Track(c) \/ Establish(c) PROVE MapInv'
  <2>1. CASE Track(c)
    <3>1. /\ traffic' = traffic /\ ager' = ager /\ Others(c) /\ cpu[c].pc # "create2"
          /\ el' = [e \in Elems |-> el'[e]]
          /\ cpu'[c] = Idle \/ JobOK(cpu'[c], ProtoStates)
      BY <1>1, <2>1, TrackEffect
    <3>2. \A e \in Elems : Keeps(e) /\ ElemOK(el'[e], ProtoStates)
      BY <1>1, <2>1, TrackEffect DEF Keeps
    <3>. QED  BY <1>1, <1>2, <3>1, <3>2, MapKept, TypedStep DEF MapInv
  <2>2. CASE Establish(c)
    <3>1. /\ traffic' = traffic /\ ager' = ager /\ Others(c) /\ cpu[c].pc # "create2"
          /\ el' = [e \in Elems |-> el'[e]] /\ cpu'[c] = Idle
      BY <1>1, <2>2, EstablishEffect
    <3>2. \A e \in Elems : Keeps(e) /\ ElemOK(el'[e], ProtoStates)
      BY <1>1, <2>2, EstablishEffect DEF Keeps
    <3>. QED  BY <1>1, <1>2, <3>1, <3>2, MapKept, TypedStep DEF MapInv
  <2>. QED  BY <1>6, <2>1, <2>2
<1>7. ASSUME Ageing PROVE MapInv'
  <2>1. /\ traffic' = traffic /\ cpu' = cpu
        /\ AgerOK(ager')
        /\ el' = [e \in Elems |-> el'[e]] /\ \A e \in Elems : Shrinks(e)
    BY <1>1, <1>7, AgeingEffect
  <2>2. \A e \in Elems : ElemOK(el'[e], ProtoStates)  BY <2>1 DEF Shrinks
  <2>3. ProtoStates' = ProtoStates  BY <2>1, StatesStay
  <2>4. Typed'  BY <1>1, <2>1, <2>2, <2>3 DEF Typed
  <2>. QED  BY <2>1, <2>4, ShrinksKeeps, MapKept DEF MapInv
<1>8. ASSUME UNCHANGED vars PROVE MapInv'
  BY <1>1, <1>8 DEF vars, MapInv, Typed, KeysDistinct, OutInv, Pair, ProtoStates, Proto
<1>. QED  BY <1>3, <1>4, <1>5, <1>6, <1>7, <1>8, CreateMap DEF Next, CpuStep, Ageing
-----------------------------------------------------------------------------
(* The invariant of one CPU.                                               *)
LEMMA ShrinkKeeps ==
    ASSUME traffic' = traffic, \A e \in Elems : Shrinks(e)
    PROVE  /\ AllAlike => AllAlike'
           /\ NonePaired => NonePaired'
           /\ MarkedEst => MarkedEst'
           /\ NoneMarked => NoneMarked'
<1>1. ASSUME NEW d \in Elems, NEW e \in Elems, Pair(d, e)'
      PROVE  Pair(d, e) /\ Same(el[d], el'[d]) /\ Same(el[e], el'[e])
  BY <1>1 DEF Pair, Shrinks
<1>2. EstablishedState' = EstablishedState  BY StatesStay
<1>3. AllAlike => AllAlike'  BY <1>1 DEF AllAlike, Alike, Same
<1>4. NonePaired => NonePaired'  BY <1>1 DEF NonePaired
<1>5. MarkedEst => MarkedEst'  BY <1>1, <1>2 DEF MarkedEst, Marked, Same
<1>6. NoneMarked => NoneMarked'  BY <1>1 DEF NoneMarked, Marked, Same
<1>. QED  BY <1>3, <1>4, <1>5, <1>6

LEMMA NoneMarkedEst == NoneMarked => MarkedEst
BY DEF NoneMarked, MarkedEst

(* Entries that only left the map are still alike where the CPU points. *)
LEMMA ShrinkHolds ==
    ASSUME Typed, \A e \in Elems : Shrinks(e), NEW c \in CPUs, NEW j, HoldsPair(j),
           j.at \in Elems, j.axt \in Elems,
           cpu'[c].pc \in Holding, cpu'[c].at = j.at, cpu'[c].axt = j.axt
    PROVE  /\ HoldsPair(cpu[c])'
           /\ el'[j.at].pi = el[j.at].pi
<1>1. Held(j.at) /\ Held(j.axt)  BY DEF Held, Holding
<1>2. Same(el[j.at], el'[j.at]) /\ Same(el[j.axt], el'[j.axt])  BY <1>1 DEF Shrinks
<1>3. \A e \in Elems : el'[e].live => e \in {j.at, j.axt}  BY DEF Shrinks, HoldsPair
<1>. QED  BY <1>2, <1>3 DEF HoldsPair, Alike, Same

(* At most one entry of each key: an absent key leaves no pair. *)
LEMMA AbsentKey ==
    ASSUME Typed, KeysDistinct, NEW k \in Keys, At(k) = None
    PROVE  NonePaired
<1>. SUFFICES ASSUME NEW d \in Elems, NEW e \in Elems, Pair(d, e) PROVE FALSE
  BY DEF NonePaired
<1>1. d # e /\ el[d].live /\ el[e].live  BY DEF Pair
<1>2. el[d].key # k /\ el[e].key # k  BY <1>1, AtFacts
<1>3. el[d].key \in Keys /\ el[e].key \in Keys  BY DEF Typed, ElemOK
<1>4. el[d].key = el[e].key  BY <1>2, <1>3, TwoKeys
<1>. QED  BY <1>1, <1>4 DEF KeysDistinct

LEMMA OneAgeing ==
    ASSUME Typed, Ageing, NEW c \in CPUs, Sole(c), Agrees(c)
    PROVE  Sole(c)' /\ Agrees(c)'
<1>1. traffic' = traffic /\ cpu' = cpu /\ \A e \in Elems : Shrinks(e)  BY AgeingEffect
<1>2. /\ (AllAlike => AllAlike') /\ (NonePaired => NonePaired')
      /\ (MarkedEst => MarkedEst') /\ (NoneMarked => NoneMarked')
  BY <1>1, ShrinkKeeps
<1>3. Sole(c)'  BY <1>1 DEF Sole
<1>4. Fresh(cpu[c]) => Fresh(cpu[c])'
  <2>1. Pi0' = Pi0  BY <1>1, StatesStay
  <2>. QED  BY <1>1, <2>1 DEF Fresh, Shrinks, Same
<1>5. CASE cpu[c].pc \in Holding
  <2>1. HoldsPair(cpu[c]) /\ AllAlike  BY <1>5 DEF Agrees, Holding
  <2>2. cpu[c].at \in Elems /\ cpu[c].axt \in Elems  BY <1>5, Busy DEF JobOK, Holding
  <2>3. HoldsPair(cpu[c])' /\ el'[cpu[c].at].pi = el[cpu[c].at].pi  BY <1>1, <1>5, <2>1, <2>2, ShrinkHolds
  <2>4. EstablishedState' = EstablishedState  BY <1>1, StatesStay
  <2>5. cpu'[c] = cpu[c]  BY <1>1
  <2>6. cpu[c].pc = "establish" => el'[cpu[c].at].pi.state = EstablishedState'
    BY <2>3, <2>4 DEF Agrees
  <2>7. cpu[c].pc # "establish" => NoneMarked'  BY <1>2, <1>5 DEF Agrees, Holding, Steps
  <2>. QED  BY <1>2, <1>3, <1>5, <2>1, <2>3, <2>5, <2>6, <2>7 DEF Agrees, Holding
<1>6. CASE cpu[c].pc \notin Holding
  <2>1. cpu'[c] = cpu[c]  BY <1>1
  <2>. QED  BY <1>2, <1>3, <1>4, <1>6, <2>1 DEF Agrees, Holding
<1>. QED  BY <1>5, <1>6

LEMMA SoleStays == ASSUME NEW c \in CPUs, Sole(c), Others(c) PROVE Sole(c)'
BY DEF Sole, Others

LEMMA OneLookup ==
    ASSUME MapInv, NEW c \in CPUs, Lookup(c), Agrees(c)
    PROVE  Agrees(c)'
<1>. DEFINE k == cpu[c].key
<1>1. Typed /\ KeysDistinct  BY DEF MapInv
<1>2. /\ traffic' = traffic /\ el' = el
      /\ cpu[c].pc \in {"lookup", "again"} /\ k \in Keys /\ Rev(k) \in Keys /\ Rev(k) # k
      /\ \/ cpu'[c] = Idle
         \/ /\ cpu'[c].pc = "create1"
            /\ At(k) = None \/ At(Rev(k)) = None
         \/ /\ JobOK(cpu'[c], ProtoStates) /\ cpu'[c].pc = "begin"
            /\ cpu'[c].at = At(k) /\ cpu'[c].axt = At(Rev(k))
  BY <1>1, LookupEffect, RevFacts DEF JobOK
<1>3. AllAlike /\ NoneMarked  BY <1>2 DEF Agrees, Steps
<1>4. EstablishedState' = EstablishedState  BY <1>2, StatesStay
<1>5. AllAlike' /\ NoneMarked' /\ MarkedEst'
  BY <1>2, <1>3, <1>4 DEF AllAlike, NoneMarked, MarkedEst, Pair, Marked
<1>. HIDE DEF k
<1>6. CASE cpu'[c] = Idle
  <2>1. cpu'[c].pc = "idle"  BY <1>6 DEF Idle
  <2>. QED  BY <1>5, <2>1 DEF Agrees, Holding, Steps
<1>7. CASE cpu'[c].pc = "create1" /\ (At(k) = None \/ At(Rev(k)) = None)
  <2>1. NonePaired  BY <1>1, <1>2, <1>7, AbsentKey
  <2>2. NonePaired'  BY <1>2, <2>1 DEF NonePaired, Pair
  <2>. QED  BY <1>5, <1>7, <2>2 DEF Agrees, Holding
<1>8. CASE /\ JobOK(cpu'[c], ProtoStates) /\ cpu'[c].pc = "begin"
           /\ cpu'[c].at = At(k) /\ cpu'[c].axt = At(Rev(k))
  <2>1. At(k) \in Elems /\ At(Rev(k)) \in Elems  BY <1>8 DEF JobOK, Holding
  <2>2. /\ el[At(k)].live /\ el[At(k)].key = k
        /\ el[At(Rev(k))].live /\ el[At(Rev(k))].key = Rev(k)
    BY <2>1, AtFacts
  <2>3. At(k) # At(Rev(k))  BY <1>2, <2>2
  <2>4. Alike(el[At(k)], el[At(Rev(k))])  BY <1>3, <2>1, <2>2, <2>3 DEF AllAlike, Pair
  <2>5. ASSUME NEW e \in Elems, el[e].live PROVE e \in {At(k), At(Rev(k))}
    <3>1. el[e].key \in Keys  BY <1>1 DEF Typed, ElemOK
    <3>2. el[e].key = k \/ el[e].key = Rev(k)  BY <1>2, <3>1, TwoKeys
    <3>. QED  BY <1>1, <2>5, <3>2, AtFacts
  <2>6. HoldsPair(cpu[c])'  BY <1>2, <1>8, <2>3, <2>4, <2>5 DEF HoldsPair
  <2>. QED  BY <1>5, <1>8, <2>6 DEF Agrees, Holding
<1>. QED  BY <1>2, <1>6, <1>7, <1>8
LEMMA OneCreate ==
    ASSUME MapInv, NEW c \in CPUs, Create(c), Agrees(c)
    PROVE  Agrees(c)'
<1>. DEFINE k == cpu[c].key
<1>1. Typed /\ KeysDistinct  BY DEF MapInv
<1>2. /\ traffic' = traffic /\ cpu'[c].key = k
      /\ k \in Keys /\ Rev(k) \in Keys /\ Rev(k) # k
      /\ \/ /\ cpu[c].pc = "create1" /\ cpu'[c].pc = "create2"
            /\ \/ el' = el /\ At(Rev(k)) = None
               \/ \E b \in Elems : Wrote(Rev(k), "OUT", b)
         \/ /\ cpu[c].pc = "create2" /\ cpu'[c].pc = "again"
            /\ \/ el' = el /\ At(k) = None
               \/ \E b \in Elems : Wrote(k, "IN", b)
  BY <1>1, CreateEffect, RevFacts DEF JobOK
<1>3. Pi0' = Pi0  BY <1>2, StatesStay
<1>4. CASE /\ cpu[c].pc = "create1" /\ cpu'[c].pc = "create2"
           /\ \/ el' = el /\ At(Rev(k)) = None
              \/ \E b \in Elems : Wrote(Rev(k), "OUT", b)
  <2>. HIDE DEF k
  <2>1. ASSUME NEW e \in Elems, el'[e].live, el'[e].key = Rev(k)
        PROVE  el'[e].dir = "OUT" /\ el'[e].act = "CT" /\ el'[e].pi.state = Pi0.state
    <3>1. CASE el' = el /\ At(Rev(k)) = None  BY <2>1, <3>1, AtFacts
    <3>2. CASE \E b \in Elems : Wrote(Rev(k), "OUT", b)
      <4>1. PICK b \in Elems : Wrote(Rev(k), "OUT", b)  BY <3>2
      <4>2. e = b  BY <2>1, <4>1 DEF Wrote, Shrinks, Same
      <4>. QED  BY <4>1, <4>2 DEF Wrote, NewEntry
    <3>. QED  BY <1>4, <3>1, <3>2
  <2>2. Fresh(cpu[c])'  BY <1>2, <1>3, <2>1 DEF Fresh
  <2>. QED  BY <1>4, <2>2 DEF Agrees, Holding
<1>5. CASE /\ cpu[c].pc = "create2" /\ cpu'[c].pc = "again"
           /\ \/ el' = el /\ At(k) = None
              \/ \E b \in Elems : Wrote(k, "IN", b)
  <2>1. Fresh(cpu[c])  BY <1>5 DEF Agrees
  <2>2. \A e \in Elems : el[e].live /\ el[e].key = Rev(k) =>
           el[e].dir = "OUT" /\ el[e].act = "CT" /\ el[e].pi.state = Pi0.state
    BY <2>1 DEF Fresh
  <2>. HIDE DEF k
  <2>3. CASE el' = el /\ At(k) = None
    <3>1. NonePaired  BY <1>1, <1>2, <2>3, AbsentKey
    <3>2. NonePaired'  BY <2>3, <3>1 DEF NonePaired, Pair
    <3>3. AllAlike' /\ NoneMarked'  BY <3>2 DEF NonePaired, AllAlike, NoneMarked
    <3>. QED  BY <1>5, <3>3 DEF Agrees, Holding
  <2>4. CASE \E b \in Elems : Wrote(k, "IN", b)
    <3>1. PICK b \in Elems : Wrote(k, "IN", b)  BY <2>4
    <3>2. el'[b].dir = "IN" /\ el'[b].act = "CT" /\ el'[b].pi = Pi0  BY <3>1 DEF Wrote, NewEntry
    <3>3. ASSUME NEW e \in Elems \ {b}, el'[e].live
          PROVE  /\ el[e].live /\ el[e].key = Rev(k)
                 /\ el'[e].dir = "OUT" /\ el'[e].act = "CT" /\ el'[e].pi.state = Pi0.state
      <4>1. el[e].live /\ el[e].key # k /\ Same(el[e], el'[e])  BY <3>1, <3>3 DEF Wrote, Shrinks
      <4>2. el[e].key \in Keys  BY <1>1 DEF Typed, ElemOK
      <4>3. el[e].key = Rev(k)  BY <1>2, <4>1, <4>2, TwoKeys
      <4>. QED  BY <2>2, <4>1, <4>3 DEF Same
    <3>4. ASSUME NEW d \in Elems, NEW e \in Elems, Pair(d, e)'
          PROVE  Alike(el'[d], el'[e]) /\ el'[d].act = "CT"
      <4>1. d # e /\ el'[d].live /\ el'[e].live  BY <3>4 DEF Pair
      <4>2. CASE d = b  BY <3>2, <3>3, <4>1, <4>2 DEF Alike
      <4>3. CASE e = b  BY <3>2, <3>3, <4>1, <4>3 DEF Alike
      <4>4. CASE d # b /\ e # b
        <5>1. el[d].live /\ el[e].live /\ el[d].key = el[e].key  BY <3>3, <4>1, <4>4
        <5>. QED  BY <1>1, <4>1, <5>1 DEF KeysDistinct
      <4>. QED  BY <4>2, <4>3, <4>4
    <3>5. AllAlike' /\ NoneMarked'  BY <3>4 DEF AllAlike, NoneMarked, Marked
    <3>. QED  BY <1>5, <3>5 DEF Agrees, Holding
  <2>. QED  BY <1>5, <2>3, <2>4
<1>. QED  BY <1>2, <1>4, <1>5

LEMMA OneBegin ==
    ASSUME MapInv, NEW c \in CPUs, Begin(c), Agrees(c)
    PROVE  Agrees(c)'
<1>1. Typed  BY DEF MapInv
<1>2. /\ traffic' = traffic /\ cpu[c].pc = "begin" /\ JobOK(cpu[c], ProtoStates)
      /\ \A e \in Elems : Shrinks(e)
      /\ \/ cpu'[c] = Idle
         \/ cpu'[c].pc = "delete1"
         \/ /\ cpu'[c].pc = "locked"
            /\ cpu'[c].at = cpu[c].at /\ cpu'[c].axt = cpu[c].axt
  BY <1>1, BeginEffect
<1>3. AllAlike /\ NoneMarked /\ HoldsPair(cpu[c])  BY <1>2 DEF Agrees, Holding, Steps
<1>4. AllAlike' /\ NoneMarked' /\ MarkedEst'  BY <1>2, <1>3, ShrinkKeeps, NoneMarkedEst
<1>5. CASE cpu'[c] = Idle
  <2>1. cpu'[c].pc = "idle"  BY <1>5 DEF Idle
  <2>. QED  BY <1>4, <2>1 DEF Agrees, Holding, Steps
<1>6. CASE cpu'[c].pc = "delete1"  BY <1>4, <1>6 DEF Agrees, Holding
<1>7. CASE cpu'[c].pc = "locked" /\ cpu'[c].at = cpu[c].at /\ cpu'[c].axt = cpu[c].axt
  <2>1. cpu[c].at \in Elems /\ cpu[c].axt \in Elems  BY <1>2 DEF JobOK, Holding
  <2>2. cpu'[c].pc \in Holding  BY <1>7 DEF Holding
  <2>3. HoldsPair(cpu[c])'  BY <1>1, <1>2, <1>3, <1>7, <2>1, <2>2, ShrinkHolds
  <2>. QED  BY <1>4, <1>7, <2>3 DEF Agrees, Holding
<1>. QED  BY <1>2, <1>5, <1>6, <1>7

LEMMA OneDelete ==
    ASSUME MapInv, NEW c \in CPUs, Delete(c), Agrees(c)
    PROVE  Agrees(c)'
<1>1. Typed  BY DEF MapInv
<1>2. /\ traffic' = traffic /\ cpu[c].pc \in {"delete1", "delete2"}
      /\ \A e \in Elems : Shrinks(e)
      /\ cpu'[c] = Idle \/ cpu'[c].pc = "delete2"
  BY <1>1, DeleteEffect
<1>3. AllAlike /\ NoneMarked  BY <1>2 DEF Agrees, Steps
<1>4. AllAlike' /\ NoneMarked' /\ MarkedEst'  BY <1>2, <1>3, ShrinkKeeps, NoneMarkedEst
<1>5. cpu'[c].pc = "idle" \/ cpu'[c].pc = "delete2"  BY <1>2 DEF Idle
<1>. QED  BY <1>4, <1>5 DEF Agrees, Holding
LEMMA OneTrack ==
    ASSUME MapInv, NEW c \in CPUs, Track(c), Agrees(c)
    PROVE  Agrees(c)'
<1>. DEFINE j == cpu[c]
<1>1. Typed  BY DEF MapInv
<1>2. traffic' = traffic /\ j.pc = "locked" /\ JobOK(j, ProtoStates)  BY <1>1, TrackEffect
<1>3. ASSUME NEW e \in Elems
      PROVE  /\ el'[e].live => el[e].live
             /\ el'[e].live \/ Held(e) =>
                   /\ el'[e].key = el[e].key /\ el'[e].dir = el[e].dir
                   /\ el'[e].fr = el[e].fr /\ el'[e].act = el[e].act
  BY <1>1, TrackEffect
<1>4. PICK s : /\ \A e \in {j.at, j.axt} : el'[e].live \/ Held(e) => el'[e].pi.state = s
               /\ \/ cpu'[c] = Idle
                  \/ cpu'[c].pc = "delete1"
                  \/ /\ cpu'[c].pc = "establish"
                     /\ cpu'[c].at = j.at /\ cpu'[c].axt = j.axt
                     /\ s = EstablishedState
  BY <1>1, TrackEffect
<1>5. AllAlike /\ NoneMarked /\ HoldsPair(j)  BY <1>2 DEF Agrees, Holding, Steps
<1>6. j.at \in Elems /\ j.axt \in Elems  BY <1>2 DEF JobOK, Holding
<1>. HIDE DEF j
<1>7. \A e \in Elems : el'[e].live => e \in {j.at, j.axt}  BY <1>3, <1>5 DEF HoldsPair
<1>8. ASSUME NEW d \in Elems, NEW e \in Elems, Pair(d, e)'
      PROVE  Pair(d, e) /\ Alike(el'[d], el'[e]) /\ ~Marked(d, e)'
  <2>1. d # e /\ el'[d].live /\ el'[e].live  BY <1>8 DEF Pair
  <2>2. Pair(d, e)  BY <1>3, <2>1 DEF Pair
  <2>3. Alike(el[d], el[e]) /\ ~Marked(d, e)  BY <1>5, <2>2 DEF AllAlike, NoneMarked
  <2>4. el'[d].pi.state = s /\ el'[e].pi.state = s  BY <1>4, <1>7, <2>1
  <2>5. /\ el'[d].dir = el[d].dir /\ el'[d].fr = el[d].fr /\ el'[d].act = el[d].act
        /\ el'[e].dir = el[e].dir /\ el'[e].fr = el[e].fr /\ el'[e].act = el[e].act
    BY <1>3, <2>1
  <2>. QED  BY <2>2, <2>3, <2>4, <2>5 DEF Alike, Marked
<1>9. AllAlike' /\ NoneMarked' /\ MarkedEst'  BY <1>8 DEF AllAlike, NoneMarked, MarkedEst
<1>10. CASE cpu'[c] = Idle
  <2>1. cpu'[c].pc = "idle"  BY <1>10 DEF Idle
  <2>. QED  BY <1>9, <2>1 DEF Agrees, Holding, Steps
<1>11. CASE cpu'[c].pc = "delete1"  BY <1>9, <1>11 DEF Agrees, Holding
<1>12. CASE /\ cpu'[c].pc = "establish" /\ cpu'[c].at = j.at /\ cpu'[c].axt = j.axt
            /\ s = EstablishedState
  <2>1. Held(j.at) /\ Held(j.axt)  BY <1>12 DEF Held
  <2>2. /\ el'[j.at].dir = el[j.at].dir /\ el'[j.at].act = el[j.at].act
        /\ el'[j.axt].dir = el[j.axt].dir /\ el'[j.axt].act = el[j.axt].act
    BY <1>3, <1>6, <2>1
  <2>3. el'[j.at].pi.state = s /\ el'[j.axt].pi.state = s  BY <1>4, <2>1
  <2>4. HoldsPair(cpu[c])'  BY <1>5, <1>7, <1>12, <2>2, <2>3 DEF HoldsPair, Alike
  <2>5. EstablishedState' = EstablishedState  BY <1>2, StatesStay
  <2>6. el'[cpu'[c].at].pi.state = EstablishedState'  BY <1>12, <2>3, <2>5
  <2>. QED  BY <1>9, <1>12, <2>4, <2>6 DEF Agrees, Holding
<1>. QED  BY <1>4, <1>10, <1>11, <1>12

LEMMA OneEstablish ==
    ASSUME MapInv, NEW c \in CPUs, Establish(c), Agrees(c)
    PROVE  Agrees(c)'
<1>. DEFINE j == cpu[c]
<1>1. Typed  BY DEF MapInv
<1>2. traffic' = traffic /\ j.pc = "establish" /\ JobOK(j, ProtoStates) /\ cpu'[c] = Idle
  BY <1>1, EstablishEffect
<1>3. ASSUME NEW e \in Elems, el'[e].live
      PROVE  /\ el[e].live /\ el'[e].dir = el[e].dir /\ el'[e].pi = el[e].pi
             /\ e \in {j.at, j.axt} => el'[e].act = "FAST"
  BY <1>1, <1>3, EstablishEffect
<1>4. AllAlike /\ HoldsPair(j) /\ el[j.at].pi.state = EstablishedState
  BY <1>2 DEF Agrees, Holding
<1>5. EstablishedState' = EstablishedState  BY <1>2, StatesStay
<1>6. cpu'[c].pc = "idle"  BY <1>2 DEF Idle
<1>. HIDE DEF j
<1>7. el[j.axt].pi.state = EstablishedState  BY <1>4 DEF HoldsPair, Alike
<1>8. ASSUME NEW d \in Elems, NEW e \in Elems, Pair(d, e)'
      PROVE  Alike(el'[d], el'[e]) /\ el'[d].pi.state = EstablishedState
  <2>1. d # e /\ el'[d].live /\ el'[e].live  BY <1>8 DEF Pair
  <2>2. d \in {j.at, j.axt} /\ e \in {j.at, j.axt}  BY <1>3, <1>4, <2>1 DEF HoldsPair
  <2>3. Alike(el[d], el[e])  BY <1>3, <1>4, <2>1 DEF AllAlike, Pair
  <2>4. el'[d].act = "FAST" /\ el'[e].act = "FAST"  BY <1>3, <2>1, <2>2
  <2>5. el[d].pi.state = EstablishedState  BY <1>4, <1>7, <2>2
  <2>. QED  BY <1>3, <2>1, <2>3, <2>4, <2>5 DEF Alike
<1>9. AllAlike' /\ MarkedEst'  BY <1>5, <1>8 DEF AllAlike, MarkedEst
<1>. QED  BY <1>6, <1>9 DEF Agrees, Holding, Steps

(* With one worker a packet is only received when every CPU is idle. *)
LEMMA AllIdle ==
    ASSUME traffic.workers = 1, NEW c \in CPUs, NEW k, Recv(c, k)
    PROVE  \A d \in CPUs : cpu[d] = Idle
<1>. DEFINE B == {d \in CPUs : cpu[d] # Idle}
<1>1. Cardinality(B) < 1  BY DEF Recv
<1>2. IsFiniteSet(CPUs) /\ B \subseteq CPUs  BY CPUsAssumption
<1>3. IsFiniteSet(B)  BY <1>2, FS_Subset
<1>4. Cardinality(B) \in Nat  BY <1>3, FS_CardinalityType
<1>5. Cardinality(B) = 0  BY <1>1, <1>4
<1>6. B = {}  BY <1>3, <1>5, FS_EmptySet
<1>. QED  BY <1>6

LEMMA OneRecv ==
    ASSUME MapInv, traffic.workers = 1, NEW c \in CPUs, NEW k \in Keys, Recv(c, k),
           NEW a \in CPUs, Agrees(a)
    PROVE  Sole(c)' /\ Agrees(c)'
<1>1. Typed /\ KeysDistinct  BY DEF MapInv
<1>2. \A d \in CPUs : cpu[d] = Idle  BY AllIdle
<1>3. cpu[a].pc = "idle"  BY <1>2 DEF Idle
<1>4. AllAlike /\ MarkedEst  BY <1>3 DEF Agrees
<1>5. traffic' = traffic /\ Others(c)  BY <1>1, RecvEffect
<1>6. \A e \in Elems : /\ el'[e].live = el[e].live /\ el'[e].key = el[e].key
                       /\ el'[e].dir = el[e].dir /\ el'[e].act = el[e].act
                       /\ el'[e].pi = el[e].pi /\ (el[e].fr => el'[e].fr)
  BY <1>1, RecvEffect
<1>7. \/ cpu'[c] = Idle
      \/ /\ cpu'[c].pc = "lookup"
         /\ At(k) \in Elems /\ el'[At(k)].act = "FAST" => el'[At(k)].fr
  BY <1>1, RecvEffect
<1>8. Sole(c)'  BY <1>2, <1>5 DEF Sole, Others
<1>9. EstablishedState' = EstablishedState  BY <1>5, StatesStay
<1>10. \A d, e \in Elems : Pair(d, e)' => Pair(d, e)  BY <1>6 DEF Pair
<1>11. AllAlike'  BY <1>4, <1>6, <1>10 DEF AllAlike, Alike
<1>12. MarkedEst'  BY <1>4, <1>6, <1>9, <1>10 DEF MarkedEst, Marked
<1>13. CASE cpu'[c] = Idle
  <2>1. cpu'[c].pc = "idle"  BY <1>13 DEF Idle
  <2>. QED  BY <1>8, <1>11, <1>12, <2>1 DEF Agrees, Holding, Steps
<1>14. CASE /\ cpu'[c].pc = "lookup"
            /\ At(k) \in Elems /\ el'[At(k)].act = "FAST" => el'[At(k)].fr
  <2>1. ASSUME NEW d \in Elems, NEW e \in Elems, Pair(d, e)' PROVE ~Marked(d, e)'
    <3>1. d # e /\ el[d].live /\ el[e].live  BY <1>10, <2>1 DEF Pair
    <3>2. el[d].key \in Keys /\ el[e].key \in Keys  BY <1>1 DEF Typed, ElemOK
    <3>3. el[d].key # el[e].key  BY <1>1, <3>1 DEF KeysDistinct
    <3>4. el[d].key = k \/ el[e].key = k  BY <3>2, <3>3, TwoKeys
    <3>5. d = At(k) \/ e = At(k)  BY <1>1, <3>1, <3>4, AtFacts
    <3>6. el'[d].act = el'[e].act  BY <1>11, <2>1 DEF AllAlike, Alike
    <3>. QED  BY <1>14, <3>5, <3>6 DEF Marked
  <2>2. NoneMarked'  BY <2>1 DEF NoneMarked
  <2>. QED  BY <1>8, <1>11, <1>14, <2>2 DEF Agrees, Holding
<1>. QED  BY <1>7, <1>13, <1>14
LEMMA InitOne == ASSUME Init PROVE OneInv
<1>1. Unread.live = FALSE  BY UnreadFacts DEF Init
<1>2. \A e \in Elems : el[e].live = FALSE  BY <1>1 DEF Init
<1>3. AllAlike /\ MarkedEst  BY <1>2 DEF AllAlike, MarkedEst, Pair
<1>4. PICK c : c \in CPUs  BY CPUsAssumption
<1>5. cpu[c].pc = "idle" /\ Sole(c)  BY <1>4 DEF Init, Idle, Sole
<1>6. Agrees(c)  BY <1>3, <1>5 DEF Agrees, Holding, Steps
<1>. QED  BY <1>4, <1>5, <1>6 DEF OneInv

LEMMA NextOne == ASSUME MapInv, OneInv, [Next]_vars PROVE OneInv'
<1>. SUFFICES ASSUME traffic'.workers = 1
              PROVE  \E c \in CPUs : Sole(c)' /\ Agrees(c)'
  BY DEF OneInv
<1>1. Typed  BY DEF MapInv
<1>2. traffic' = traffic
  BY DEF Next, CpuStep, AgerStep, vars, Recv, Lookup, Create, Begin, Track, Establish, Delete,
         AgeStart, AgeVisit, AgeOther, AgeDelete, AgeEnd, Elapse
<1>3. PICK a \in CPUs : Sole(a) /\ Agrees(a)  BY <1>2 DEF OneInv
<1>4. ASSUME NEW c \in CPUs, NEW k \in Keys, Recv(c, k) PROVE Sole(c)' /\ Agrees(c)'
  BY <1>2, <1>3, <1>4, OneRecv
<1>5. ASSUME NEW c \in CPUs, CpuStep(c) PROVE Sole(a)' /\ Agrees(a)'
  <2>1. Others(c) /\ cpu[c].pc # "idle"
    BY <1>1, <1>5, LookupEffect, CreateEffect, BeginEffect, TrackEffect, EstablishEffect, DeleteEffect
       DEF CpuStep
  <2>2. cpu[c] # Idle  BY <2>1 DEF Idle
  <2>3. c = a  BY <1>3, <2>2 DEF Sole
  <2>4. Sole(a)'  BY <1>3, <2>1, <2>3, SoleStays
  <2>5. Agrees(a)'
    BY <1>3, <1>5, <2>3, OneLookup, OneCreate, OneBegin, OneTrack, OneEstablish, OneDelete DEF CpuStep
  <2>. QED  BY <2>4, <2>5
<1>6. ASSUME Ageing PROVE Sole(a)' /\ Agrees(a)'  BY <1>1, <1>3, <1>6, OneAgeing
<1>7. ASSUME UNCHANGED vars PROVE Sole(a)' /\ Agrees(a)'
  <2>1. traffic' = traffic /\ el' = el /\ cpu' = cpu  BY <1>7 DEF vars
  <2>2. Pi0' = Pi0 /\ EstablishedState' = EstablishedState  BY <2>1, StatesStay
  <2>3. Sole(a)'  BY <1>3, <2>1 DEF Sole
  <2>4. Agrees(a)'
    BY <1>3, <2>1, <2>2 DEF Agrees, AllAlike, NonePaired, MarkedEst, NoneMarked, Fresh, HoldsPair,
                            Pair, Marked
  <2>. QED  BY <2>3, <2>4
<1>. QED  BY <1>3, <1>4, <1>5, <1>6, <1>7 DEF Next, Ageing

(* What every state of ct_map and of the CPUs satisfies: the inductive     *)
(* invariant of the theorems below.                                        *)
THEOREM Invariant == Spec => [](MapInv /\ OneInv)
<1>1. Init => MapInv /\ OneInv  BY InitMap, InitOne
<1>2. MapInv /\ OneInv /\ [Next]_vars => (MapInv /\ OneInv)'  BY NextMap, NextOne
<1>. QED  BY <1>1, <1>2, PTL DEF Spec

-----------------------------------------------------------------------------
(* Whatever the CPUs, the ageing thread and the other connections do, the  *)
(* elements keep their shape and their states stay those of the protocol,  *)
(* no two live elements have the same key, and every CPU holds pointers to *)
(* elements where its step follows them.                                   *)
THEOREM TypeCorrect == Spec => []TypeOK
<1>1. ASSUME MapInv PROVE TypeOK
  <2>1. Typed /\ KeysDistinct  BY <1>1 DEF MapInv
  <2>2. \A e \in Elems : /\ DOMAIN el[e] = {"live", "key", "dir", "act", "fr", "idle", "pi"}
                         /\ el[e].dir \in Dirs /\ el[e].act \in {"CT", "FAST"}
                         /\ el[e].pi.state \in ProtoStates
    BY <2>1 DEF Typed, ElemOK, PiOK
  <2>3. \A d, e \in Elems : el[d].live /\ el[e].live /\ d # e => el[d].key # el[e].key
    BY <2>1 DEF KeysDistinct
  <2>4. \A c \in CPUs : cpu[c] # Idle /\ cpu[c].pc \in {"begin", "locked", "establish"} =>
                            cpu[c].at \in Elems /\ cpu[c].axt \in Elems
    BY <2>1 DEF Typed, JobOK, Holding
  <2>5. /\ ager.pc \in {"off", "walk", "delete"} /\ ager.todo \subseteq Keys
        /\ ager.pc = "delete" => ager.key \in Keys
    BY <2>1 DEF Typed, AgerOK
  <2>. QED  BY <2>2, <2>3, <2>4, <2>5 DEF TypeOK
<1>. QED  BY <1>1, Invariant, PTL

LEMMA PairedIsPair ==
    ASSUME MapInv, Paired
    PROVE  /\ At("fwd") \in Elems /\ At("rev") \in Elems
           /\ Pair(At("fwd"), At("rev")) /\ Pair(At("rev"), At("fwd"))
<1>1. At("fwd") \in Elems /\ At("rev") \in Elems  BY AtFacts DEF Paired, Keys
<1>2. /\ el[At("fwd")].live /\ el[At("fwd")].key = "fwd"
      /\ el[At("rev")].live /\ el[At("rev")].key = "rev"
  BY <1>1, AtFacts
<1>. QED  BY <1>1, <1>2 DEF Pair

(* For any number of CPUs racing to create the entries of a connection,    *)
(* and updates that fail in a full map: once no CPU is at work, a pair of  *)
(* entries has one of direction in, and the ageing thread can delete it.   *)
THEOREM NeverLeftBothOut == Spec => []NeverBothOut
<1>1. ASSUME MapInv PROVE NeverBothOut
  <2>. SUFFICES ASSUME Quiet, Paired PROVE \E k \in Keys : Entry(k).dir = "IN"
    BY DEF NeverBothOut
  <2>1. /\ At("fwd") \in Elems /\ At("rev") \in Elems /\ Pair(At("fwd"), At("rev"))
    BY <1>1, PairedIsPair
  <2>2. \A c \in CPUs : cpu[c].pc # "create2"  BY DEF Quiet, Idle
  <2>3. ~(el[At("fwd")].dir = "OUT" /\ el[At("rev")].dir = "OUT")
    BY <1>1, <2>1, <2>2 DEF MapInv, OutInv
  <2>4. el[At("fwd")].dir \in Dirs /\ el[At("rev")].dir \in Dirs
    BY <1>1, <2>1 DEF MapInv, Typed, ElemOK
  <2>5. el[At("fwd")].dir = "IN" \/ el[At("rev")].dir = "IN"  BY <2>3, <2>4 DEF Dirs
  <2>. QED  BY <2>5 DEF Entry, Keys
<1>. QED  BY <1>1, Invariant, PTL

LEMMA QuietAgrees ==
    ASSUME OneInv, traffic.workers = 1, Quiet
    PROVE  AllAlike /\ MarkedEst
<1>1. PICK c \in CPUs : Agrees(c)  BY DEF OneInv
<1>2. cpu[c].pc = "idle"  BY <1>1 DEF Quiet, Idle
<1>. QED  BY <1>1, <1>2 DEF Agrees

(* With one CPU, whatever the packets, the protocol and the ageing thread  *)
(* do between its steps, the two entries agree whenever it is done: one of *)
(* each direction, with the same state and the same action.                *)
THEOREM PairsAgree == Spec => []PairAgrees
<1>1. ASSUME MapInv, OneInv PROVE PairAgrees
  <2>. SUFFICES ASSUME traffic.workers = 1, Quiet, Paired
                PROVE  Alike(el[At("fwd")], el[At("rev")])
    BY DEF PairAgrees, Entry, Alike
  <2>1. /\ At("fwd") \in Elems /\ At("rev") \in Elems /\ Pair(At("fwd"), At("rev"))
    BY <1>1, PairedIsPair
  <2>. QED  BY <1>1, <2>1, QuietAgrees DEF AllAlike
<1>. QED  BY <1>1, Invariant, PTL

(* With one CPU, entries whose packets pass without tracking are those of  *)
(* an established connection until a packet that ends it was seen.         *)
THEOREM FastPathIsEstablished == Spec => []FastIsEstablished
<1>1. ASSUME MapInv, OneInv PROVE FastIsEstablished
  <2>. SUFFICES ASSUME traffic.workers = 1, Quiet, Paired, \A k \in Keys : ~Entry(k).fr,
                       NEW k \in Keys, Entry(k).act = "FAST"
                PROVE  Entry(k).pi.state = EstablishedState
    BY DEF FastIsEstablished
  <2>1. /\ At("fwd") \in Elems /\ At("rev") \in Elems
        /\ Pair(At("fwd"), At("rev")) /\ Pair(At("rev"), At("fwd"))
    BY <1>1, PairedIsPair
  <2>2. ~el[At("fwd")].fr /\ ~el[At("rev")].fr  BY DEF Entry, Keys
  <2>3. MarkedEst  BY <1>1, QuietAgrees
  <2>4. CASE k = "fwd"  BY <2>1, <2>2, <2>3, <2>4 DEF MarkedEst, Marked, Entry
  <2>5. CASE k = "rev"  BY <2>1, <2>2, <2>3, <2>5 DEF MarkedEst, Marked, Entry
  <2>. QED  BY <2>4, <2>5 DEF Keys
<1>. QED  BY <1>1, Invariant, PTL
-----------------------------------------------------------------------------
(* UDP on any number of CPUs.  A CPU may write back a state that it read   *)
(* before another one wrote EST; but whoever writes EST goes on to mark    *)
(* both entries, and whoever counts the first packet of the other side     *)
(* writes EST unless it is there.                                          *)
Counts(u) == u = [state |-> u.state, pkts_seen |-> u.pkts_seen, rpkts_seen |-> u.rpkts_seen]
BothSeen(u) == u.pkts_seen > 0 /\ u.rpkts_seen > 0
UdpOK(e) == Counts(el[e].pi) /\ (el[e].pi.state = "EST" \/ BothSeen(el[e].pi) => WillBeFast(e))
UdpInv == Proto = "UDP" => \A e \in Elems : el[e].live => UdpOK(e)

LEMMA UdpCounts ==
    ASSUME NEW u, NEW xu, NEW d, NEW old, u.state \in UdpStates,
           NEW r, r = dp_ct_udp_sm(u, xu, d, old)
    PROVE  /\ Counts(u) => /\ Counts(r.pi) /\ (r.pi.state = "EST" => r.smr = "EST")
                           /\ BothSeen(r.pi) => r.smr = "EST" \/ u.state = "EST"
           /\ Counts(xu) => /\ Counts(r.xpi) /\ (r.xpi.state = "EST" => r.smr = "EST")
                            /\ BothSeen(r.xpi) => BothSeen(xu)
<1>. DEFINE w == IF d = "IN" THEN [u EXCEPT !.pkts_seen = (@ + 1) % U16]
                 ELSE [u EXCEPT !.rpkts_seen = (@ + 1) % U16]
            s == UdpState(w, old)
<1>1. r.pi = [w EXCEPT !.state = s] /\ r.xpi = [xu EXCEPT !.state = s] /\ r.smr = UdpResult(s)
  BY DEF dp_ct_udp_sm
<1>2. Counts(u) => Counts(w) /\ w.state = u.state  BY DEF Counts
<1>3. Counts(u) /\ BothSeen(w) => s = "EST" \/ u.state = "EST"
  <2>. DEFINE P == w.pkts_seen > 0
              Q == w.rpkts_seen > 0
              T == w.pkts_seen > CT_UDP_CONN_THRESHOLD
  <2>1. s = CASE w.state = "CNI" /\ (Dsr \/ (P /\ Q)) -> "EST"
              [] w.state = "CNI" /\ ~Dsr /\ w.rpkts_seen = 0 /\ T -> "UEST"
              [] w.state = "UEST" /\ Q -> "EST"
              [] OTHER -> old
    BY DEF UdpState
  <2>2. BothSeen(w) => P /\ Q /\ w.rpkts_seen # 0  BY DEF BothSeen
  <2>3. Counts(u) => w.state = u.state /\ u.state \in {"CNI", "UEST", "EST"}  BY <1>2 DEF UdpStates
  <2>. HIDE DEF w, s, P, Q, T
  <2>4. ASSUME P, Q, w.rpkts_seen # 0, w.state = "CNI" PROVE s = "EST"  BY <2>1, <2>4, Zenon
  <2>5. ASSUME P, Q, w.rpkts_seen # 0, w.state = "UEST" PROVE s = "EST"
    <3>1. w.state # "CNI"  BY <2>5
    <3>. QED  BY <2>1, <2>5, <3>1, Zenon
  <2>. QED  BY <2>2, <2>3, <2>4, <2>5
<1>. HIDE DEF w, s
<1>4. UdpResult("EST") = "EST"  BY DEF UdpResult
<1>5. ASSUME NEW v, Counts(v), NEW y, y = [v EXCEPT !.state = s]
      PROVE  Counts(y) /\ y.state = s /\ (BothSeen(y) => BothSeen(v))
  BY <1>5 DEF Counts, BothSeen
<1>. QED  BY <1>1, <1>2, <1>3, <1>4, <1>5

LEMMA UdpNew == ASSUME Proto = "UDP" PROVE Counts(Pi0) /\ Pi0.state # "EST" /\ ~BothSeen(Pi0)
<1>1. Pi0 = Udp0  BY Zenon DEF Pi0
<1>. QED  BY <1>1 DEF Udp0, Counts, BothSeen

LEMMA UdpKept ==
    ASSUME UdpInv, traffic' = traffic,
           \A e \in Elems : el'[e].live =>
              \/ el[e].live /\ el'[e].pi = el[e].pi /\ (WillBeFast(e) => WillBeFast(e)')
              \/ el'[e].pi = Pi0
    PROVE  UdpInv'
<1>1. Proto' = Proto  BY DEF Proto
<1>. SUFFICES ASSUME Proto = "UDP", NEW e \in Elems, el'[e].live PROVE UdpOK(e)'
  BY <1>1 DEF UdpInv
<1>2. CASE el[e].live /\ el'[e].pi = el[e].pi /\ (WillBeFast(e) => WillBeFast(e)')
  BY <1>2 DEF UdpInv, UdpOK
<1>3. CASE el'[e].pi = Pi0  BY <1>3, UdpNew DEF UdpOK
<1>. QED  BY <1>2, <1>3

(* What only the step of a CPU at "establish" could undo. *)
LEMMA FastStays ==
    ASSUME NEW e \in Elems, NEW c \in CPUs, Others(c), cpu[c].pc # "establish",
           el'[e].act = el[e].act, WillBeFast(e)
    PROVE  WillBeFast(e)'
BY DEF WillBeFast, Others

LEMMA UdpTrack ==
    ASSUME Typed, UdpInv, NEW c \in CPUs, Track(c)
    PROVE  UdpInv'
<1>. DEFINE j == cpu[c]
            main == IF j.dir = "IN" THEN j.at ELSE j.axt
            x == IF j.dir = "IN" THEN j.axt ELSE j.at
            r == dp_ct_sm(el[main].pi, el[x].pi, j)
            f == [el EXCEPT ![x].pi = r.xpi, ![main].pi = r.pi]
<1>1. /\ traffic' = traffic /\ j.pc = "locked" /\ Store(f)
      /\ r.smr = "EST" => Go(c, "establish")
  BY DEF Track
<1>2. Proto' = Proto  BY <1>1 DEF Proto
<1>. SUFFICES ASSUME Proto = "UDP", NEW e \in Elems, el'[e].live PROVE UdpOK(e)'
  BY <1>2 DEF UdpInv
<1>3. JobOK(j, ProtoStates) /\ j.at \in Elems /\ j.axt \in Elems  BY <1>1, Busy DEF JobOK, Holding
<1>4. main \in Elems /\ x \in Elems /\ {main, x} = {j.at, j.axt}  BY <1>3
<1>5. el = [d \in Elems |-> el[d]] /\ \A d \in Elems : ElemOK(el[d], ProtoStates)  BY DEF Typed
<1>6. Others(c) /\ el[e].live /\ el'[e].act = el[e].act  BY TrackEffect
<1>7. el[e].live => UdpOK(e)  BY DEF UdpInv
<1>8. r.smr = "EST" => \A d \in {main, x} : WillBeFast(d)'
  <2>1. ASSUME r.smr = "EST"
        PROVE  cpu'[c].pc = "establish" /\ cpu'[c].at = j.at /\ cpu'[c].axt = j.axt
    <3>1. Go(c, "establish")  BY <1>1, <2>1
    <3>2. cpu'[c] = [j EXCEPT !.pc = "establish"]  BY <3>1, Moves
    <3>. QED  BY <1>3, <3>2 DEF JobOK
  <2>. HIDE DEF r, main, x, j
  <2>. QED  BY <1>4, <2>1 DEF WillBeFast
<1>9. WillBeFast(e) => WillBeFast(e)'  BY <1>1, <1>6, FastStays
<1>10. el'[e].pi = f[e].pi
  <2>1. el'[e] = IF f[e].live \/ Held(e) THEN f[e] ELSE Unread  BY <1>1 DEF Store
  <2>2. Unread.live = FALSE  BY UnreadFacts DEF Typed
  <2>. HIDE DEF f, Unread
  <2>. QED  BY <2>1, <2>2
<1>11. r = dp_ct_udp_sm(el[main].pi, el[x].pi, j.dir, j.old)  BY Zenon DEF dp_ct_sm
<1>12. el[main].pi.state \in UdpStates
  <2>1. ProtoStates = UdpStates  BY Zenon DEF ProtoStates
  <2>. QED  BY <1>4, <1>5, <2>1 DEF ElemOK, PiOK
<1>. HIDE DEF r, main, x, j
<1>13. f[e].pi = IF e = main THEN r.pi ELSE IF e = x THEN r.xpi ELSE el[e].pi
  <2>. DEFINE g == [el EXCEPT ![x].pi = r.xpi]
  <2>1. g = [y \in Elems |-> g[y]] /\ g[e] = IF e = x THEN [el[e] EXCEPT !.pi = r.xpi] ELSE el[e]
    BY <1>4, <1>5
  <2>2. f = [g EXCEPT ![main].pi = r.pi]  OBVIOUS
  <2>. HIDE DEF g
  <2>3. f[e] = IF e = main THEN [g[e] EXCEPT !.pi = r.pi] ELSE g[e]  BY <1>4, <2>1, <2>2
  <2>. HIDE DEF f
  <2>4. "pi" \in DOMAIN el[e]  BY <1>5 DEF ElemOK
  <2>5. "pi" \in DOMAIN g[e] /\ g[e].pi = IF e = x THEN r.xpi ELSE el[e].pi
    <3>1. CASE e = x  BY <2>1, <2>4, <3>1
    <3>2. CASE e # x  BY <2>1, <2>4, <3>2
    <3>. QED  BY <3>1, <3>2
  <2>. QED  BY <2>3, <2>5
<1>. HIDE DEF f
<1>14. CASE e \notin {main, x}  BY <1>6, <1>7, <1>9, <1>10, <1>13, <1>14 DEF UdpOK
<1>15. CASE e = main
  <2>1. el'[e].pi = r.pi  BY <1>10, <1>13, <1>15
  <2>2. Counts(el[main].pi)  BY <1>6, <1>7, <1>15 DEF UdpOK
  <2>3. /\ Counts(r.pi) /\ (r.pi.state = "EST" => r.smr = "EST")
        /\ BothSeen(r.pi) => r.smr = "EST" \/ el[main].pi.state = "EST"
    BY <1>11, <1>12, <2>2, UdpCounts
  <2>. QED  BY <1>6, <1>7, <1>8, <1>9, <1>15, <2>1, <2>3 DEF UdpOK
<1>16. CASE e = x /\ e # main
  <2>1. el'[e].pi = r.xpi  BY <1>10, <1>13, <1>16
  <2>2. Counts(el[x].pi)  BY <1>6, <1>7, <1>16 DEF UdpOK
  <2>3. /\ Counts(r.xpi) /\ (r.xpi.state = "EST" => r.smr = "EST")
        /\ BothSeen(r.xpi) => BothSeen(el[x].pi)
    BY <1>11, <1>12, <2>2, UdpCounts
  <2>. QED  BY <1>6, <1>7, <1>8, <1>9, <1>16, <2>1, <2>3 DEF UdpOK
<1>. QED  BY <1>14, <1>15, <1>16

LEMMA UdpStep ==
    ASSUME Typed, UdpInv, [Next]_vars
    PROVE  UdpInv'
<1>1. ASSUME traffic' = traffic, \A e \in Elems : Shrinks(e), NEW c \in CPUs,
             cpu' = cpu \/ (Others(c) /\ cpu[c].pc # "establish")
      PROVE  UdpInv'
  <2>1. ASSUME NEW e \in Elems, el'[e].live
        PROVE  el[e].live /\ el'[e].pi = el[e].pi /\ (WillBeFast(e) => WillBeFast(e)')
    <3>1. el[e].live /\ Same(el[e], el'[e])  BY <1>1, <2>1 DEF Shrinks
    <3>2. el'[e].pi = el[e].pi /\ el'[e].act = el[e].act  BY <3>1 DEF Same
    <3>3. CASE cpu' = cpu  BY <3>1, <3>2, <3>3 DEF WillBeFast
    <3>4. CASE Others(c) /\ cpu[c].pc # "establish"  BY <3>1, <3>2, <3>4, FastStays
    <3>. QED  BY <1>1, <3>3, <3>4
  <2>. QED  BY <1>1, <2>1, UdpKept
<1>2. ASSUME NEW c \in CPUs, NEW k \in Keys, Recv(c, k) PROVE UdpInv'
  <2>1. traffic' = traffic /\ Others(c) /\ cpu[c].pc # "establish"  BY <1>2, RecvEffect DEF Idle
  <2>2. \A e \in Elems : el'[e].live = el[e].live /\ el'[e].act = el[e].act /\ el'[e].pi = el[e].pi
    BY <1>2, RecvEffect
  <2>. QED  BY <2>1, <2>2, FastStays, UdpKept
<1>3. ASSUME NEW c \in CPUs, Lookup(c) PROVE UdpInv'
  <2>1. traffic' = traffic /\ Others(c) /\ cpu[c].pc # "establish" /\ el' = el  BY <1>3, LookupEffect
  <2>. QED  BY <2>1, FastStays, UdpKept
<1>4. ASSUME NEW c \in CPUs, Create(c) PROVE UdpInv'
  <2>1. traffic' = traffic /\ Others(c) /\ cpu[c].pc # "establish"  BY <1>4, CreateEffect
  <2>2. ASSUME NEW k, NEW d, NEW b \in Elems, Wrote(k, d, b), NEW e \in Elems, el'[e].live
        PROVE  \/ el[e].live /\ el'[e].pi = el[e].pi /\ (WillBeFast(e) => WillBeFast(e)')
               \/ el'[e].pi = Pi0
    <3>1. CASE e = b  BY <2>2, <3>1 DEF Wrote, NewEntry
    <3>2. CASE e # b
      <4>1. el[e].live /\ Same(el[e], el'[e])  BY <2>2, <3>2 DEF Wrote, Shrinks
      <4>. QED  BY <2>1, <4>1, FastStays DEF Same
    <3>. QED  BY <3>1, <3>2
  <2>3. ASSUME el' = el PROVE UdpInv'  BY <2>1, <2>3, FastStays, UdpKept
  <2>4. el' = el \/ \E k \in Keys, d \in Dirs, b \in Elems : Wrote(k, d, b)
    <3>1. cpu[c].key \in Keys /\ Rev(cpu[c].key) \in Keys  BY <1>4, CreateEffect, RevFacts DEF JobOK
    <3>. QED  BY <1>4, <3>1, CreateEffect DEF Dirs
  <2>. QED  BY <2>1, <2>2, <2>3, <2>4, UdpKept
<1>5. ASSUME NEW c \in CPUs, Begin(c) PROVE UdpInv'
  <2>1. traffic' = traffic /\ Others(c) /\ cpu[c].pc # "establish" /\ \A e \in Elems : Shrinks(e)
    BY <1>5, BeginEffect
  <2>. QED  BY <1>1, <2>1
<1>6. ASSUME NEW c \in CPUs, Delete(c) PROVE UdpInv'
  <2>1. traffic' = traffic /\ Others(c) /\ cpu[c].pc # "establish" /\ \A e \in Elems : Shrinks(e)
    BY <1>6, DeleteEffect
  <2>. QED  BY <1>1, <2>1
<1>7. ASSUME NEW c \in CPUs, Establish(c) PROVE UdpInv'
  <2>1. traffic' = traffic /\ Others(c)  BY <1>7, EstablishEffect
  <2>2. ASSUME NEW e \in Elems, el'[e].live
        PROVE  el[e].live /\ el'[e].pi = el[e].pi /\ (WillBeFast(e) => WillBeFast(e)')
    <3>1. /\ el[e].live /\ el'[e].pi = el[e].pi
          /\ e \in {cpu[c].at, cpu[c].axt} \/ el[e].act = "FAST" => el'[e].act = "FAST"
      BY <1>7, <2>2, EstablishEffect
    <3>2. ASSUME NEW d \in CPUs, cpu[d].pc = "establish", e \in {cpu[d].at, cpu[d].axt}
          PROVE  WillBeFast(e)'
      <4>1. CASE d = c  BY <3>1, <3>2, <4>1 DEF WillBeFast
      <4>2. CASE d # c  BY <2>1, <3>2, <4>2 DEF WillBeFast, Others
      <4>. QED  BY <4>1, <4>2
    <3>. QED  BY <3>1, <3>2 DEF WillBeFast
  <2>. QED  BY <2>1, <2>2, UdpKept
<1>8. ASSUME Ageing PROVE UdpInv'
  <2>1. traffic' = traffic /\ cpu' = cpu /\ \A e \in Elems : Shrinks(e)  BY <1>8, AgeingEffect
  <2>2. CPUs # {}  BY CPUsAssumption
  <2>. QED  BY <1>1, <2>1, <2>2
<1>9. ASSUME UNCHANGED vars PROVE UdpInv'
  <2>1. traffic' = traffic /\ cpu' = cpu /\ el' = el  BY <1>9 DEF vars
  <2>2. \A e \in Elems : WillBeFast(e) => WillBeFast(e)'  BY <2>1 DEF WillBeFast
  <2>. QED  BY <2>1, <2>2, UdpKept
<1>. QED
  BY <1>2, <1>3, <1>4, <1>5, <1>6, <1>7, <1>8, <1>9, UdpTrack DEF Next, CpuStep, Ageing

(* However many CPUs handle the packets of a UDP connection at once, with  *)
(* the ageing thread deleting entries under them: an entry that counted    *)
(* packets of both sides is marked established, or a CPU is about to mark  *)
(* it, even where another CPU wrote an older state over EST.               *)
THEOREM CountedIsFast == Spec => []CountedIsMarked
<1>1. Init => UdpInv
  <2>1. Init => \A e \in Elems : el[e].live = FALSE  BY UnreadFacts DEF Init
  <2>. QED  BY <2>1 DEF UdpInv
<1>2. MapInv /\ UdpInv /\ [Next]_vars => UdpInv'  BY UdpStep DEF MapInv
<1>3. UdpInv => CountedIsMarked  BY DEF UdpInv, UdpOK, BothSeen, CountedIsMarked
<1>. QED  BY <1>1, <1>2, <1>3, Invariant, PTL DEF Spec
=============================================================================
