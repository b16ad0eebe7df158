------------------------------- MODULE CtProto -------------------------------
(***************************************************************************)
(* The per-protocol state machines of the connection tracker of            *)
(* examples/loxilb-ebpf-main: kernel/llb_kern_ct.c, dp_ct_sm and what it   *)
(* calls, as operators.  Each takes the protocol information pi of the     *)
(* entry that is locked and xpi of the entry of the other direction, a     *)
(* packet p and its direction d, and gives the new pi and xpi and the      *)
(* result smr that decides what becomes of the entries.                    *)
(*                                                                         *)
(* Byte and packet counts are left out.  SEQ stands for 2^32 and U16 for   *)
(* 2^16.                                                                   *)
(***************************************************************************)
EXTENDS Integers

CONSTANTS
    SEQ,        \* sequence numbers wrap here
    U16,        \* and so do 16-bit counters here
    Dsr,        \* the rule of the connection is a direct server return
    CT_TCP_INIT_ACK_THRESHOLD,
    CT_UDP_CONN_THRESHOLD

ASSUME CtNumbersAssumption ==
    /\ SEQ \in Nat \ {0} /\ U16 \in Nat \ {0} /\ Dsr \in BOOLEAN
    /\ CT_TCP_INIT_ACK_THRESHOLD \in Nat /\ CT_UDP_CONN_THRESHOLD \in Nat

Dirs == {"IN", "OUT"}
Other(d) == IF d = "IN" THEN "OUT" ELSE "IN"

-----------------------------------------------------------------------------
(* TCP.  A packet is [hdr, flags, seq, ack].                               *)

TcpStates == {"CLOSED", "SS", "SA", "EST", "FINI", "FINI2", "FINI3", "CW", "ERR"}
Tcp0 == [state |-> "CLOSED", fndir |-> "IN",
         seq |-> [d \in Dirs |-> 0], init_acks |-> [d \in Dirs |-> 0]]

Syn(p) == "SYN" \in p.flags
Ack(p) == "ACK" \in p.flags
Fin(p) == "FIN" \in p.flags
\* The packet acknowledges exactly what was last recorded of the other side.
Acks_OffByOne(t, p, d) == p.ack = t.seq[Other(d)]
Acks(t, p, d) == p.ack = (t.seq[Other(d)] + 1) % SEQ

\* The next state, and whether the packet's sequence number is recorded.
Keep(s) == [state |-> s, record |-> FALSE]
Record(s) == [state |-> s, record |-> TRUE]

\* An ACK without an entry: the connection may be older than the tracker.
Unexpected(t, p, d) == t.init_acks[d] > 0 /\ p.ack > (t.seq[Other(d)] + 2) % SEQ
PickedUp(t, d) ==
    /\ t.init_acks[d] + 1 >= CT_TCP_INIT_ACK_THRESHOLD
    /\ t.init_acks[Other(d)] >= CT_TCP_INIT_ACK_THRESHOLD
TcpClosed(t, p, d) ==
    CASE Dsr            -> Keep("EST")
      [] ~Dsr /\ Ack(p) -> Record(IF ~Unexpected(t, p, d) /\ PickedUp(t, d)
                                  THEN "EST" ELSE "ERR")
      [] OTHER          -> IF Syn(p) /\ (p.ack = 0 \/ d = "IN")
                           THEN Record("SS") ELSE Keep("ERR")

TcpSynSent(t, p, d) ==
    IF d = "IN" THEN IF Syn(p) THEN Record("SS") ELSE Keep("ERR")
    ELSE IF Syn(p) /\ Ack(p) /\ Acks(t, p, d) THEN Record("SA") ELSE Keep("ERR")

TcpSynAcked(t, p, d) ==
    CASE d = "OUT"            -> Keep(IF Syn(p) /\ Ack(p) /\ Acks(t, p, d) THEN "SA" ELSE "ERR")
      [] d = "IN" /\ Syn(p)   -> Record("SS")
      [] OTHER                -> IF Ack(p) /\ Acks(t, p, d) THEN Record("EST") ELSE Keep("ERR")

\* From here on a packet that the cases do not name leads to CLOSED, the
\* value that nstate starts with.
TcpFini(t, p, d) ==
    CASE d = t.fndir \/ ~Ack(p) -> Keep("CLOSED")
      [] d # t.fndir /\ Ack(p) /\ ~Acks(t, p, d) -> Keep("ERR")
      [] OTHER -> Record(IF Fin(p) THEN "FINI3" ELSE "FINI2")
TcpFini2(t, p, d) == IF d # t.fndir /\ Fin(p) THEN Record("FINI3") ELSE Keep("CLOSED")
TcpFini3_OtherSide(t, p, d) ==
    IF d # t.fndir /\ Ack(p) THEN Keep(IF Acks(t, p, d) THEN "CW" ELSE "ERR") ELSE Keep("FINI3")
TcpFini3(t, p, d) ==
    IF d = t.fndir /\ Ack(p) THEN Keep(IF Acks(t, p, d) THEN "CW" ELSE "ERR") ELSE Keep("CLOSED")

TcpMove(t, p, d) ==
    CASE "RST" \in p.flags -> Keep("CW")
      [] OTHER ->
         CASE t.state = "CLOSED" -> TcpClosed(t, p, d)
           [] t.state = "SS"     -> TcpSynSent(t, p, d)
           [] t.state = "SA"     -> TcpSynAcked(t, p, d)
           [] t.state = "EST"    -> IF Fin(p) THEN Record("FINI") ELSE Keep("EST")
           [] t.state = "FINI"   -> TcpFini(t, p, d)
           [] t.state = "FINI2"  -> TcpFini2(t, p, d)
           [] t.state = "FINI3"  -> TcpFini3(t, p, d)
           [] t.state \in {"CW", "ERR"} -> Keep("CLOSED")

TcpResult(s) ==
    CASE s = "EST" -> "EST"
      [] s = "CW" -> "CTD"
      [] s = "ERR" -> "ERR"
      [] s \in {"FINI", "FINI2", "FINI3"} -> "FIN"
      [] OTHER -> "INPROG"

dp_ct_tcp_sm(t, xt, p, d) ==
    LET m == TcpMove(t, p, d)
        tried == t.state = "CLOSED" /\ "RST" \notin p.flags /\ ~Dsr /\ Ack(p)
                 /\ ~Unexpected(t, p, d)
        fin == t.state = "EST" /\ m.state = "FINI"
    IN  [pi  |-> [state |-> m.state,
                  fndir |-> IF fin THEN d ELSE t.fndir,
                  seq |-> IF m.record THEN [t.seq EXCEPT ![d] = p.seq] ELSE t.seq,
                  init_acks |-> IF tried THEN [t.init_acks EXCEPT ![d] = (@ + 1) % U16]
                                ELSE t.init_acks],
         xpi |-> [xt EXCEPT !.state = m.state,
                            !.seq["IN"] = IF m.state # "ERR" /\ d = "OUT" THEN p.seq ELSE @],
         smr |-> TcpResult(m.state)]

-----------------------------------------------------------------------------
(* UDP.  A packet is [hdr].  The state old is read before the lock is      *)
(* taken, and is what an established connection keeps.                     *)

UdpStates == {"CNI", "UEST", "EST"}
Udp0 == [state |-> "CNI", pkts_seen |-> 0, rpkts_seen |-> 0]

\* The next state, u being the information with the packet counted.
UdpState_StaysOneWay(u, old) ==
    CASE u.state = "CNI" /\ (Dsr \/ (u.pkts_seen > 0 /\ u.rpkts_seen > 0)) -> "EST"
      [] u.state = "CNI" /\ ~Dsr /\ u.rpkts_seen = 0 /\ u.pkts_seen > CT_UDP_CONN_THRESHOLD -> "UEST"
      [] OTHER -> old
UdpState(u, old) ==
    CASE u.state = "CNI" /\ (Dsr \/ (u.pkts_seen > 0 /\ u.rpkts_seen > 0)) -> "EST"
      [] u.state = "CNI" /\ ~Dsr /\ u.rpkts_seen = 0 /\ u.pkts_seen > CT_UDP_CONN_THRESHOLD -> "UEST"
      [] u.state = "UEST" /\ u.rpkts_seen > 0 -> "EST"
      [] OTHER -> old

UdpResult_Early(s) == IF s = "CNI" THEN "INPROG" ELSE "EST"
UdpResult(s) == IF s = "CNI" THEN "INPROG" ELSE s

dp_ct_udp_sm(u, xu, d, old) ==
    LET n == IF d = "IN" THEN [u EXCEPT !.pkts_seen = (@ + 1) % U16]
             ELSE [u EXCEPT !.rpkts_seen = (@ + 1) % U16]
        nstate == UdpState(n, old)
    IN  [pi  |-> [n EXCEPT !.state = nstate],
         xpi |-> [xu EXCEPT !.state = nstate],
         smr |-> UdpResult(nstate)]

-----------------------------------------------------------------------------
(* ICMP and ICMPv6.  A packet is [hdr, type, seq].  The bits that an error *)
(* message sets in the state are overwritten before the lock is released.  *)

IcmpStates == {"CLOSED", "REQS", "REPS"}
Icmp0 == [state |-> "CLOSED", lseq |-> 0, errs |-> 0]

IcmpResult(s) == IF s = "REPS" THEN "EST" ELSE "INPROG"

dp_ct_icmp_sm(i, xi, p) ==
    LET echo == p.type = "ECHO"
        reply == p.type = "REPLY"
        n == CASE i.state = "CLOSED" /\ Dsr /\ (echo \/ reply) -> [i EXCEPT !.state = "REPS"]
               [] i.state = "CLOSED" /\ ~Dsr /\ echo -> [i EXCEPT !.state = "REQS", !.lseq = p.seq]
               [] i.state = "CLOSED" /\ ~Dsr /\ reply -> [i EXCEPT !.errs = 1]
               [] i.state = "REQS" /\ echo -> [i EXCEPT !.lseq = p.seq]
               [] i.state = "REQS" /\ reply -> IF i.lseq = p.seq THEN [i EXCEPT !.state = "REPS"]
                                               ELSE [i EXCEPT !.errs = 1]
               [] OTHER -> i
    IN  [pi  |-> n, xpi |-> [xi EXCEPT !.state = n.state],
         smr |-> IcmpResult(n.state)]

-----------------------------------------------------------------------------
(* SCTP.  A packet is [hdr, chunk, vtag, tag, whole]: its first chunk, the *)
(* verification tag, and the tag that an INIT chunk has; whole if it is    *)
(* long enough for an INIT chunk or a cookie.  The state old is read       *)
(* before the lock is taken.  COOKIEA and EST are the same number.         *)

SctpStates == {"CLOSED", "INIT", "INITA", "COOKIE", "EST", "SHUT", "SHUTA", "SHUTC", "ABRT", "ERR"}
Sctp0 == [state |-> "CLOSED", itag |-> 0, otag |-> 0]

In(s, state) == [s EXCEPT !.state = state]
SctpInit(s, p) == [state |-> "INIT", itag |-> p.tag, otag |-> 0]

SctpClosed(s, p, d, old) ==
    CASE Dsr -> In(s, "EST")
      [] ~Dsr /\ p.chunk # "INIT" /\ d # "IN" -> In(s, "ERR")
      [] OTHER -> IF p.whole THEN [s EXCEPT !.state = "INIT", !.itag = p.tag] ELSE In(s, old)
\* The test of the chunk's type admits every chunk in either direction.
SctpInited(s, p, old) ==
    CASE ~p.whole -> In(s, old)
      [] p.whole /\ p.chunk = "INIT" -> SctpInit(s, p)
      [] OTHER -> IF p.vtag # s.itag THEN In(s, "ERR")
                  ELSE [s EXCEPT !.state = "INITA", !.otag = p.tag]
SctpInitAcked_NoRestart(s, p, d, old) ==
    IF p.chunk = "COOKIE_ECHO" /\ s.otag = p.vtag THEN In(s, "COOKIE") ELSE In(s, "ERR")
SctpInitAcked(s, p, d, old) ==
    CASE d # "IN" /\ p.chunk \notin {"INIT", "COOKIE_ECHO"} -> In(s, "ERR")
      [] (d = "IN" \/ p.chunk \in {"INIT", "COOKIE_ECHO"}) /\ ~p.whole -> In(s, old)
      [] OTHER -> IF p.chunk = "INIT" THEN SctpInit(s, p)
                  ELSE In(s, IF s.otag # p.vtag THEN "ERR" ELSE "COOKIE")

SctpMove(s, p, d, old) ==
    CASE p.chunk = "ERROR" -> In(s, "ERR")
      [] p.chunk = "SHUT"  -> In(s, "SHUT")
      [] p.chunk = "ABORT" -> In(s, "ABRT")
      [] OTHER ->
         CASE s.state = "CLOSED" -> SctpClosed(s, p, d, old)
           [] s.state = "INIT"   -> SctpInited(s, p, old)
           [] s.state = "INITA"  -> SctpInitAcked(s, p, d, old)
           [] s.state = "COOKIE" -> In(s, IF (p.chunk # "COOKIE_ACK" /\ d # "OUT") \/ s.itag # p.vtag
                                          THEN "ERR" ELSE "EST")
           [] s.state = "EST"    -> In(s, "EST")
           [] s.state = "ABRT"   -> In(s, "ABRT")
           [] s.state = "SHUT"   -> In(s, IF p.chunk # "SHUT_ACK" /\ d # "OUT" THEN "ERR" ELSE "SHUTA")
           [] s.state = "SHUTA"  -> In(s, IF p.chunk # "SHUT_COMPLETE" /\ d # "IN" THEN "ERR" ELSE "SHUTC")
           [] s.state \in {"SHUTC", "ERR"} -> In(s, old)

SctpResult_Early(s) == IF s \in {"COOKIE", "EST"} THEN "EST" ELSE "INPROG"
SctpResult(s) ==
    CASE s = "EST" -> "EST"
      [] s = "SHUTC" -> "CTD"
      [] s = "ERR" -> "ERR"
      [] s \in {"SHUT", "SHUTA", "ABRT"} -> "FIN"
      [] OTHER -> "INPROG"

\* A chunk that is too short for the state drops the packet.
SctpDrops(s, p, d) ==
    /\ p.chunk \notin {"ERROR", "SHUT", "ABORT"} /\ ~p.whole
    /\ \/ s.state = "CLOSED" /\ ~Dsr /\ (p.chunk = "INIT" \/ d = "IN")
       \/ s.state = "INIT"
       \/ s.state = "INITA" /\ (d = "IN" \/ p.chunk \in {"INIT", "COOKIE_ECHO"})

dp_ct_sctp_sm(s, xs, p, d, old) ==
    LET n == SctpMove(s, p, d, old)
    IN  [pi |-> n, xpi |-> [xs EXCEPT !.state = n.state], smr |-> SctpResult(n.state)]
=============================================================================
