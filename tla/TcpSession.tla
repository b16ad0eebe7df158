----------------------------- MODULE TcpSession -----------------------------
(***************************************************************************)
(* A TCP connection between two endpoints that keep to the protocol, seen  *)
(* by the connection tracker of examples/loxilb-ebpf-main on its way.      *)
(* Packets are lost nowhere and stay in order; one CPU handles them, so    *)
(* that dp_do_ctops and dp_ct_in are one step of the tracker and the two   *)
(* entries of the connection are there together or not at all.             *)
(*                                                                         *)
(* A data segment carries one byte.  The endpoints are outside the         *)
(* repository: they say which packets a connection consists of.            *)
(***************************************************************************)
EXTENDS CtProto, Sequences

CONSTANTS
    NoEntry,        \* the connection has no entries in ct_map
    Orderly,        \* an endpoint closes only when nothing is under way, and no data follows a FIN
    MaxData         \* bound on the data segments of each endpoint

Ends == {"fwd", "rev"}      \* the client and the server, named by the key of their packets
Peer(k) == IF k = "fwd" THEN "rev" ELSE "fwd"

VARIABLES
    ct,         \* the entries: owner is the key whose entry has direction in
    way,        \* the packets under way from each end, in order
    end,        \* the endpoints
    wasFast     \* the tracker has marked the connection established

vars == <<ct, way, end, wasFast>>

Segment(flags, e) == [hdr |-> "ok", flags |-> flags, seq |-> e.nxt % SEQ, ack |-> e.rcv % SEQ,
                      data |-> FALSE]
Send(k, m) == way' = [way EXCEPT ![k] = Append(@, m)]

\* Initial sequence numbers: sequence numbers wrap early, later or not at all.
ISNs == {0, SEQ - 3, SEQ - 1}

Init ==
    /\ ct = NoEntry
    /\ way = [k \in Ends |-> <<>>]
    /\ \E isn \in [Ends -> ISNs] :
          end = [k \in Ends |-> [st |-> IF k = "fwd" THEN "closed" ELSE "listen",
                                nxt |-> isn[k], rcv |-> 0, acked |-> 0,
                                finSent |-> FALSE, finRcvd |-> FALSE, sent |-> 0]]
    /\ wasFast = FALSE

Connect ==
    /\ end["fwd"].st = "closed"
    /\ end' = [end EXCEPT !["fwd"].st = "synsent", !["fwd"].nxt = @ + 1]
    /\ Send("fwd", Segment({"SYN"}, end["fwd"]))
    /\ UNCHANGED <<ct, wasFast>>

Still == \A k \in Ends : way[k] = <<>>

SendData(k) ==
    /\ end[k].st = "est" /\ ~end[k].finSent /\ end[k].sent < MaxData
    /\ Orderly => \A x \in Ends : ~end[x].finSent
    /\ end' = [end EXCEPT ![k].nxt = @ + 1, ![k].sent = @ + 1]
    /\ Send(k, [Segment({"ACK"}, end[k]) EXCEPT !.data = TRUE])
    /\ UNCHANGED <<ct, wasFast>>

Close(k) ==
    /\ end[k].st = "est" /\ ~end[k].finSent
    /\ Orderly => Still
    /\ end' = [end EXCEPT ![k].nxt = @ + 1, ![k].finSent = TRUE]
    /\ Send(k, Segment({"FIN", "ACK"}, end[k]))
    /\ UNCHANGED <<ct, wasFast>>

-----------------------------------------------------------------------------
(* The tracker: dp_do_ctops and dp_ct_in for the packet m of key k.        *)

Fresh(k) == [owner |-> k, fast |-> FALSE, fr |-> [x \in Ends |-> FALSE], pi |-> Tcp0, xpi |-> Tcp0]

Tracked(k, m) ==
    LET old == IF ct = NoEntry THEN Fresh(k)
               ELSE [ct EXCEPT !.fr[k] = @ \/ (ct.fast /\ Fin(m))]
        r == dp_ct_tcp_sm(old.pi, old.xpi, m, IF old.owner = k THEN "IN" ELSE "OUT")
    IN  CASE old.fast /\ ~old.fr[k] -> old
          [] (~old.fast \/ old.fr[k]) /\ r.smr \in {"ERR", "CTD"} -> NoEntry
          [] OTHER -> [old EXCEPT !.pi = r.pi, !.xpi = r.xpi, !.fast = @ \/ r.smr = "EST"]

\* What the receiving endpoint k makes of a packet, and its answer.
Received(e, m) ==
    CASE e.st = "listen" /\ Syn(m) -> [e EXCEPT !.st = "synrcvd", !.rcv = m.seq + 1]
      [] e.st = "synsent" /\ Syn(m) /\ Ack(m) -> [e EXCEPT !.st = "est", !.rcv = m.seq + 1, !.acked = m.ack]
      [] e.st \in {"synrcvd", "est"} /\ Ack(m) ->
            [e EXCEPT !.st = "est", !.acked = m.ack, !.rcv = IF m.data \/ Fin(m) THEN @ + 1 ELSE @,
                      !.finRcvd = @ \/ Fin(m)]
      [] OTHER -> e

Forward(k) ==
    LET m == Head(way[k])
        p == Peer(k)
        e == Received(end[p], m)
    IN  /\ way[k] # <<>>
        /\ ct' = Tracked(k, m)
        /\ wasFast' = (wasFast \/ (ct' # NoEntry /\ ct'.fast))
        /\ end' = [end EXCEPT ![p] = IF e.st = "synrcvd" /\ Syn(m) THEN [e EXCEPT !.nxt = @ + 1] ELSE e]
        /\ way' = LET rest == [way EXCEPT ![k] = Tail(@)]
                      answer == IF e.st = "est" THEN Segment({"ACK"}, e) ELSE Segment({"SYN", "ACK"}, e)
                  IN  IF Syn(m) \/ m.data \/ Fin(m)
                      THEN [rest EXCEPT ![p] = Append(@, answer)] ELSE rest

Next == Connect \/ \E k \in Ends : SendData(k) \/ Close(k) \/ Forward(k)

Spec == Init /\ [][Next]_vars

-----------------------------------------------------------------------------
Info == [state : TcpStates, fndir : Dirs, seq : [Dirs -> Nat], init_acks : [Dirs -> Nat]]
Entry == [owner : Ends, fast : BOOLEAN, fr : [Ends -> BOOLEAN], pi : Info, xpi : Info]
Packet == [hdr : {"ok"}, flags : SUBSET {"SYN", "ACK", "FIN"}, seq : Nat, ack : Nat, data : BOOLEAN]
Endpoint == [st : {"closed", "listen", "synsent", "synrcvd", "est"}, nxt : Nat, rcv : Nat,
             acked : Nat, finSent : BOOLEAN, finRcvd : BOOLEAN, sent : Nat]

(* An entry that is left in the map is in no state of an error or of the   *)
(* end of its connection.                                                  *)
TypeOK ==
    /\ ct \in Entry \cup {NoEntry} /\ (ct # NoEntry => ct.pi.state \notin {"CW", "ERR"})
    /\ way \in [Ends -> Seq(Packet)] /\ end \in [Ends -> Endpoint]
    /\ wasFast \in BOOLEAN

Open(k) == end[k].st = "est" /\ ~end[k].finSent

(* A connection that is open at both ends, with nothing under way, is      *)
(* known to the tracker as established, whatever was sent before.          *)
OpenIsTracked ==
    Still /\ (\A k \in Ends : Open(k)) => ct # NoEntry /\ ct.fast /\ ct.pi.state = "EST"

(* A connection that both ends have closed, and whose last packet was      *)
(* seen, has no entries left.                                              *)
ClosedIsRemoved ==
    Still /\ (\A k \in Ends : end[k].finSent /\ end[k].finRcvd) => ct = NoEntry

(* The entries of an established connection stay until both ends have      *)
(* closed it, if the ends are orderly.                                     *)
StaysTracked == wasFast /\ (\E k \in Ends : Open(k)) => ct # NoEntry
=============================================================================
