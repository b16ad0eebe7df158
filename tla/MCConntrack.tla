----------------------------- MODULE MCConntrack -----------------------------
(* Instances of Conntrack for TLC. *)
EXTENDS Conntrack, TLC

CONSTANTS c1, c2, e1, e2, e3    \* model values: CPUs, elements

TwoCPUs == {c1, c2}
ThreeElems == {e1, e2, e3}
Symmetric == Permutations(TwoCPUs)

UdpPackets == [k \in Keys |-> {[hdr |-> "ok"]}]
UdpAndBad == [k \in Keys |-> {[hdr |-> h] : h \in {"ok", "none"}}]
IcmpPackets == [k \in Keys |-> [hdr : {"ok", "short"}, type : {"ECHO", "REPLY", "UNREACH"}, seq : {0, 1}]]
Segment(flags, seq, ack) == [hdr |-> "ok", flags |-> flags, seq |-> seq, ack |-> ack]
\* A handshake, data, a close and a reset.
TcpPackets ==
    [k \in Keys |-> IF k = "fwd"
                    THEN {Segment({"SYN"}, 0, 0), Segment({"ACK"}, 1, 4), Segment({"FIN", "ACK"}, 1, 4)}
                    ELSE {Segment({"SYN", "ACK"}, 3, 1), Segment({"FIN", "ACK"}, 4, 2),
                          Segment({"RST"}, 4, 0)}]
TcpOpening ==
    [k \in Keys |-> {IF k = "fwd" THEN Segment({"SYN"}, 0, 0) ELSE Segment({"SYN", "ACK"}, 3, 1)}]
Chunk(chunk, vtag, tag, whole) ==
    [hdr |-> "ok", chunk |-> chunk, vtag |-> vtag, tag |-> tag, whole |-> whole]
\* A handshake with a repeated INIT and a close.
SctpPackets ==
    [k \in Keys |-> IF k = "fwd"
                    THEN {Chunk("INIT", 0, 1, TRUE), Chunk("COOKIE_ECHO", 2, 9, TRUE),
                          Chunk("SHUT", 2, 0, FALSE)}
                    ELSE {Chunk("INIT_ACK", 1, 2, TRUE), Chunk("COOKIE_ACK", 1, 0, FALSE),
                          Chunk("SHUT_ACK", 1, 0, FALSE)}]
AllPackets == UNION {x[k] : x \in {UdpAndBad, IcmpPackets, TcpPackets, SctpPackets}, k \in Keys}

TrafficOf(proto, packets, workers, shared, max) ==
    [proto |-> proto, packets |-> packets, workers |-> workers, ageing |-> TRUE,
     shared |-> shared, churn |-> IF shared THEN 1 ELSE 0, endless |-> FALSE, max |-> max]
\* Each protocol on one CPU; UDP and a TCP handshake on two.
AllTraffics ==
    {TrafficOf("UDP", UdpAndBad, 1, TRUE, 3), TrafficOf("TCP", TcpPackets, 1, FALSE, 5),
     TrafficOf("ICMP", IcmpPackets, 1, FALSE, 3), TrafficOf("SCTP", SctpPackets, 1, FALSE, 5),
     [TrafficOf("UDP", UdpPackets, 2, TRUE, 3) EXCEPT !.churn = 0], TrafficOf("TCP", TcpOpening, 2, FALSE, 2)}
\* Two CPUs; a map that may be full; one CPU and no end of packets.
LongTraffics ==
    {TrafficOf("UDP", UdpPackets, 2, FALSE, 2), TrafficOf("UDP", UdpPackets, 1, TRUE, 2),
     [TrafficOf("UDP", UdpPackets, 1, FALSE, 0) EXCEPT !.ageing = FALSE, !.endless = TRUE]}
=============================================================================
