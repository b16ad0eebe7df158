----------------------------- MODULE SctpSession -----------------------------
(***************************************************************************)
(* An SCTP association between two endpoints that keep to the protocol,    *)
(* seen by the connection tracker of examples/loxilb-ebpf-main on its way. *)
(* Packets of some kinds may be lost, before or after the tracker; the     *)
(* endpoint that waits for an answer then sends its packet again.  One CPU *)
(* handles the packets, so that dp_do_ctops and dp_ct_in are one step.     *)
(*                                                                         *)
(* The endpoints are outside the repository: they say which packets an     *)
(* association consists of.                                                *)
(***************************************************************************)
EXTENDS CtProto, Sequences

CONSTANTS
    NoEntry,        \* the association has no entries in ct_map
    Lossy,          \* the chunks whose packets may be lost
    MaxData,        \* bound on the data packets of each endpoint
    MaxLosses,      \* bound on the packets lost
    CT_V4_CPTO, CT_SCTP_FN_CPTO     \* timeouts of the ageing thread

Ends == {"fwd", "rev"}      \* the client and the server, named by the key of their packets
Peer(k) == IF k = "fwd" THEN "rev" ELSE "fwd"
Tag(k) == IF k = "fwd" THEN 1 ELSE 2

VARIABLES
    ct,         \* the entries: owner is the key whose entry has direction in
    way,        \* the packets under way from each end, in order
    st, sent,   \* the state of each end, the data packets it has sent
    losses,     \* packets lost
    dropped     \* the tracker has dropped a packet

vars == <<ct, way, st, sent, losses, dropped>>

Chunk(k, c) ==
    [hdr |-> "ok", chunk |-> c, vtag |-> IF c = "INIT" THEN 0 ELSE Tag(Peer(k)),
     tag |-> IF c \in {"INIT", "INIT_ACK"} THEN Tag(k) ELSE 9,
     whole |-> c \in {"INIT", "INIT_ACK", "COOKIE_ECHO", "DATA"}]

Init ==
    /\ ct = NoEntry /\ dropped = FALSE /\ losses = 0
    /\ way = [k \in Ends |-> <<>>]
    /\ st = [k \in Ends |-> IF k = "fwd" THEN "closed" ELSE "listen"]
    /\ sent = [k \in Ends |-> 0]

Still == \A k \in Ends : way[k] = <<>>

\* The first packet of an exchange, again if it or its answer was lost.
Begins(k) ==
    CASE st[k] \in {"closed", "initSent"} -> {"INIT"}
      [] st[k] = "echoed" -> {"COOKIE_ECHO"}
      [] st[k] = "est" -> {"SHUT"}
      [] OTHER -> {}
Begin(k) ==
    /\ Still
    /\ \E c \in Begins(k) :
          /\ way' = [way EXCEPT ![k] = <<Chunk(k, c)>>]
          /\ st' = [st EXCEPT ![k] = CASE c = "INIT" -> "initSent" [] c = "SHUT" -> "shutSent"
                                       [] OTHER -> @]
    /\ UNCHANGED <<ct, sent, losses, dropped>>

SendData(k) ==
    /\ st[k] = "est" /\ sent[k] < MaxData
    /\ way' = [way EXCEPT ![k] = Append(@, Chunk(k, "DATA"))]
    /\ sent' = [sent EXCEPT ![k] = @ + 1]
    /\ UNCHANGED <<ct, st, losses, dropped>>

-----------------------------------------------------------------------------
(* The tracker: dp_do_ctops and dp_ct_in for the packet m of key k.        *)

Fresh(k) == [owner |-> k, fast |-> FALSE, pi |-> Sctp0, xpi |-> Sctp0]
Known(k) == IF ct = NoEntry THEN Fresh(k) ELSE ct
Dir(k) == IF Known(k).owner = k THEN "IN" ELSE "OUT"

Tracked(k, m) ==
    LET old == Known(k)
        r == dp_ct_sctp_sm(old.pi, old.xpi, m, Dir(k), old.pi.state)
    IN  CASE old.fast -> old
          [] ~old.fast /\ r.smr \in {"ERR", "CTD"} -> NoEntry
          [] OTHER -> [old EXCEPT !.pi = r.pi, !.xpi = r.xpi, !.fast = r.smr = "EST"]
Drops(k, m) == ~Known(k).fast /\ SctpDrops(Known(k).pi, m, Dir(k))
Errs(k, m) ==
    LET old == Known(k)
    IN  ~old.fast /\ dp_ct_sctp_sm(old.pi, old.xpi, m, Dir(k), old.pi.state).smr = "ERR"

\* ll_ct_map_ent_has_aged: the state EST has the bit of COOKIEA, and with it
\* one of CT_SCTP_INIT_MASK.
Timeout(state) ==
    IF state \in {"SHUT", "SHUTA", "SHUTC", "ABRT", "ERR", "CLOSED"}
                 \cup {"INIT", "INITA", "COOKIE", "EST"}
    THEN CT_SCTP_FN_CPTO ELSE CT_V4_CPTO

\* The state of the receiving end after a packet, and the answers it sends.
Reaction(s, c) ==
    CASE s = "listen" /\ c = "INIT" -> [st |-> s, out |-> <<"INIT_ACK">>]
      [] s = "initSent" /\ c = "INIT_ACK" -> [st |-> "echoed", out |-> <<"COOKIE_ECHO">>]
      [] s \in {"listen", "est"} /\ c = "COOKIE_ECHO" -> [st |-> "est", out |-> <<"COOKIE_ACK">>]
      [] s = "echoed" /\ c = "COOKIE_ACK" -> [st |-> "est", out |-> <<>>]
      [] s \in {"est", "shutSent"} /\ c = "SHUT" -> [st |-> "shutAcked", out |-> <<"SHUT_ACK">>]
      [] s \in {"shutSent", "shutAcked"} /\ c = "SHUT_ACK" -> [st |-> "done", out |-> <<"SHUT_COMPLETE">>]
      [] s = "shutAcked" /\ c = "SHUT_COMPLETE" -> [st |-> "done", out |-> <<>>]
      [] OTHER -> [st |-> s, out |-> <<>>]

\* The packet reaches the tracker, and the other end unless the tracker drops it.
Forward(k) ==
    LET m == Head(way[k])
        p == Peer(k)
        r == Reaction(st[p], m.chunk)
    IN  /\ way[k] # <<>>
        /\ ct' = Tracked(k, m)
        /\ dropped' = (dropped \/ Drops(k, m))
        /\ IF Drops(k, m)
           THEN way' = [way EXCEPT ![k] = Tail(@)] /\ UNCHANGED st
           ELSE /\ st' = [st EXCEPT ![p] = r.st]
                /\ way' = [way EXCEPT ![k] = Tail(@),
                                      ![p] = @ \o [i \in DOMAIN r.out |-> Chunk(p, r.out[i])]]
        /\ UNCHANGED <<sent, losses>>

\* The packet is lost, before or after the tracker.
Lose(k) ==
    /\ way[k] # <<>> /\ losses < MaxLosses
    /\ Head(way[k]).chunk \in Lossy
    /\ ct' \in {ct, Tracked(k, Head(way[k]))}
    /\ way' = [way EXCEPT ![k] = Tail(@)]
    /\ losses' = losses + 1
    /\ UNCHANGED <<st, sent, dropped>>

Next == \E k \in Ends : Begin(k) \/ SendData(k) \/ Forward(k) \/ Lose(k)

Spec == Init /\ [][Next]_vars

-----------------------------------------------------------------------------
Info == [state : SctpStates, itag : Nat, otag : Nat]
Entry == [owner : Ends, fast : BOOLEAN, pi : Info, xpi : Info]
Chunks == {"INIT", "INIT_ACK", "COOKIE_ECHO", "COOKIE_ACK", "DATA", "SHUT", "SHUT_ACK", "SHUT_COMPLETE"}
Packet == {Chunk(k, c) : k \in Ends, c \in Chunks}

(* An entry that is left in the map is in no state of an error, and not    *)
(* marked established before its handshake.                                *)
TypeOK ==
    /\ ct \in Entry \cup {NoEntry}
    /\ ct # NoEntry => ct.pi.state \notin {"SHUTC", "ERR"} /\ (ct.fast => ct.pi.state = "EST")
    /\ way \in [Ends -> Seq(Packet)] /\ sent \in [Ends -> 0 .. MaxData] /\ losses \in 0 .. MaxLosses
    /\ st \in [Ends -> {"closed", "listen", "initSent", "echoed", "est", "shutSent", "shutAcked", "done"}]
    /\ dropped \in BOOLEAN

(* An association that is open at both ends is known to the tracker as     *)
(* established, also if INIT or INIT ACK packets were lost and repeated on *)
(* either side of the tracker.                                             *)
OpenIsTracked == (\A k \in Ends : st[k] = "est") => ct # NoEntry /\ ct.fast

(* The tracker has dropped no packet of endpoints that keep to the         *)
(* protocol, under the same losses, and the next one that reaches it from  *)
(* either end is neither dropped as too short nor taken by dp_ct_sctp_sm   *)
(* for an error, for which dp_ct_in would delete the entries.              *)
NothingDropped ==
    /\ ~dropped
    /\ \A k \in Ends : way[k] # <<>> => ~Drops(k, Head(way[k])) /\ ~Errs(k, Head(way[k]))

(* "Hard-timeout of 30m for ct entry": the entries of an established       *)
(* association have that timeout, and not the one of handshakes and        *)
(* closes.                                                                 *)
EstablishedTimeout == ct # NoEntry /\ ct.fast => Timeout(ct.pi.state) = CT_V4_CPTO
=============================================================================
