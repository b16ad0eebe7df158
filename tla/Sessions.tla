------------------------------ MODULE Sessions ------------------------------
(***************************************************************************)
(* A TCP connection or an SCTP association between endpoints that keep to  *)
(* the protocol; timeouts in seconds.  A behaviour is one of either        *)
(* protocol; the variables of the other one are Off.                       *)
(***************************************************************************)
EXTENDS CtProto, Sequences

CONSTANTS
    NoEntry, Off,   \* model values
    Orderly,        \* of TCP: see TcpSession
    Lossy,          \* of SCTP: the chunks that may be lost
    MaxData,        \* bounds on the data packets of each end
    MaxLosses       \* and on the packets lost

VARIABLES
    proto,                          \* of this behaviour
    ct, way,                        \* the entries, and the packets under way
    end, wasFast,                   \* of TcpSession
    st, sent, losses, dropped       \* of SctpSession

tcpVars == <<end, wasFast>>
sctpVars == <<st, sent, losses, dropped>>

Tcp == INSTANCE TcpSession
Sctp == INSTANCE SctpSession WITH CT_V4_CPTO <- 1800, CT_SCTP_FN_CPTO <- 20

ASSUME SessionsAssumption ==
    /\ SEQ > 3 /\ MaxData \in Nat /\ MaxLosses \in Nat
    /\ NoEntry \notin Tcp!Entry /\ NoEntry \notin Sctp!Entry

Init ==
    \/ proto = "TCP" /\ Tcp!Init /\ st = Off /\ sent = Off /\ losses = Off /\ dropped = Off
    \/ proto = "SCTP" /\ Sctp!Init /\ end = Off /\ wasFast = Off
Next ==
    \/ proto = "TCP" /\ Tcp!Next /\ UNCHANGED <<proto, sctpVars>>
    \/ proto = "SCTP" /\ Sctp!Next /\ UNCHANGED <<proto, tcpVars>>
Spec == Init /\ [][Next]_<<proto, ct, way, tcpVars, sctpVars>>

-----------------------------------------------------------------------------
(* Type correctness: an entry that is left in the map is in no state of an *)
(* error or of the end of its connection.                                  *)
TypeOK == (proto = "TCP" => Tcp!TypeOK) /\ (proto = "SCTP" => Sctp!TypeOK)

(* A connection that both ends take to be open is known to the tracker as  *)
(* established, also after INIT or INIT ACK packets of SCTP were lost and  *)
(* repeated.                                                               *)
OpenIsTracked ==
    (proto = "TCP" => Tcp!OpenIsTracked) /\ (proto = "SCTP" => Sctp!OpenIsTracked)

(* Of a TCP connection whose ends are Orderly (they close only when        *)
(* nothing is under way, and send no data after a FIN): when both ends     *)
(* have closed it, it has no entries left; if it was established, it has   *)
(* entries until then.                                                     *)
TrackedUntilClosed == proto = "TCP" => Tcp!ClosedIsRemoved /\ Tcp!StaysTracked

(* The tracker drops no packet of an SCTP association whose ends keep to   *)
(* the protocol and takes none for an error, under the same losses.        *)
NothingDropped == proto = "SCTP" => Sctp!NothingDropped
=============================================================================
