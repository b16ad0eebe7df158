------------------------------ MODULE Conntrack ------------------------------
(***************************************************************************)
(* The connection tracker of examples/loxilb-ebpf-main: one connection,    *)
(* that is the entries of its two keys in ct_map.  Every CPU passes the    *)
(* packets it receives through dp_do_ctops (kernel/llb_kern_l3fwd.c) and,  *)
(* unless the entry says that the connection is established, through       *)
(* dp_ct_in (kernel/llb_kern_ct.c); a user-space thread deletes entries    *)
(* that were idle for too long (kernel/loxilb_libdp.c, ll_age_ctmap).      *)
(*                                                                         *)
(* ct_map is a preallocated hash map: an update takes a free element and   *)
(* frees the one it replaces, while other CPUs may hold pointers to it.    *)
(* Free elements keep their contents.  Other connections share the map,    *)
(* which may be full.  Addresses, ports and their translation are left     *)
(* out, and with them the difference between DP_SET_NOP and the NAT        *)
(* actions: "FAST" is an entry whose packets need no tracking.  Ageing     *)
(* takes far less than a timeout.                                          *)
(***************************************************************************)
EXTENDS CtProto, FiniteSets

CONSTANTS
    CPUs,
    Elems,      \* elements of ct_map
    None,       \* a null pointer
    Packets,    \* packets as CtProto has them
    Traffics    \* the traffics considered, with their bounds

Keys == {"fwd", "rev"}
Rev(k) == IF k = "fwd" THEN "rev" ELSE "fwd"

\* What happens to the connection: its protocol, the packets of each key, how
\* many CPUs handle them at once, whether the ageing thread runs, whether other
\* connections may fill the map and how many of their entries are deleted under
\* the walk of the ageing thread, and the number of packets, unless they are endless.
Traffic ==
    [proto : {"TCP", "UDP", "ICMP", "SCTP"}, packets : [Keys -> SUBSET Packets], workers : Nat,
     ageing : BOOLEAN, shared : BOOLEAN, churn : Nat, endless : BOOLEAN, max : Nat]

ASSUME ElemsAssumption == IsFiniteSet(Elems) /\ Cardinality(Elems) >= 3 /\ None \notin Elems
ASSUME TrafficsAssumption == Traffics \subseteq Traffic
ASSUME CPUsAssumption == IsFiniteSet(CPUs) /\ CPUs # {}

VARIABLES
    traffic,    \* never changes
    el,         \* the elements of ct_map
    cpu,        \* what each CPU does with its packet
    ager,       \* the ageing thread
    used,       \* the counters of the entry of a key moved since they were last looked at
    n           \* packets received

vars == <<traffic, el, cpu, ager, used, n>>

Proto == traffic.proto
Pi0 == CASE Proto = "TCP" -> Tcp0 [] Proto = "UDP" -> Udp0 [] Proto = "ICMP" -> Icmp0
         [] Proto = "SCTP" -> Sctp0
ProtoStates == CASE Proto = "TCP" -> TcpStates [] Proto = "UDP" -> UdpStates
                 [] Proto = "ICMP" -> IcmpStates [] Proto = "SCTP" -> SctpStates

\* A new entry.  Its lts is that of the scratch entry it is copied from, 0.
NewEntry(k, dir) ==
    [live |-> TRUE, key |-> k, dir |-> dir, act |-> "CT", fr |-> FALSE, idle |-> TRUE, pi |-> Pi0]
At(k) == IF \E e \in Elems : el[e].live /\ el[e].key = k
         THEN CHOOSE e \in Elems : el[e].live /\ el[e].key = k ELSE None
Free(k) == [e \in Elems |-> IF el[e].key = k THEN [el[e] EXCEPT !.live = FALSE] ELSE el[e]]

Idle == [pc |-> "idle"]
Job(pc, k, p) == [pc |-> pc, key |-> k, pkt |-> p, at |-> None, axt |-> None,
                  dir |-> "IN", old |-> "CLOSED"]
Go(c, pc) == cpu' = [cpu EXCEPT ![c].pc = pc]
Done(c) == cpu' = [cpu EXCEPT ![c] = Idle]

\* Nothing reads a free element that no CPU points to: its contents are left out.
Unread == [NewEntry("fwd", "IN") EXCEPT !.live = FALSE]
Held(e) == \E c \in CPUs : /\ cpu'[c].pc \in {"begin", "locked", "establish"}
                           /\ e \in {cpu'[c].at, cpu'[c].axt}
Spare == {e \in Elems : ~el[e].live /\ ~Held(e)}
Store(f) == el' = [e \in Elems |-> IF f[e].live \/ Held(e) THEN f[e] ELSE Unread]

Init ==
    /\ traffic \in Traffics
    /\ el = [e \in Elems |-> Unread]
    /\ cpu = [c \in CPUs |-> Idle]
    /\ ager = [pc |-> "off", todo |-> {}, key |-> None, again |-> FALSE, churn |-> traffic.churn]
    /\ used = [k \in Keys |-> FALSE]
    /\ n = 0

\* dp_parse_sctp sets it for the inner headers of a tunnel only.
l4fin(p) == Proto = "TCP" /\ p.hdr = "ok" /\ p.flags \cap {"FIN", "RST"} # {}

\* dp_do_ctops: an entry marked established lets the packet pass, a packet
\* that ends the connection apart.
Recv(c, k) ==
    /\ cpu[c] = Idle
    /\ Cardinality({d \in CPUs : cpu[d] # Idle}) < traffic.workers
    /\ traffic.endless \/ n < traffic.max
    /\ n' = IF traffic.endless THEN n ELSE n + 1
    /\ \E p \in traffic.packets[k] :
         LET e == At(k)
             fr == el[e].fr \/ l4fin(p)
         IN  IF e = None
             THEN /\ cpu' = [cpu EXCEPT ![c] = Job("lookup", k, p)]
                  /\ UNCHANGED <<el, used>>
             ELSE /\ el' = [el EXCEPT ![e].idle = FALSE,
                                      ![e].fr = IF @ \/ el[e].act = "FAST" THEN fr ELSE @]
                  /\ IF el[e].act = "FAST" /\ ~fr
                     THEN used' = [used EXCEPT ![k] = TRUE] /\ UNCHANGED cpu
                     ELSE cpu' = [cpu EXCEPT ![c] = Job("lookup", k, p)] /\ UNCHANGED used
    /\ UNCHANGED <<traffic, ager>>

\* dp_ct_in: both entries are looked up before and after they are created.
Lookup(c) ==
    LET a == At(cpu[c].key)
        x == At(Rev(cpu[c].key))
    IN  /\ cpu[c].pc \in {"lookup", "again"}
        /\ cpu' = [cpu EXCEPT ![c] =
                     CASE a # None /\ x # None -> [@ EXCEPT !.pc = "begin", !.at = a, !.axt = x]
                       [] (a = None \/ x = None) /\ cpu[c].pc = "lookup" -> [@ EXCEPT !.pc = "create1"]
                       [] OTHER -> Idle]
        /\ UNCHANGED <<traffic, el, ager, used, n>>

\* The elements that an update may take.  Those that nobody points to are alike:
\* one stands for all.
Takes(e) == ~el[e].live /\ (e \in Spare => e = CHOOSE x \in Spare : TRUE)

\* bpf_map_update_elem(..., BPF_ANY): fails in a full map.
Update_Adds(k, dir) ==
    \E e \in Elems :
        /\ Takes(e)
        /\ Store([el EXCEPT ![e] = NewEntry(k, dir)])
        /\ used' = [used EXCEPT ![k] = FALSE]
Update(k, dir) ==
    \/ \E e \in Elems :
          /\ Takes(e)
          /\ Store([Free(k) EXCEPT ![e] = NewEntry(k, dir)])
          /\ used' = [used EXCEPT ![k] = FALSE]
    \/ traffic.shared /\ At(k) = None /\ UNCHANGED <<el, used>>

\* The order in which the two entries are written.
Order_Swapped(k) == <<k, Rev(k)>>
Order(k) == <<Rev(k), k>>
Create(c) ==
    LET i == IF cpu[c].pc = "create1" THEN 1 ELSE 2
        k == Order(cpu[c].key)[i]
    IN  /\ cpu[c].pc \in {"create1", "create2"}
        /\ Go(c, IF i = 1 THEN "create2" ELSE "again")
        /\ Update(k, IF k = cpu[c].key THEN "IN" ELSE "OUT")
        /\ UNCHANGED <<traffic, ager, n>>

\* lts of both entries, and which of them is locked: the one of direction in,
\* by the direction of the packet's own entry.
Begin(c) ==
    LET j == cpu[c]
        in == el[j.at].dir = "IN"
        main == IF in THEN j.at ELSE j.axt
    IN  /\ j.pc = "begin"
        /\ cpu' = [cpu EXCEPT ![c] =
                     CASE j.pkt.hdr = "none"  -> Idle
                       [] j.pkt.hdr = "short" -> [j EXCEPT !.pc = "delete1"]
                       [] OTHER -> [j EXCEPT !.pc = "locked", !.dir = IF in THEN "IN" ELSE "OUT",
                                             !.old = el[main].pi.state]]
        /\ Store([el EXCEPT ![j.at].idle = FALSE, ![j.axt].idle = FALSE])
        /\ UNCHANGED <<traffic, ager, used, n>>

dp_ct_sm(pi, xpi, j) ==
    CASE Proto = "TCP"  -> dp_ct_tcp_sm(pi, xpi, j.pkt, j.dir)
      [] Proto = "UDP"  -> dp_ct_udp_sm(pi, xpi, j.dir, j.old)
      [] Proto = "ICMP" -> dp_ct_icmp_sm(pi, xpi, j.pkt)
      [] Proto = "SCTP" -> dp_ct_sctp_sm(pi, xpi, j.pkt, j.dir, j.old)

\* The section under the lock, and what its result leads to.
Track(c) ==
    LET j == cpu[c]
        main == IF j.dir = "IN" THEN j.at ELSE j.axt
        x == IF j.dir = "IN" THEN j.axt ELSE j.at
        r == dp_ct_sm(el[main].pi, el[x].pi, j)
    IN  /\ j.pc = "locked"
        /\ IF r.smr \in {"EST", "ERR", "CTD"}
           THEN Go(c, IF r.smr = "EST" THEN "establish" ELSE "delete1")
           ELSE Done(c)
        /\ Store([el EXCEPT ![x].pi = r.xpi, ![main].pi = r.pi])
        /\ UNCHANGED <<traffic, ager, used, n>>

Establish_OwnEntry(c) ==
    /\ cpu[c].pc = "establish"
    /\ Done(c)
    /\ Store([el EXCEPT ![cpu[c].at].act = "FAST"])
    /\ UNCHANGED <<traffic, ager, used, n>>
Establish(c) ==
    LET j == cpu[c]
    IN  /\ j.pc = "establish"
        /\ Done(c)
        /\ Store([el EXCEPT ![j.at].act = "FAST", ![j.axt].act = "FAST"])
        /\ UNCHANGED <<traffic, ager, used, n>>

Delete(c) ==
    LET j == cpu[c]
    IN  /\ j.pc \in {"delete1", "delete2"}
        /\ IF j.pc = "delete1" THEN Go(c, "delete2") ELSE Done(c)
        /\ Store(Free(IF j.pc = "delete1" THEN Rev(j.key) ELSE j.key))
        /\ UNCHANGED <<traffic, ager, used, n>>

-----------------------------------------------------------------------------
(* The ageing thread: ll_age_ctmap walks over the keys of the map.         *)

AgeStart ==
    /\ traffic.ageing /\ ager.pc = "off"
    /\ \E e \in Elems : el[e].live
    /\ ager' = [ager EXCEPT !.pc = "walk", !.todo = Keys]
    /\ UNCHANGED <<traffic, el, cpu, used, n>>

\* The keys ahead of the walk.  If the key it stands at is no longer in the map,
\* bpf_map_get_next_key begins with the first one again.
Lost == ager.key # None /\ At(ager.key) = None
Ahead == IF Lost THEN Keys ELSE ager.todo

\* The walk leaves the key it stands at.  Keys that are not in the map may be
\* passed by.
AgeMove(k, pc) ==
    \E passed \in SUBSET {x \in Ahead : At(x) = None} :
        ager' = [ager EXCEPT !.pc = pc, !.key = k, !.todo = Ahead \ (passed \cup {k}),
                             !.again = @ \/ Lost]

\* The walk goes on to the key of another connection.  If the entry of that is
\* deleted before the next step, it begins with the first key again.
AgeOther ==
    /\ ager.pc = "walk" /\ traffic.shared
    /\ \/ ager.key # None /\ AgeMove(None, "walk")
       \/ /\ ager.churn > 0
          /\ ager' = [ager EXCEPT !.key = None, !.todo = Keys, !.again = TRUE, !.churn = @ - 1]
    /\ UNCHANGED <<traffic, el, cpu, used, n>>

\* ll_ct_map_ent_has_aged, for an entry that is in the map: is it to be deleted?
Aged_KeepsOrphans(k) ==
    /\ At(Rev(k)) # None
    /\ el[At(k)].dir = "IN"
    /\ el[At(k)].idle /\ el[At(Rev(k))].idle /\ ~used[k] /\ ~used[Rev(k)]
Aged(k) ==
    \/ At(Rev(k)) = None
    \/ /\ el[At(k)].dir = "IN"
       /\ el[At(k)].idle /\ el[At(Rev(k))].idle /\ ~used[k] /\ ~used[Rev(k)]

\* bpf_map_get_next_key, and the entry that it leads to.
AgeVisit(k) ==
    /\ ager.pc = "walk" /\ k \in Ahead /\ At(k) # None
    /\ AgeMove(k, IF Aged(k) THEN "delete" ELSE "walk")
    /\ used' = IF At(Rev(k)) # None /\ el[At(k)].dir = "IN" THEN [x \in Keys |-> FALSE] ELSE used
    /\ UNCHANGED <<traffic, el, cpu, n>>

AgeDelete ==
    /\ ager.pc = "delete"
    /\ UNCHANGED <<traffic, cpu, used, n>>
    /\ ager' = [ager EXCEPT !.pc = "walk"]
    /\ Store(Free(ager.key))

\* No key is left, or n >= max_entries: as there are no more entries than that,
\* a walk is cut off only if it began again.
AgeEnd ==
    /\ ager.pc = "walk"
    /\ (\A k \in Ahead : At(k) = None) \/ ager.again \/ Lost
    /\ ager' = [ager EXCEPT !.pc = "off", !.todo = {}, !.key = None, !.again = FALSE]
    /\ UNCHANGED <<traffic, el, cpu, used, n>>

\* More than a timeout passes.
Elapse ==
    /\ traffic.ageing /\ ager.pc = "off"
    /\ \E e \in Elems : ~el[e].idle
    /\ el' = [e \in Elems |-> [el[e] EXCEPT !.idle = TRUE]]
    /\ UNCHANGED <<traffic, cpu, ager, used, n>>

CpuStep(c) == Lookup(c) \/ Create(c) \/ Begin(c) \/ Track(c) \/ Establish(c) \/ Delete(c)
AgerStep ==
    AgeStart \/ (\E k \in Keys : AgeVisit(k)) \/ AgeOther \/ AgeDelete \/ AgeEnd

Next ==
    \/ \E c \in CPUs, k \in Keys : Recv(c, k)
    \/ \E c \in CPUs : CpuStep(c)
    \/ AgerStep
    \/ Elapse

Spec == Init /\ [][Next]_vars

\* A CPU finishes the packet it has begun, the control plane calls the ageing
\* function again and again, and time passes.  In endless traffic both sides keep
\* sending.
FairSpec ==
    /\ Spec
    /\ \A c \in CPUs : WF_vars(CpuStep(c))
    /\ WF_vars(AgerStep) /\ SF_vars(Elapse)
    /\ \A k \in Keys : SF_vars(traffic.endless /\ \E c \in CPUs : Recv(c, k))

-----------------------------------------------------------------------------
(* The state of an entry is one of its protocol's, no two live elements    *)
(* have the same key, and every CPU holds the pointers that its step uses. *)
TypeOK ==
    /\ \A e \in Elems : /\ DOMAIN el[e] = {"live", "key", "dir", "act", "fr", "idle", "pi"}
                        /\ el[e].dir \in Dirs /\ el[e].act \in {"CT", "FAST"}
                        /\ el[e].pi.state \in ProtoStates
    /\ \A d, e \in Elems : el[d].live /\ el[e].live /\ d # e => el[d].key # el[e].key
    /\ \A c \in CPUs : cpu[c] # Idle /\ cpu[c].pc \in {"begin", "locked", "establish"} =>
                           cpu[c].at \in Elems /\ cpu[c].axt \in Elems
    /\ ager.pc \in {"off", "walk", "delete"} /\ ager.todo \subseteq Keys
    /\ ager.pc = "delete" => ager.key \in Keys

Quiet == \A c \in CPUs : cpu[c] = Idle
Paired == \A k \in Keys : At(k) # None
Entry(k) == el[At(k)]

(* Whatever the CPUs do at once, the two entries are never left both as    *)
(* direction out: the ageing thread skips entries of that direction, and   *)
(* would never delete them.                                                *)
NeverBothOut == Quiet /\ Paired => \E k \in Keys : Entry(k).dir = "IN"

(* With one CPU, and the ageing thread at work, the two entries of the     *)
(* connection always agree: one is of direction in and the other of        *)
(* direction out, with the same state and the same action.                 *)
PairAgrees ==
    traffic.workers = 1 /\ Quiet /\ Paired =>
        /\ Entry("fwd").dir # Entry("rev").dir
        /\ Entry("fwd").pi.state = Entry("rev").pi.state
        /\ Entry("fwd").act = Entry("rev").act

(* With one CPU, entries that packets pass without tracking are those of   *)
(* an established connection, as long as no packet that ends it was seen.  *)
EstablishedState == IF Proto = "ICMP" THEN "REPS" ELSE "EST"
FastIsEstablished ==
    traffic.workers = 1 /\ Quiet /\ Paired /\ (\A k \in Keys : ~Entry(k).fr) =>
        \A k \in Keys : Entry(k).act = "FAST" => Entry(k).pi.state = EstablishedState

(* However many CPUs write back a state that they read before another one  *)
(* wrote EST: a UDP entry that has counted packets of both sides is marked *)
(* established, or a CPU that holds it is about to mark it.                *)
WillBeFast(e) ==
    el[e].act = "FAST" \/ \E c \in CPUs : cpu[c].pc = "establish" /\ e \in {cpu[c].at, cpu[c].axt}
CountedIsMarked ==
    Proto = "UDP" => \A e \in Elems :
        el[e].live /\ el[e].pi.pkts_seen > 0 /\ el[e].pi.rpkts_seen > 0 => WillBeFast(e)

(* Once the packets of this connection have stopped, and other connections *)
(* no longer cut off the walks of the ageing thread, every entry is        *)
(* deleted in the end: no interleaving of CPUs, walks that begin again and *)
(* failed updates leaves an entry that nobody deletes.                     *)
Reclaimed == ~traffic.endless => <>[](\A k \in Keys : At(k) = None)

(* With one CPU, a connection whose two sides keep sending is marked       *)
(* established in the end, after which its packets need no tracking.       *)
(* Several CPUs that create the entries at once may leave both of          *)
(* direction in: each entry then counts one side only, for ever.           *)
Established == \E k \in Keys : At(k) # None /\ Entry(k).act = "FAST"
Establishes == traffic.endless /\ traffic.workers = 1 => <>Established
=============================================================================
