----------------------------- MODULE RateLimiter -----------------------------
(***************************************************************************)
(* examples/ebpf-ratelimiter-main, one of the programs that functions are  *)
(* extracted from (and were, into transformed/ratelimiting_kern-TC.c): an  *)
(* XDP program counts the TCP SYNs of each one-second window in a hash map *)
(* and drops those above the rate, on every CPU at once and without locks  *)
(* or atomic operations; a daemon deletes old windows once a minute.       *)
(*                                                                         *)
(* A tick is a fraction of a second.  Packets that are not SYNs pass       *)
(* without touching any state and are left out.                            *)
(***************************************************************************)
EXTENDS Integers, FiniteSets

CONSTANTS
    CPUs,
    Elems,      \* the preallocated elements of rl_window_map
    None,       \* a null pointer; the key of a free element
    NANO,       \* ticks in a second
    MULTIPLIER,
    BufferTime, \* buffer_time: 10 nanoseconds, none of a tick
    Setups      \* the setups considered, with their bounds

Setup == [cpus : SUBSET CPUs,       \* the CPUs that receive packets
          rate : Nat,               \* the connections per second that are allowed
          sleep : Nat \ {0},        \* the seconds that the daemon sleeps
          maxTime : Nat,            \* bound on the clock
          maxSyns : Nat]            \* bound on the SYNs that arrive

ASSUME NumbersAssumption ==
    NANO \in Nat \ {0} /\ MULTIPLIER \in Nat \ {0, 1} /\ BufferTime \in 0 .. NANO - 1
ASSUME SetupsAssumption == Setups \subseteq Setup /\ \A s \in Setups : NANO <= s.maxTime
ASSUME SetsAssumption == IsFiniteSet(CPUs) /\ IsFiniteSet(Elems)
ASSUME NoneAssumption == None \notin Elems /\ None \notin Int

VARIABLES
    setup,          \* never changes
    now,            \* the monotonic clock
    key, count,     \* rl_window_map: the key and the value of each element
    recv, drop,     \* rl_recv_count_map and rl_drop_count_map
    cpu,            \* the packet that each CPU handles
    daemon,         \* is delete_stale_entries running, and since when
    syns, accepted, \* SYNs that arrived, and those accepted, by window
    passed,         \* the SYNs that passed, counted or not
    made            \* the windows that were ever counted

vars == <<setup, now, key, count, recv, drop, cpu, daemon, syns, accepted, passed, made>>
map == <<key, count>>
Rate == setup.rate
SleepSecs == setup.sleep
MaxTime == setup.maxTime
seen == <<syns, accepted, passed, made>>

Window(t) == (t \div NANO) * NANO
Steps == {"idle", "recv", "recv store", "create", "lookup", "check", "inc", "inc store",
          "drop", "drop store"}
Packet == [pc : Steps, tnow : Nat, pw : Elems \cup {None}, cw : Elems \cup {None},
           total : Nat, old : Nat]

Init ==
    /\ setup \in Setups
    /\ now = NANO
    /\ key = [e \in Elems |-> None] /\ count = [e \in Elems |-> 0]
    /\ recv = 0 /\ drop = 0
    /\ cpu = [p \in CPUs |-> [pc |-> "idle", tnow |-> 0, pw |-> None, cw |-> None,
                              total |-> 0, old |-> 0]]
    /\ daemon = [pc |-> "sleep", time |-> NANO]
    /\ syns = 0 /\ accepted = [t \in 0 .. MaxTime |-> 0] /\ passed = 0
    /\ made = {}

At(p, s) == cpu[p].pc = s
Goto(p, s) == cpu' = [cpu EXCEPT ![p].pc = s]
Load(p, v, s) == cpu' = [cpu EXCEPT ![p].pc = s, ![p].old = v]

(* bpf_map_lookup_elem: a pointer to the element with this key. *)
Lookup(k) ==
    IF \E e \in Elems : key[e] = k THEN CHOOSE e \in Elems : key[e] = k ELSE None

-----------------------------------------------------------------------------
(* _xdp_ratelimit. *)

(* A SYN: the clock is read and both windows are looked up. *)
Receive(p) ==
    LET cw == Window(now)
    IN  /\ p \in setup.cpus /\ At(p, "idle") /\ syns < setup.maxSyns
        /\ cpu' = [cpu EXCEPT ![p] = [pc |-> "recv", tnow |-> now, pw |-> Lookup(cw - NANO),
                                      cw |-> Lookup(cw), total |-> 0, old |-> 0]]
        /\ syns' = syns + 1
        /\ UNCHANGED <<now, map, recv, drop, daemon, accepted, passed, made>>

(* The increment of *in_count is a load and a store. *)
LoadRecv(p) ==
    /\ At(p, "recv")
    /\ Load(p, recv, "recv store")
    /\ UNCHANGED <<now, map, recv, drop, daemon, seen>>

StoreRecv(p) ==
    /\ At(p, "recv store")
    /\ recv' = cpu[p].old + 1
    /\ Goto(p, IF cpu[p].cw = None THEN "create" ELSE "check")
    /\ UNCHANGED <<now, map, drop, daemon, seen>>

(* BPF_NOEXIST: another CPU may have been first; the map may be full. *)
CreateWindow(p) ==
    LET k == Window(cpu[p].tnow)
        free == {e \in Elems : key[e] = None}
    IN  /\ At(p, "create")
        /\ IF Lookup(k) = None /\ free # {}
             THEN /\ \E e \in free :
                        key' = [key EXCEPT ![e] = k] /\ count' = [count EXCEPT ![e] = 0]
                  /\ made' = made \cup {k}
             ELSE UNCHANGED <<map, made>>
        /\ Goto(p, "lookup")
        /\ UNCHANGED <<now, recv, drop, daemon, syns, accepted, passed>>

(* "Just make the verifier happy": without an element the SYN passes. *)
LookupWindow(p) ==
    LET e == Lookup(Window(cpu[p].tnow))
    IN  /\ At(p, "lookup")
        /\ cpu' = [cpu EXCEPT ![p].pc = IF e = None THEN "idle" ELSE "check", ![p].cw = e]
        /\ passed' = IF e = None THEN passed + 1 ELSE passed
        /\ UNCHANGED <<now, map, recv, drop, daemon, syns, accepted, made>>

Total_FromBoot(p) ==
    LET c == cpu[p]
        weight == MULTIPLIER - (c.tnow * MULTIPLIER) \div NANO
    IN  IF c.pw = None THEN count[c.cw] * MULTIPLIER
        ELSE weight * count[c.pw] + count[c.cw] * MULTIPLIER
(* The connections of the last second, times MULTIPLIER: the previous      *)
(* window counts with the share of it that is less than a second ago.      *)
Total(p) ==
    LET c == cpu[p]
        weight == MULTIPLIER - ((c.tnow - Window(c.tnow)) * MULTIPLIER) \div NANO
    IN  IF c.pw = None THEN count[c.cw] * MULTIPLIER
        ELSE weight * count[c.pw] + count[c.cw] * MULTIPLIER

Exceeded_OffByOne(p) ==
    IF cpu[p].pw = None THEN count[cpu[p].cw] > Rate ELSE Total(p) > Rate
(* Without a previous window the count is compared with the rate, with one *)
(* the total, which is MULTIPLIER times a count.                           *)
Exceeded(p) ==
    IF cpu[p].pw = None THEN count[cpu[p].cw] >= Rate ELSE Total(p) > Rate

Check(p) ==
    /\ At(p, "check")
    /\ cpu' = [cpu EXCEPT ![p].pc = IF Exceeded(p) THEN "drop" ELSE "inc", ![p].total = Total(p)]
    /\ UNCHANGED <<now, map, recv, drop, daemon, seen>>

LoadCount(p) ==
    /\ At(p, "inc")
    /\ Load(p, count[cpu[p].cw], "inc store")
    /\ UNCHANGED <<now, map, recv, drop, daemon, seen>>

(* The pointer may lead to an element that was deleted and reused. *)
StoreCount(p) ==
    /\ At(p, "inc store")
    /\ count' = [count EXCEPT ![cpu[p].cw] = cpu[p].old + 1]
    /\ accepted' = [accepted EXCEPT ![Window(cpu[p].tnow)] = @ + 1]
    /\ passed' = passed + 1
    /\ Goto(p, "idle")
    /\ UNCHANGED <<now, key, recv, drop, daemon, syns, made>>

LoadDrop(p) ==
    /\ At(p, "drop")
    /\ Load(p, drop, "drop store")
    /\ UNCHANGED <<now, map, recv, drop, daemon, seen>>

StoreDrop(p) ==
    /\ At(p, "drop store")
    /\ drop' = cpu[p].old + 1
    /\ Goto(p, "idle")
    /\ UNCHANGED <<now, map, recv, daemon, seen>>

Handle(p) ==
    \/ LoadRecv(p) \/ StoreRecv(p) \/ CreateWindow(p) \/ LookupWindow(p) \/ Check(p)
    \/ LoadCount(p) \/ StoreCount(p) \/ LoadDrop(p) \/ StoreDrop(p)

-----------------------------------------------------------------------------
(* The daemon: main and delete_stale_entries. *)

Due == daemon.pc = "sleep" /\ now >= daemon.time + SleepSecs * NANO
Wake ==
    /\ Due
    /\ daemon' = [pc |-> "scan", time |-> now]
    /\ UNCHANGED <<now, map, recv, drop, cpu, seen>>

Stale_WithinPeriod(e) == key[e] # None /\ key[e] < daemon.time - SleepSecs * NANO
Stale(e) == key[e] # None /\ key[e] < daemon.time - BufferTime

(* A hash map is walked in no particular order. *)
DeleteStale(e) ==
    /\ daemon.pc = "scan" /\ Stale(e)
    /\ key' = [key EXCEPT ![e] = None]
    /\ UNCHANGED <<now, count, recv, drop, cpu, daemon, seen>>

Sleep ==
    /\ daemon.pc = "scan" /\ \A e \in Elems : ~Stale(e)
    /\ daemon' = [pc |-> "sleep", time |-> now]
    /\ UNCHANGED <<now, map, recv, drop, cpu, seen>>

(* The daemon is late by less than a tick, and so is a CPU with a packet   *)
(* that arrived one tick ago.                                              *)
Tick ==
    /\ now < MaxTime
    /\ daemon.pc = "sleep" /\ ~Due
    /\ \A p \in CPUs : At(p, "idle") \/ cpu[p].tnow = now
    /\ now' = now + 1
    /\ UNCHANGED <<map, recv, drop, cpu, daemon, seen>>

Next ==
    /\ \/ \E p \in CPUs : Receive(p) \/ Handle(p)
       \/ Wake \/ Sleep \/ \E e \in Elems : DeleteStale(e)
       \/ Tick
    /\ UNCHANGED setup

Spec == Init /\ [][Next]_vars
-----------------------------------------------------------------------------
(* Type correctness. *)
TypeOK ==
    /\ setup \in Setups
    /\ now \in Nat /\ recv \in Nat /\ drop \in Nat /\ syns \in Nat
    /\ key \in [Elems -> Nat \cup {None}] /\ count \in [Elems -> Nat]
    /\ cpu \in [CPUs -> Packet]
    /\ daemon \in [pc : {"sleep", "scan"}, time : Nat]
    /\ accepted \in [0 .. MaxTime -> Nat] /\ passed \in Nat /\ made \subseteq Nat

(* A rate of 0, which the daemon sets without -r, lets one connection of a *)
(* window pass if there was a SYN in the window before: a total of 0 does  *)
(* not exceed it.                                                          *)
Quota == IF Rate = 0 THEN 1 ELSE Rate

(* Until the daemon wakes, a window on one CPU never accepts more than the *)
(* rate, and every SYN is accounted for.                                   *)
Undisturbed == daemon = [pc |-> "sleep", time |-> NANO]
InFlight(s) == Cardinality({p \in CPUs : cpu[p].pc \in s})
RateKept ==
    Undisturbed /\ Cardinality(setup.cpus) = 1 =>
        /\ \A t \in 0 .. MaxTime : accepted[t] <= Quota
        /\ syns = recv + InFlight({"recv", "recv store"})
        /\ recv = passed + drop
                  + InFlight({"create", "lookup", "check", "inc", "inc store", "drop", "drop store"})

(* Until then two CPUs, whose increments overwrite each other, accept no   *)
(* more than this: a store sets the count back to where the CPU loaded it, *)
(* but that point moves up each time.                                      *)
RateKeptByTwo ==
    Undisturbed /\ Cardinality(setup.cpus) = 2 =>
        \A t \in 0 .. MaxTime : 2 * accepted[t] <= Quota * (Quota + 3)

(* A map with room for the windows of one sleep of the daemon and two more *)
(* is never full, so that no SYN is let through for want of an element.    *)
MapHasRoom ==
    SleepSecs + 2 <= Cardinality(Elems) =>
        \A p \in CPUs : At(p, "create") =>
            \E e \in Elems : key[e] \in {None, Window(cpu[p].tnow)}
=============================================================================
