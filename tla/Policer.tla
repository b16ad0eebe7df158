------------------------------- MODULE Policer -------------------------------
(***************************************************************************)
(* examples/loxilb-ebpf-main/kernel/llb_kern_policer.c: do_dp_policer, the *)
(* two-rate three-colour meter of loxilb.  Two token buckets, committed    *)
(* (c) and excess (e), are refilled by the microseconds since their last   *)
(* refill and charged by the packet's length, under the lock of the map    *)
(* element; but the packet's timestamp is taken before the lock.           *)
(*                                                                         *)
(* A tick of the clock is a nanosecond.  WORD stands for 2^64: time        *)
(* differences and the tokens accrued are computed modulo it.  The control *)
(* plane that creates the policer is not part of the repository.           *)
(***************************************************************************)
EXTENDS Integers, Sequences

CONSTANTS
    CPUs,
    NSECS_IN_USEC,
    WORD,
    Setups,         \* a policer, the CPUs that meter its packets and their lengths
    MaxTime,        \* bound on the clock
    MaxPackets      \* bound on the packets metered

NONE == 0
GREEN == 1
YELLOW == 2
RED == 3

ASSUME PolAssumption ==
    Setups \subseteq [pol : [cbs : Nat, ebs : Nat, toksc_pus : Nat, tokse_pus : Nat,
                             color_aware : BOOLEAN, drop_prio : NONE .. RED],
                      cpus : SUBSET CPUs, lengths : SUBSET Nat]
ASSUME NumbersAssumption ==
    /\ NSECS_IN_USEC \in Nat \ {0} /\ WORD \in Nat \ {0}
    /\ MaxTime \in Nat /\ MaxPackets \in Nat
\* Nothing but a negative difference wraps within the bounds.
ASSUME WordAssumption ==
    /\ MaxTime < WORD
    /\ \A s \in Setups : s.pol.toksc_pus * MaxTime < WORD /\ s.pol.tokse_pus * MaxTime < WORD

VARIABLES
    setup,          \* never changes
    now,            \* bpf_ktime_get_ns
    c, e,           \* the buckets: tok_c with lastc_uts, tok_e with laste_uts
    pkt,            \* the packet each CPU meters
    done,           \* the packets metered, in the order of the lock, with their colours
                    \* and the bytes coloured green, and not red, up to each of them
    slow            \* a bucket of cbs filled at half the committed rate; see HalfRate

vars == <<setup, now, c, e, pkt, done, slow>>

pol == setup.pol

Idle == [pc |-> "idle"]
Unknown == [pc |-> "unknown"]
Packet == [pc : {"lock"}, ts : Nat, len : Nat, icol : NONE .. RED]
Bucket(size) == [tok : 0 .. size, last : Nat]

Init ==
    /\ setup \in Setups
    /\ now = 0
    /\ c \in [tok : {0, pol.cbs}, last : {0}]
    /\ e \in [tok : {0, pol.ebs}, last : {0}]
    /\ pkt = [p \in CPUs |-> Idle]
    /\ done = <<>>
    /\ slow = 2 * NSECS_IN_USEC * c.tok

\* ts_now is read; the policer of the packet's id is looked up without the lock.
Arrive(p) ==
    /\ pkt[p] = Idle
    /\ Len(done) < MaxPackets
    /\ \E len \in setup.lengths, icol \in IF pol.color_aware THEN NONE .. RED ELSE {NONE} :
           pkt' \in {[pkt EXCEPT ![p] = x] :
                        x \in {[pc |-> "lock", ts |-> now, len |-> len, icol |-> icol], Unknown}}
    /\ UNCHANGED <<setup, now, c, e, done, slow>>

\* bpf_map_lookup_elem found no policer.
NotPoliced(p) ==
    /\ pkt[p] = Unknown
    /\ pkt' = [pkt EXCEPT ![p] = Idle]
    /\ UNCHANGED <<setup, now, c, e, done, slow>>

Accrued(b, rate, ts) == (rate * (((ts - b.last) % WORD) \div NSECS_IN_USEC)) % WORD

Refill_NoCap(b, size, rate, ts) ==
    IF Accrued(b, rate, ts) > 0
    THEN [tok |-> b.tok + Accrued(b, rate, ts), last |-> ts] ELSE b
Refill_NoRevert(b, size, rate, ts) ==
    [tok |-> IF b.tok + Accrued(b, rate, ts) > size THEN size ELSE b.tok + Accrued(b, rate, ts),
     last |-> ts]
\* Tokens for the whole microseconds since the last refill, up to the size of
\* the bucket; the time is left as it was when none were due.
Refill(b, size, rate, ts) ==
    LET acc == Accrued(b, rate, ts)
        room == IF size > b.tok THEN size - b.tok ELSE 0
    IN  IF acc = 0 THEN b
        ELSE [tok |-> b.tok + (IF acc > room THEN room ELSE acc), last |-> ts]

\* Colour-aware, a packet that is red or uncoloured is not metered.
Metered(x) == ~(pol.color_aware /\ x.icol \in {NONE, RED})

\* ocol; for an uncoloured packet in colour-aware mode it stays as it was, NONE.
Colour(x, tokc, toke) ==
    IF ~Metered(x) THEN x.icol
    ELSE IF toke < x.len THEN RED
    ELSE IF tokc < x.len
         THEN IF pol.color_aware /\ x.icol # GREEN THEN x.icol ELSE YELLOW
         ELSE IF pol.color_aware THEN x.icol ELSE GREEN

\* What a packet takes from the excess and from the committed bucket.
ChargeE_GreenOnly(x, tokc, toke) ==
    IF Metered(x) /\ toke >= x.len /\ tokc >= x.len THEN x.len ELSE 0
ChargeE(x, tokc, toke) == IF Metered(x) /\ toke >= x.len THEN x.len ELSE 0
ChargeC(x, tokc, toke) ==
    IF Metered(x) /\ toke >= x.len /\ tokc >= x.len THEN x.len ELSE 0

\* The bytes of a metered packet that count as green, and as not red.
Green(d) == IF d.col = GREEN THEN d.len ELSE 0
Passed(d) == IF d.col \in {GREEN, YELLOW} THEN d.len ELSE 0
\* The totals after the last packet metered.
Totals == IF done = <<>> THEN [green |-> 0, passed |-> 0]
          ELSE [green |-> done[Len(done)].green, passed |-> done[Len(done)].passed]

\* The section under bpf_spin_lock.
Police(p) ==
    LET x == pkt[p]
        c1 == Refill(c, pol.cbs, pol.toksc_pus, x.ts)
        e1 == Refill(e, pol.ebs, pol.tokse_pus, x.ts)
        col == Colour(x, c1.tok, e1.tok)
    IN  /\ x.pc = "lock"
        /\ Len(done) < MaxPackets
        /\ c' = [c1 EXCEPT !.tok = @ - ChargeC(x, c1.tok, e1.tok)]
        /\ e' = [e1 EXCEPT !.tok = @ - ChargeE(x, c1.tok, e1.tok)]
        /\ done' = LET d == [len |-> x.len, col |-> col]
                   IN  Append(done, [ts |-> x.ts, len |-> x.len, col |-> col,
                                     dropped |-> pol.drop_prio < col,
                                     green |-> Totals.green + Green(d),
                                     passed |-> Totals.passed + Passed(d)])
        /\ slow' = slow - 2 * NSECS_IN_USEC * ChargeC(x, c1.tok, e1.tok)
        /\ pkt' = [pkt EXCEPT ![p] = Idle]
        /\ UNCHANGED <<setup, now>>

\* The slow bucket, in units of 1/(2 * NSECS_IN_USEC) tokens.
Tick ==
    /\ now < MaxTime
    /\ now' = now + 1
    /\ slow' = LET full == 2 * NSECS_IN_USEC * pol.cbs
               IN  IF slow + pol.toksc_pus > full THEN full ELSE slow + pol.toksc_pus
    /\ UNCHANGED <<setup, c, e, pkt, done>>

Next == (\E p \in setup.cpus : Arrive(p) \/ NotPoliced(p) \/ Police(p)) \/ Tick

Spec == Init /\ [][Next]_vars

-----------------------------------------------------------------------------
(* Neither bucket ever holds more than its size or, the subtractions being *)
(* unsigned, less than nothing, whatever the order of the timestamps.      *)
TypeOK ==
    /\ setup \in Setups
    /\ now \in 0 .. MaxTime
    /\ c \in Bucket(pol.cbs)
    /\ e \in Bucket(pol.ebs)
    /\ pkt \in [CPUs -> Packet \cup {Idle, Unknown}]

\* The bytes of the metered packets i to j that are green, and not red.
GreenBytes(i, j) == done[j].green - done[i].green + Green(done[i])
PassedBytes(i, j) == done[j].passed - done[i].passed + Passed(done[i])
\* The most that a bucket hands out from packet i to packet j: its size, and
\* its rate for the time between them, to a microsecond.
Allowed(i, j, size, rate) ==
    size + rate * ((done[j].ts - done[i].ts) \div NSECS_IN_USEC + 1)

\* The lock was taken in the order of the timestamps.
InOrder == \A i, j \in DOMAIN done : i <= j => done[i].ts <= done[j].ts

(* The green packets of every interval conform to the committed rate and   *)
(* burst size, and those that are not red to the excess rate and burst     *)
(* size, as long as the CPUs take the lock in the order of their           *)
(* timestamps.                                                             *)
ColoursConform ==
    InOrder => \A i, j \in DOMAIN done : i <= j =>
        /\ GreenBytes(i, j) <= Allowed(i, j, pol.cbs, pol.toksc_pus)
        /\ PassedBytes(i, j) <= Allowed(i, j, pol.ebs, pol.tokse_pus)

(* The nanoseconds that a refill truncates cost at most half of the        *)
(* committed rate: the bucket is never emptier than one that is filled at  *)
(* half the rate, without truncation, and charged the same, but for what   *)
(* the current microseconds are worth, under the same condition.           *)
HalfRate ==
    InOrder => slow <= 2 * NSECS_IN_USEC * c.tok + (now - c.last) * pol.toksc_pus
=============================================================================
