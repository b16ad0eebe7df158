--------------------------- MODULE SessionsProofs ---------------------------
(***************************************************************************)
(* Proofs about Sessions: TCP connections and SCTP associations through    *)
(* the connection tracker, for any number of data packets and losses, any  *)
(* initial sequence numbers and any size of the sequence number space.     *)
(***************************************************************************)
EXTENDS Sessions, TLAPS

LEMMA EndFacts ==
    /\ Tcp!Ends = {"fwd", "rev"} /\ Sctp!Ends = {"fwd", "rev"}
    /\ Tcp!Peer("fwd") = "rev" /\ Tcp!Peer("rev") = "fwd"
    /\ Sctp!Peer("fwd") = "rev" /\ Sctp!Peer("rev") = "fwd"
BY DEF Tcp!Ends, Sctp!Ends, Tcp!Peer, Sctp!Peer

-----------------------------------------------------------------------------
(* SCTP: types.                                                            *)
LEMMA SctpMoveTyped ==
    ASSUME NEW s \in Sctp!Info, NEW p \in Sctp!Packet, NEW d, NEW old \in Sctp!SctpStates
    PROVE  Sctp!SctpMove(s, p, d, old) \in Sctp!Info
<1>. DEFINE m == Sctp!SctpMove(s, p, d, old)
<1>0. p.tag \in Nat  BY DEF Sctp!Packet, Sctp!Chunk, Sctp!Tag, Sctp!Ends
<1>1. \A x \in Sctp!SctpStates : Sctp!In(s, x) \in Sctp!Info  BY DEF Sctp!In, Sctp!Info
<1>a. \A x \in {"INIT", "COOKIE", "ERR", "SHUT", "ABRT", "EST", "SHUTA", "SHUTC"} : Sctp!In(s, x) \in Sctp!Info
  BY <1>1 DEF Sctp!SctpStates
<1>2. Sctp!SctpInit(s, p) \in Sctp!Info  BY <1>0 DEF Sctp!SctpInit, Sctp!Info, Sctp!SctpStates
<1>3. Sctp!SctpClosed(s, p, d, old) \in Sctp!Info
  <2>1. \/ Sctp!SctpClosed(s, p, d, old) = Sctp!In(s, "EST") \/ Sctp!SctpClosed(s, p, d, old) = Sctp!In(s, "ERR")
        \/ Sctp!SctpClosed(s, p, d, old) = Sctp!In(s, old)
        \/ Sctp!SctpClosed(s, p, d, old) = [s EXCEPT !.state = "INIT", !.itag = p.tag]
    BY Zenon DEF Sctp!SctpClosed
  <2>2. [s EXCEPT !.state = "INIT", !.itag = p.tag] \in Sctp!Info  BY <1>0 DEF Sctp!Info, Sctp!SctpStates
  <2>. QED  BY <2>1, <2>2, <1>1, <1>a
<1>4. Sctp!SctpInited(s, p, old) \in Sctp!Info
  <2>1. \/ Sctp!SctpInited(s, p, old) = Sctp!In(s, old) \/ Sctp!SctpInited(s, p, old) = Sctp!SctpInit(s, p)
        \/ Sctp!SctpInited(s, p, old) = Sctp!In(s, "ERR")
        \/ Sctp!SctpInited(s, p, old) = [s EXCEPT !.state = "INITA", !.otag = p.tag]
    BY Zenon DEF Sctp!SctpInited
  <2>2. [s EXCEPT !.state = "INITA", !.otag = p.tag] \in Sctp!Info  BY <1>0 DEF Sctp!Info, Sctp!SctpStates
  <2>. QED  BY <2>1, <2>2, <1>1, <1>a, <1>2
<1>5. Sctp!SctpInitAcked(s, p, d, old) \in Sctp!Info
  <2>1. \/ Sctp!SctpInitAcked(s, p, d, old) = Sctp!In(s, old)
        \/ Sctp!SctpInitAcked(s, p, d, old) = Sctp!SctpInit(s, p)
        \/ Sctp!SctpInitAcked(s, p, d, old) = Sctp!In(s, "ERR")
        \/ Sctp!SctpInitAcked(s, p, d, old) = Sctp!In(s, "COOKIE")
    BY Zenon DEF Sctp!SctpInitAcked
  <2>. QED  BY <2>1, <1>1, <1>a, <1>2
<1>6. s.state \in Sctp!SctpStates  BY DEF Sctp!Info
<1>7. \/ m = Sctp!SctpClosed(s, p, d, old) \/ m = Sctp!SctpInited(s, p, old)
      \/ m = Sctp!SctpInitAcked(s, p, d, old)
      \/ m = Sctp!In(s, "ERR") \/ m = Sctp!In(s, "SHUT") \/ m = Sctp!In(s, "ABRT") \/ m = Sctp!In(s, "EST")
      \/ m = Sctp!In(s, "SHUTA") \/ m = Sctp!In(s, "SHUTC") \/ m = Sctp!In(s, old)
  BY <1>6, Zenon DEF Sctp!SctpMove, Sctp!SctpStates
<1>. HIDE DEF m
<1>8. m \in Sctp!Info  BY <1>1, <1>a, <1>3, <1>4, <1>5, <1>7
<1>. QED  BY <1>8 DEF m

(* What the tracker makes of a packet: the entry is freed, stays, or gets  *)
(* the state that the state machine moves to.                              *)
SctpMoved(k, m) == Sctp!SctpMove(Sctp!Known(k).pi, m, Sctp!Dir(k), Sctp!Known(k).pi.state)
LEMMA SctpTracked ==
    ASSUME Sctp!TypeOK, NEW k \in Sctp!Ends, NEW m \in Sctp!Packet
    PROVE  /\ Sctp!Known(k) \in Sctp!Entry /\ SctpMoved(k, m) \in Sctp!Info
           /\ Sctp!Known(k).fast => Sctp!Tracked(k, m) = Sctp!Known(k) /\ Sctp!Known(k).pi.state = "EST"
           /\ ~Sctp!Known(k).fast /\ SctpMoved(k, m).state \in {"ERR", "SHUTC"} => Sctp!Tracked(k, m) = NoEntry
           /\ ~Sctp!Known(k).fast /\ SctpMoved(k, m).state \notin {"ERR", "SHUTC"} =>
                 /\ Sctp!Tracked(k, m) \in Sctp!Entry
                 /\ Sctp!Tracked(k, m).owner = Sctp!Known(k).owner
                 /\ Sctp!Tracked(k, m).pi = SctpMoved(k, m)
                 /\ Sctp!Tracked(k, m).fast <=> SctpMoved(k, m).state = "EST"
<1>. DEFINE old == Sctp!Known(k)
            n == SctpMoved(k, m)
            T == Sctp!Tracked(k, m)
<1>1. old \in Sctp!Entry /\ (old.fast => old.pi.state = "EST")
  <2>1. Sctp!Fresh(k) \in Sctp!Entry /\ ~Sctp!Fresh(k).fast
    BY DEF Sctp!Fresh, Sctp!Entry, Sctp!Info, Sctp!Sctp0, Sctp!SctpStates
  <2>. QED  BY <2>1 DEF Sctp!Known, Sctp!TypeOK
<1>2. old.pi \in Sctp!Info /\ old.xpi \in Sctp!Info /\ old.pi.state \in Sctp!SctpStates /\ old.fast \in BOOLEAN
  BY <1>1 DEF Sctp!Entry, Sctp!Info
<1>3. n \in Sctp!Info  BY <1>2, SctpMoveTyped DEF SctpMoved
<1>. DEFINE r == Sctp!dp_ct_sctp_sm(old.pi, old.xpi, m, Sctp!Dir(k), old.pi.state)
<1>4. r.pi = n /\ r.xpi = [old.xpi EXCEPT !.state = n.state] /\ r.smr = Sctp!SctpResult(n.state)
  BY DEF Sctp!dp_ct_sctp_sm, SctpMoved
<1>5. r.xpi \in Sctp!Info  BY <1>2, <1>3, <1>4 DEF Sctp!Info
<1>6. /\ r.smr \in {"ERR", "CTD"} <=> n.state \in {"ERR", "SHUTC"}
      /\ r.smr = "EST" <=> n.state = "EST"
  <2>1. n.state \in Sctp!SctpStates  BY <1>3 DEF Sctp!Info
  <2>. HIDE DEF n
  <2>2. /\ Sctp!SctpResult(n.state) \in {"ERR", "CTD"} <=> n.state \in {"ERR", "SHUTC"}
        /\ Sctp!SctpResult(n.state) = "EST" <=> n.state = "EST"
    BY <2>1, Zenon DEF Sctp!SctpResult, Sctp!SctpStates
  <2>. QED  BY <1>4, <2>2
<1>7. /\ old.fast => T = old
      /\ ~old.fast /\ r.smr \in {"ERR", "CTD"} => T = NoEntry
      /\ ~old.fast /\ r.smr \notin {"ERR", "CTD"} =>
            T = [old EXCEPT !.pi = r.pi, !.xpi = r.xpi, !.fast = r.smr = "EST"]
  <2>. HIDE DEF r
  <2>1. T = CASE old.fast -> old
              [] ~old.fast /\ r.smr \in {"ERR", "CTD"} -> NoEntry
              [] OTHER -> [old EXCEPT !.pi = r.pi, !.xpi = r.xpi, !.fast = r.smr = "EST"]
    BY DEF Sctp!Tracked, r
  <2>. HIDE DEF T, old
  <2>. QED  BY <2>1, Zenon
<1>8. ASSUME ~old.fast, n.state \notin {"ERR", "SHUTC"}
      PROVE  T \in Sctp!Entry /\ T.owner = old.owner /\ T.pi = n /\ (T.fast <=> n.state = "EST")
  <2>1. T = [old EXCEPT !.pi = n, !.xpi = r.xpi, !.fast = r.smr = "EST"]  BY <1>4, <1>6, <1>7, <1>8
  <2>. HIDE DEF T, r, n, old
  <2>2. PICK f \in BOOLEAN : f = (r.smr = "EST")  OBVIOUS
  <2>3. T = [old EXCEPT !.pi = n, !.xpi = r.xpi, !.fast = f]  BY <2>1, <2>2
  <2>4. T \in Sctp!Entry /\ T.owner = old.owner /\ T.pi = n /\ T.fast = f
    BY <1>1, <1>3, <1>5, <2>3 DEF Sctp!Entry
  <2>. QED  BY <1>6, <2>2, <2>4
<1>. QED  BY <1>1, <1>3, <1>6, <1>7, <1>8

LEMMA ChunkFacts ==
    /\ \A k \in Sctp!Ends, c \in Sctp!Chunks : Sctp!Chunk(k, c) \in Sctp!Packet /\ Sctp!Chunk(k, c).chunk = c
    /\ \A m \in Sctp!Packet : m.chunk \in Sctp!Chunks
BY DEF Sctp!Packet, Sctp!Chunk

SctpEndStates == {"closed", "listen", "initSent", "echoed", "est", "shutSent", "shutAcked", "done"}
LEMMA ReactionFacts ==
    ASSUME NEW s \in SctpEndStates, NEW c
    PROVE  /\ Sctp!Reaction(s, c).st \in SctpEndStates
           /\ \/ Sctp!Reaction(s, c).out = <<>>
              \/ \E x \in Sctp!Chunks : Sctp!Reaction(s, c).out = <<x>>
<1>. DEFINE r == Sctp!Reaction(s, c)
<1>1. \/ r = [st |-> s, out |-> <<"INIT_ACK">>] \/ r = [st |-> "echoed", out |-> <<"COOKIE_ECHO">>]
      \/ r = [st |-> "est", out |-> <<"COOKIE_ACK">>] \/ r = [st |-> "est", out |-> <<>>]
      \/ r = [st |-> "shutAcked", out |-> <<"SHUT_ACK">>] \/ r = [st |-> "done", out |-> <<"SHUT_COMPLETE">>]
      \/ r = [st |-> "done", out |-> <<>>] \/ r = [st |-> s, out |-> <<>>]
  BY Zenon DEF Sctp!Reaction
<1>. HIDE DEF r
<1>2. r.st \in SctpEndStates  BY <1>1 DEF SctpEndStates
<1>3. r.out = <<>> \/ \E x \in Sctp!Chunks : r.out = <<x>>  BY <1>1 DEF Sctp!Chunks
<1>. QED  BY <1>2, <1>3 DEF r

(* What Forward does to the packets under way and to the ends. *)
LEMMA SctpForwarded ==
    ASSUME Sctp!TypeOK, NEW k \in Sctp!Ends, NEW p, p = Sctp!Peer(k), Sctp!Forward(k)
    PROVE  /\ p \in Sctp!Ends /\ p # k /\ way[k] # <<>> /\ Head(way[k]) \in Sctp!Packet
           /\ way' \in [Sctp!Ends -> Seq(Sctp!Packet)] /\ st' \in [Sctp!Ends -> SctpEndStates]
           /\ way'[k] = Tail(way[k]) /\ st'[k] = st[k]
           /\ ~Sctp!Drops(k, Head(way[k])) =>
                 /\ st'[p] = Sctp!Reaction(st[p], Head(way[k]).chunk).st
                 /\ Sctp!Reaction(st[p], Head(way[k]).chunk).out = <<>> => way'[p] = way[p]
                 /\ \A x \in Sctp!Chunks : Sctp!Reaction(st[p], Head(way[k]).chunk).out = <<x>> =>
                       way'[p] = Append(way[p], Sctp!Chunk(p, x))
           /\ Sctp!Drops(k, Head(way[k])) => way'[p] = way[p] /\ st'[p] = st[p]
<1>. DEFINE m == Head(way[k])
            r == Sctp!Reaction(st[p], m.chunk)
<1>1. p \in Sctp!Ends /\ p # k /\ way[k] # <<>>  BY EndFacts DEF Sctp!Forward
<1>2. way \in [Sctp!Ends -> Seq(Sctp!Packet)] /\ st \in [Sctp!Ends -> SctpEndStates]
  BY DEF Sctp!TypeOK, SctpEndStates
<1>3. way[k] \in Seq(Sctp!Packet) /\ way[p] \in Seq(Sctp!Packet)  BY <1>1, <1>2
<1>4. m \in Sctp!Packet /\ Tail(way[k]) \in Seq(Sctp!Packet)  BY <1>1, <1>3
<1>5. r.st \in SctpEndStates /\ (r.out = <<>> \/ \E x \in Sctp!Chunks : r.out = <<x>>)
  BY <1>1, <1>2, ReactionFacts
<1>6. /\ Sctp!Drops(k, m) => way' = [way EXCEPT ![k] = Tail(@)] /\ st' = st
      /\ ~Sctp!Drops(k, m) =>
            /\ st' = [st EXCEPT ![p] = r.st]
            /\ way' = [way EXCEPT ![k] = Tail(@),
                                  ![p] = @ \o [i \in DOMAIN r.out |-> Sctp!Chunk(p, r.out[i])]]
  BY DEF Sctp!Forward
<1>. HIDE DEF m, r
<1>7. CASE Sctp!Drops(k, m)  BY <1>1, <1>2, <1>4, <1>6, <1>7 DEF m
<1>8. CASE ~Sctp!Drops(k, m)
  <2>. DEFINE q == way[p] \o [i \in DOMAIN r.out |-> Sctp!Chunk(p, r.out[i])]
  <2>1. CASE r.out = <<>>
    <3>1. [i \in DOMAIN r.out |-> Sctp!Chunk(p, r.out[i])] = <<>>  BY <2>1
    <3>2. q = way[p]
      <4>1. \A z \in Seq(Sctp!Packet) : z \o <<>> = z  OBVIOUS
      <4>2. way[p] \o <<>> = way[p]  BY <1>3, <4>1
      <4>. QED  BY <3>1, <4>2
    <3>. HIDE DEF q
    <3>3. way' = [way EXCEPT ![k] = Tail(@), ![p] = q]  BY <1>1, <1>6, <1>8 DEF q
    <3>4. \A x \in Sctp!Chunks : r.out # <<x>>  BY <2>1
    <3>. QED  BY <1>1, <1>2, <1>3, <1>4, <1>5, <1>6, <1>8, <2>1, <3>2, <3>3, <3>4 DEF m, r
  <2>2. ASSUME NEW x \in Sctp!Chunks, r.out = <<x>>
        PROVE  /\ way'[p] = Append(way[p], Sctp!Chunk(p, x)) /\ way'[k] = Tail(way[k])
               /\ way' \in [Sctp!Ends -> Seq(Sctp!Packet)]
    <3>. DEFINE y == Sctp!Chunk(p, x)
    <3>0. y \in Sctp!Packet  BY <1>1, ChunkFacts
    <3>. HIDE DEF y
    <3>1. [i \in DOMAIN r.out |-> Sctp!Chunk(p, r.out[i])] = <<y>>  BY <2>2 DEF y
    <3>2. q = Append(way[p], y)
      <4>1. q = way[p] \o <<y>>  BY <3>1
      <4>. QED  BY <1>3, <3>0, <4>1
    <3>3. q \in Seq(Sctp!Packet)  BY <1>3, <3>0, <3>2
    <3>. HIDE DEF q
    <3>4. way' = [way EXCEPT ![k] = Tail(@), ![p] = q]  BY <1>1, <1>6, <1>8 DEF q
    <3>. QED  BY <1>1, <1>2, <1>3, <1>4, <3>2, <3>3, <3>4 DEF y
  <2>3. CASE r.out # <<>>
    <3>1. st'[k] = st[k] /\ st'[p] = r.st /\ st' \in [Sctp!Ends -> SctpEndStates]
      BY <1>1, <1>2, <1>5, <1>6, <1>8
    <3>. QED  BY <1>1, <1>4, <1>5, <1>8, <2>2, <2>3, <3>1 DEF m, r
  <2>. QED  BY <2>1, <2>3
<1>. QED  BY <1>7, <1>8

LEMMA SctpTypedInit == ASSUME Sctp!Init PROVE Sctp!TypeOK
<1>1. \A k \in Sctp!Ends : (IF k = "fwd" THEN "closed" ELSE "listen") \in SctpEndStates  BY DEF SctpEndStates
<1>2. <<>> \in Seq(Sctp!Packet) /\ 0 \in 0 .. MaxData /\ 0 \in 0 .. MaxLosses  BY SessionsAssumption
<1>. QED  BY <1>1, <1>2 DEF Sctp!Init, Sctp!TypeOK, SctpEndStates

LEMMA SctpBegun ==
    ASSUME Sctp!TypeOK, NEW k \in Sctp!Ends, Sctp!Begin(k)
    PROVE  /\ Sctp!Still /\ ct' = ct /\ dropped' = dropped /\ losses' = losses /\ sent' = sent
           /\ st[k] \in {"closed", "initSent", "echoed", "est"}
           /\ way' \in [Sctp!Ends -> Seq(Sctp!Packet)] /\ st' \in [Sctp!Ends -> SctpEndStates]
           /\ \A x \in Sctp!Ends \ {k} : way'[x] = way[x] /\ st'[x] = st[x]
           /\ st[k] \in {"closed", "initSent"} =>
                 way'[k] = <<Sctp!Chunk(k, "INIT")>> /\ st'[k] = "initSent"
<1>1. PICK c \in Sctp!Begins(k) :
          /\ way' = [way EXCEPT ![k] = <<Sctp!Chunk(k, c)>>]
          /\ st' = [st EXCEPT ![k] = CASE c = "INIT" -> "initSent" [] c = "SHUT" -> "shutSent" [] OTHER -> @]
  BY DEF Sctp!Begin
<1>2. way \in [Sctp!Ends -> Seq(Sctp!Packet)] /\ st \in [Sctp!Ends -> SctpEndStates]
  BY DEF Sctp!TypeOK, SctpEndStates
<1>3. /\ c \in {"INIT", "COOKIE_ECHO", "SHUT"} /\ st[k] \in {"closed", "initSent", "echoed", "est"}
      /\ st[k] \in {"closed", "initSent"} => c = "INIT"
  <2>1. PICK s : s = st[k]  OBVIOUS
  <2>2. c \in (CASE s \in {"closed", "initSent"} -> {"INIT"} [] s = "echoed" -> {"COOKIE_ECHO"}
                 [] s = "est" -> {"SHUT"} [] OTHER -> {})
    BY <2>1 DEF Sctp!Begins
  <2>3. \/ s \in {"closed", "initSent"} /\ c = "INIT"
        \/ s = "echoed" /\ c = "COOKIE_ECHO"
        \/ s = "est" /\ c = "SHUT"
    BY <2>2, Zenon
  <2>. QED  BY <2>1, <2>3
<1>4. PICK n : n = CASE c = "INIT" -> "initSent" [] c = "SHUT" -> "shutSent" [] OTHER -> st[k]  OBVIOUS
<1>5. (n = "initSent" \/ n = "shutSent" \/ n = st[k]) /\ (c = "INIT" => n = "initSent")  BY <1>4, Zenon
<1>6. n \in SctpEndStates  BY <1>2, <1>5 DEF SctpEndStates
<1>7. st' = [st EXCEPT ![k] = n]  BY <1>1, <1>4, Zenon
<1>8. Sctp!Chunk(k, c) \in Sctp!Packet  BY <1>3, ChunkFacts DEF Sctp!Chunks
<1>9. PICK y \in Sctp!Packet : y = Sctp!Chunk(k, c)  BY <1>8
<1>10. /\ way' = [way EXCEPT ![k] = <<y>>] /\ <<y>> \in Seq(Sctp!Packet)
       /\ st[k] \in {"closed", "initSent"} => y = Sctp!Chunk(k, "INIT") /\ n = "initSent"
  BY <1>1, <1>3, <1>5, <1>9
<1>11. /\ Sctp!Still /\ ct' = ct /\ dropped' = dropped /\ losses' = losses /\ sent' = sent
  BY DEF Sctp!Begin
<1>. QED  BY <1>2, <1>3, <1>6, <1>7, <1>10, <1>11

LEMMA SctpTypedNext == ASSUME Sctp!TypeOK, Sctp!Next PROVE Sctp!TypeOK'
<1>1. PICK k \in Sctp!Ends : Sctp!Begin(k) \/ Sctp!SendData(k) \/ Sctp!Forward(k) \/ Sctp!Lose(k)
  BY DEF Sctp!Next
<1>2. way \in [Sctp!Ends -> Seq(Sctp!Packet)] /\ st \in [Sctp!Ends -> SctpEndStates]
  BY DEF Sctp!TypeOK, SctpEndStates
<1>3. ASSUME NEW m \in Sctp!Packet, NEW T, T = Sctp!Tracked(k, m)
      PROVE  /\ T \in Sctp!Entry \cup {NoEntry}
             /\ T # NoEntry => T.pi.state \notin {"SHUTC", "ERR"} /\ (T.fast => T.pi.state = "EST")
  BY <1>3, SctpTracked DEF Sctp!TypeOK
<1>4. CASE Sctp!Begin(k)
  BY <1>4, SctpBegun DEF Sctp!TypeOK, SctpEndStates
<1>5. CASE Sctp!SendData(k)
  <2>1. PICK y \in Sctp!Packet : y = Sctp!Chunk(k, "DATA")  BY ChunkFacts DEF Sctp!Chunks
  <2>2. way' = [way EXCEPT ![k] = Append(@, y)] /\ Append(way[k], y) \in Seq(Sctp!Packet)
    BY <1>2, <1>5, <2>1 DEF Sctp!SendData
  <2>3. way' \in [Sctp!Ends -> Seq(Sctp!Packet)]  BY <1>2, <2>2
  <2>4. sent' \in [Sctp!Ends -> 0 .. MaxData]
    BY <1>5, SessionsAssumption DEF Sctp!TypeOK, Sctp!SendData
  <2>5. ct' = ct /\ st' = st /\ losses' = losses /\ dropped' = dropped  BY <1>5 DEF Sctp!SendData
  <2>. QED  BY <2>3, <2>4, <2>5 DEF Sctp!TypeOK
<1>6. CASE Sctp!Forward(k)
  <2>1. /\ Head(way[k]) \in Sctp!Packet
        /\ way' \in [Sctp!Ends -> Seq(Sctp!Packet)] /\ st' \in [Sctp!Ends -> SctpEndStates]
    BY <1>6, SctpForwarded
  <2>2. PICK T : T = Sctp!Tracked(k, Head(way[k]))  OBVIOUS
  <2>3. ct' = T /\ sent' = sent /\ losses' = losses /\ dropped' \in BOOLEAN
    BY <1>6, <2>2 DEF Sctp!Forward, Sctp!TypeOK
  <2>4. /\ T \in Sctp!Entry \cup {NoEntry}
        /\ T # NoEntry => T.pi.state \notin {"SHUTC", "ERR"} /\ (T.fast => T.pi.state = "EST")
    BY <1>3, <2>1, <2>2
  <2>. QED  BY <2>1, <2>3, <2>4 DEF Sctp!TypeOK, SctpEndStates
<1>7. CASE Sctp!Lose(k)
  <2>1. way[k] # <<>> /\ way[k] \in Seq(Sctp!Packet)  BY <1>2, <1>7 DEF Sctp!Lose
  <2>2. Head(way[k]) \in Sctp!Packet /\ Tail(way[k]) \in Seq(Sctp!Packet)  BY <2>1
  <2>3. PICK T : T = Sctp!Tracked(k, Head(way[k]))  OBVIOUS
  <2>4. /\ T \in Sctp!Entry \cup {NoEntry}
        /\ T # NoEntry => T.pi.state \notin {"SHUTC", "ERR"} /\ (T.fast => T.pi.state = "EST")
    BY <1>3, <2>2, <2>3
  <2>5. /\ ct' \in {ct, T} /\ sent' = sent /\ losses' = losses + 1 /\ losses < MaxLosses
        /\ dropped' = dropped /\ st' = st /\ way' = [way EXCEPT ![k] = Tail(@)]
    BY <1>7, <2>3 DEF Sctp!Lose
  <2>6. losses' \in 0 .. MaxLosses  BY <2>5, SessionsAssumption DEF Sctp!TypeOK
  <2>7. way' \in [Sctp!Ends -> Seq(Sctp!Packet)]  BY <1>2, <2>2, <2>5
  <2>. QED  BY <2>4, <2>5, <2>6, <2>7 DEF Sctp!TypeOK
<1>. QED  BY <1>1, <1>4, <1>5, <1>6, <1>7
-----------------------------------------------------------------------------
(* SCTP: the handshake.  The losses the properties are about: a COOKIE ECHO *)
(* or COOKIE ACK that is repeated after the tracker has seen it is taken    *)
(* for an error.                                                            *)
HandshakeLosses == ~Dsr /\ Lossy \subseteq {"INIT", "INIT_ACK"}

Init1 == Sctp!Chunk("fwd", "INIT")
Init2 == Sctp!Chunk("rev", "INIT_ACK")
Cookie1 == Sctp!Chunk("fwd", "COOKIE_ECHO")
Cookie2 == Sctp!Chunk("rev", "COOKIE_ACK")

SctpEntry(e, s) ==
    /\ e \in Sctp!Entry /\ e.owner = "fwd" /\ ~e.fast /\ e.pi.state = s /\ e.pi.itag = 1
    /\ s = "INITA" => e.pi.otag = 2

(* Until the tracker marks the association established, it knows exactly   *)
(* how far the handshake has come.                                         *)
Inviting ==
    /\ st["rev"] = "listen"
    /\ \/ /\ way["fwd"] = <<>> /\ way["rev"] = <<>> /\ st["fwd"] \in {"closed", "initSent"}
          /\ ct = NoEntry \/ SctpEntry(ct, "INIT") \/ SctpEntry(ct, "INITA")
       \/ /\ way["fwd"] = <<Init1>> /\ way["rev"] = <<>> /\ st["fwd"] = "initSent"
          /\ ct = NoEntry \/ SctpEntry(ct, "INIT") \/ SctpEntry(ct, "INITA")
       \/ /\ way["fwd"] = <<>> /\ way["rev"] = <<Init2>> /\ st["fwd"] = "initSent"
          /\ SctpEntry(ct, "INIT")
Echoing ==
    /\ st["fwd"] = "echoed" /\ st["rev"] = "listen"
    /\ way["fwd"] = <<Cookie1>> /\ way["rev"] = <<>> /\ SctpEntry(ct, "INITA")
Answering ==
    /\ st["fwd"] = "echoed" /\ st["rev"] = "est"
    /\ way["fwd"] = <<>> /\ way["rev"] # <<>> /\ Head(way["rev"]) = Cookie2 /\ SctpEntry(ct, "COOKIE")
SctpPhase == Inviting \/ Echoing \/ Answering \/ (ct # NoEntry /\ ct.fast)
SctpInv == ~dropped /\ SctpPhase

LEMMA HandshakePackets ==
    /\ Init1 \in Sctp!Packet /\ Init2 \in Sctp!Packet /\ Cookie1 \in Sctp!Packet /\ Cookie2 \in Sctp!Packet
    /\ Init1.chunk = "INIT" /\ Init1.whole /\ Init1.tag = 1
    /\ Init2.chunk = "INIT_ACK" /\ Init2.whole /\ Init2.tag = 2 /\ Init2.vtag = 1
    /\ Cookie1.chunk = "COOKIE_ECHO" /\ Cookie1.whole /\ Cookie1.vtag = 2
    /\ Cookie2.chunk = "COOKIE_ACK" /\ Cookie2.vtag = 1
<1>1. /\ Init1 \in Sctp!Packet /\ Init2 \in Sctp!Packet /\ Cookie1 \in Sctp!Packet /\ Cookie2 \in Sctp!Packet
  BY ChunkFacts, EndFacts DEF Sctp!Chunks, Init1, Init2, Cookie1, Cookie2
<1>2. Init1.chunk = "INIT" /\ Init1.whole /\ Init1.tag = 1
  BY EndFacts DEF Sctp!Chunk, Sctp!Tag, Init1
<1>3. Init2.chunk = "INIT_ACK" /\ Init2.whole /\ Init2.tag = 2 /\ Init2.vtag = 1
  BY EndFacts DEF Sctp!Chunk, Sctp!Tag, Init2
<1>4. Cookie1.chunk = "COOKIE_ECHO" /\ Cookie1.whole /\ Cookie1.vtag = 2
  BY EndFacts DEF Sctp!Chunk, Sctp!Tag, Cookie1
<1>5. Cookie2.chunk = "COOKIE_ACK" /\ Cookie2.vtag = 1
  BY EndFacts DEF Sctp!Chunk, Sctp!Tag, Cookie2
<1>. QED  BY <1>1, <1>2, <1>3, <1>4, <1>5

LEMMA KnownFacts ==
    ASSUME Sctp!TypeOK, NEW e, e = ct
    PROVE  /\ e = NoEntry => /\ ~Sctp!Known("fwd").fast /\ Sctp!Known("fwd").pi = Sctp!Sctp0
                             /\ Sctp!Known("fwd").owner = "fwd" /\ Sctp!Dir("fwd") = "IN"
           /\ e # NoEntry => Sctp!Known("fwd") = e /\ Sctp!Known("rev") = e
           /\ e # NoEntry /\ e.owner = "fwd" => Sctp!Dir("fwd") = "IN" /\ Sctp!Dir("rev") = "OUT"
BY DEF Sctp!Known, Sctp!Dir, Sctp!Fresh

LEMMA EntryIsNot == \A e, s : SctpEntry(e, s) => e # NoEntry
BY SessionsAssumption DEF SctpEntry

LEMMA TrackInit1 ==
    ASSUME Sctp!TypeOK, ~Dsr, ct = NoEntry \/ SctpEntry(ct, "INIT") \/ SctpEntry(ct, "INITA")
    PROVE  SctpEntry(Sctp!Tracked("fwd", Init1), "INIT") /\ ~Sctp!Drops("fwd", Init1)
<1>. DEFINE e == Sctp!Known("fwd")
            n == SctpMoved("fwd", Init1)
<1>1. /\ ~e.fast /\ e.owner = "fwd" /\ Sctp!Dir("fwd") = "IN" /\ e.pi \in Sctp!Info
      /\ e.pi.state \in {"CLOSED", "INIT", "INITA"}
  <2>1. CASE ct = NoEntry  BY <2>1, KnownFacts DEF Sctp!Sctp0, Sctp!Info, Sctp!SctpStates
  <2>2. CASE SctpEntry(ct, "INIT") \/ SctpEntry(ct, "INITA")
    BY <2>2, KnownFacts, EntryIsNot DEF SctpEntry, Sctp!Entry
  <2>. QED  BY <2>1, <2>2
<1>2. n = Sctp!SctpInit(e.pi, Init1) \/ n = [e.pi EXCEPT !.state = "INIT", !.itag = Init1.tag]
  <2>1. CASE e.pi.state = "CLOSED"
    <3>1. n = Sctp!SctpClosed(e.pi, Init1, "IN", e.pi.state)
      BY <1>1, <2>1, HandshakePackets, Zenon DEF SctpMoved, Sctp!SctpMove
    <3>2. Sctp!SctpClosed(e.pi, Init1, "IN", e.pi.state) = [e.pi EXCEPT !.state = "INIT", !.itag = Init1.tag]
      BY HandshakePackets, Zenon DEF Sctp!SctpClosed
    <3>. QED  BY <3>1, <3>2, Zenon
  <2>2. CASE e.pi.state = "INIT"
    <3>1. n = Sctp!SctpInited(e.pi, Init1, e.pi.state)
      BY <1>1, <2>2, HandshakePackets, Zenon DEF SctpMoved, Sctp!SctpMove
    <3>2. Sctp!SctpInited(e.pi, Init1, e.pi.state) = Sctp!SctpInit(e.pi, Init1)
      BY HandshakePackets, Zenon DEF Sctp!SctpInited
    <3>. QED  BY <3>1, <3>2, Zenon
  <2>3. CASE e.pi.state = "INITA"
    <3>1. n = Sctp!SctpInitAcked(e.pi, Init1, "IN", e.pi.state)
      BY <1>1, <2>3, HandshakePackets, Zenon DEF SctpMoved, Sctp!SctpMove
    <3>2. Sctp!SctpInitAcked(e.pi, Init1, "IN", e.pi.state) = Sctp!SctpInit(e.pi, Init1)
      BY HandshakePackets, Zenon DEF Sctp!SctpInitAcked
    <3>. QED  BY <3>1, <3>2, Zenon
  <2>. QED  BY <1>1, <2>1, <2>2, <2>3
<1>. HIDE DEF n, e
<1>3. n.state = "INIT" /\ n.itag = 1
  <2>1. CASE n = Sctp!SctpInit(e.pi, Init1)  BY <2>1, HandshakePackets DEF Sctp!SctpInit
  <2>2. CASE n = [e.pi EXCEPT !.state = "INIT", !.itag = Init1.tag]
    <3>1. n = [e.pi EXCEPT !.state = "INIT", !.itag = 1]  BY <2>2, HandshakePackets
    <3>. QED  BY <1>1, <3>1 DEF Sctp!Info
  <2>. QED  BY <1>2, <2>1, <2>2
<1>4. PICK T : T = Sctp!Tracked("fwd", Init1)  OBVIOUS
<1>5. T \in Sctp!Entry /\ T.owner = e.owner /\ T.pi = n /\ (T.fast <=> n.state = "EST")
  <2>1. ~e.fast /\ n.state \notin {"ERR", "SHUTC"}  BY <1>1, <1>3
  <2>. QED  BY <1>4, <2>1, SctpTracked, HandshakePackets, EndFacts DEF n, e
<1>6. ~Sctp!Drops("fwd", Init1)  BY HandshakePackets DEF Sctp!Drops, Sctp!SctpDrops
<1>. QED  BY <1>1, <1>3, <1>4, <1>5, <1>6 DEF SctpEntry

LEMMA TrackInit2 ==
    ASSUME Sctp!TypeOK, SctpEntry(ct, "INIT")
    PROVE  SctpEntry(Sctp!Tracked("rev", Init2), "INITA") /\ ~Sctp!Drops("rev", Init2)
<1>. DEFINE e == Sctp!Known("rev")
            n == SctpMoved("rev", Init2)
<1>1. /\ ~e.fast /\ e.owner = "fwd" /\ e.pi \in Sctp!Info /\ e.pi.state = "INIT" /\ e.pi.itag = 1
  BY KnownFacts, EntryIsNot DEF SctpEntry, Sctp!Entry
<1>2. n = [e.pi EXCEPT !.state = "INITA", !.otag = Init2.tag]
  <2>1. n = Sctp!SctpInited(e.pi, Init2, e.pi.state)
    BY <1>1, HandshakePackets, Zenon DEF SctpMoved, Sctp!SctpMove
  <2>2. Init2.vtag = e.pi.itag  BY <1>1, HandshakePackets
  <2>3. Sctp!SctpInited(e.pi, Init2, e.pi.state) = [e.pi EXCEPT !.state = "INITA", !.otag = Init2.tag]
    BY <2>2, HandshakePackets, Zenon DEF Sctp!SctpInited
  <2>. QED  BY <2>1, <2>3, Zenon
<1>. HIDE DEF n, e
<1>3. n.state = "INITA" /\ n.itag = 1 /\ n.otag = 2  BY <1>1, <1>2, HandshakePackets DEF Sctp!Info
<1>4. PICK T : T = Sctp!Tracked("rev", Init2)  OBVIOUS
<1>5. T \in Sctp!Entry /\ T.owner = e.owner /\ T.pi = n /\ (T.fast <=> n.state = "EST")
  <2>1. ~e.fast /\ n.state \notin {"ERR", "SHUTC"}  BY <1>1, <1>3
  <2>. QED  BY <1>4, <2>1, SctpTracked, HandshakePackets, EndFacts DEF n, e
<1>6. ~Sctp!Drops("rev", Init2)  BY HandshakePackets DEF Sctp!Drops, Sctp!SctpDrops
<1>. QED  BY <1>1, <1>3, <1>4, <1>5, <1>6 DEF SctpEntry

LEMMA TrackCookie1 ==
    ASSUME Sctp!TypeOK, SctpEntry(ct, "INITA")
    PROVE  SctpEntry(Sctp!Tracked("fwd", Cookie1), "COOKIE") /\ ~Sctp!Drops("fwd", Cookie1)
<1>. DEFINE e == Sctp!Known("fwd")
            n == SctpMoved("fwd", Cookie1)
<1>1. /\ ~e.fast /\ e.owner = "fwd" /\ e.pi \in Sctp!Info /\ e.pi.state = "INITA" /\ e.pi.itag = 1
      /\ e.pi.otag = 2 /\ Sctp!Dir("fwd") = "IN"
  BY KnownFacts, EntryIsNot DEF SctpEntry, Sctp!Entry
<1>2. n = Sctp!In(e.pi, "COOKIE")
  <2>1. n = Sctp!SctpInitAcked(e.pi, Cookie1, "IN", e.pi.state)
    BY <1>1, HandshakePackets, Zenon DEF SctpMoved, Sctp!SctpMove
  <2>2. Cookie1.vtag = e.pi.otag  BY <1>1, HandshakePackets
  <2>3. Sctp!SctpInitAcked(e.pi, Cookie1, "IN", e.pi.state) = Sctp!In(e.pi, "COOKIE")
    BY <2>2, HandshakePackets, Zenon DEF Sctp!SctpInitAcked
  <2>. QED  BY <2>1, <2>3, Zenon
<1>. HIDE DEF n, e
<1>3. n.state = "COOKIE" /\ n.itag = 1  BY <1>1, <1>2 DEF Sctp!Info, Sctp!In
<1>4. PICK T : T = Sctp!Tracked("fwd", Cookie1)  OBVIOUS
<1>5. T \in Sctp!Entry /\ T.owner = e.owner /\ T.pi = n /\ (T.fast <=> n.state = "EST")
  <2>1. ~e.fast /\ n.state \notin {"ERR", "SHUTC"}  BY <1>1, <1>3
  <2>. QED  BY <1>4, <2>1, SctpTracked, HandshakePackets, EndFacts DEF n, e
<1>6. ~Sctp!Drops("fwd", Cookie1)  BY HandshakePackets DEF Sctp!Drops, Sctp!SctpDrops
<1>. QED  BY <1>1, <1>3, <1>4, <1>5, <1>6 DEF SctpEntry

LEMMA TrackCookie2 ==
    ASSUME Sctp!TypeOK, SctpEntry(ct, "COOKIE")
    PROVE  /\ Sctp!Tracked("rev", Cookie2) \in Sctp!Entry /\ Sctp!Tracked("rev", Cookie2).fast
           /\ ~Sctp!Drops("rev", Cookie2)
<1>. DEFINE e == Sctp!Known("rev")
            n == SctpMoved("rev", Cookie2)
<1>1. /\ ~e.fast /\ e.owner = "fwd" /\ e.pi \in Sctp!Info /\ e.pi.state = "COOKIE" /\ e.pi.itag = 1
      /\ Sctp!Dir("rev") = "OUT"
  BY KnownFacts, EntryIsNot DEF SctpEntry, Sctp!Entry
<1>2. n = Sctp!In(e.pi, "EST")
  <2>2. Cookie2.vtag = e.pi.itag  BY <1>1, HandshakePackets
  <2>3. n = Sctp!In(e.pi, IF (Cookie2.chunk # "COOKIE_ACK" /\ "OUT" # "OUT") \/ e.pi.itag # Cookie2.vtag
                          THEN "ERR" ELSE "EST")
    BY <1>1, HandshakePackets, Zenon DEF SctpMoved, Sctp!SctpMove
  <2>. QED  BY <2>2, <2>3, HandshakePackets, Zenon
<1>. HIDE DEF n, e
<1>3. n.state = "EST" /\ n.itag = 1  BY <1>1, <1>2 DEF Sctp!Info, Sctp!In
<1>4. PICK T : T = Sctp!Tracked("rev", Cookie2)  OBVIOUS
<1>5. T \in Sctp!Entry /\ T.owner = e.owner /\ T.pi = n /\ (T.fast <=> n.state = "EST")
  <2>1. ~e.fast /\ n.state \notin {"ERR", "SHUTC"}  BY <1>1, <1>3
  <2>. QED  BY <1>4, <2>1, SctpTracked, HandshakePackets, EndFacts DEF n, e
<1>6. ~Sctp!Drops("rev", Cookie2)  BY <1>1 DEF Sctp!Drops, Sctp!SctpDrops, e
<1>. QED  BY <1>1, <1>3, <1>4, <1>5, <1>6

LEMMA SctpPhaseInit == ASSUME Sctp!Init PROVE SctpInv
<1>1. way["fwd"] = <<>> /\ way["rev"] = <<>> /\ st["fwd"] = "closed" /\ st["rev"] = "listen"
  BY EndFacts DEF Sctp!Init
<1>. QED  BY <1>1 DEF Sctp!Init, SctpInv, SctpPhase, Inviting

LEMMA ReactionToHandshake ==
    /\ Sctp!Reaction("listen", "INIT") = [st |-> "listen", out |-> <<"INIT_ACK">>]
    /\ Sctp!Reaction("initSent", "INIT_ACK") = [st |-> "echoed", out |-> <<"COOKIE_ECHO">>]
    /\ Sctp!Reaction("listen", "COOKIE_ECHO") = [st |-> "est", out |-> <<"COOKIE_ACK">>]
BY Zenon DEF Sctp!Reaction

LEMMA OneElement ==
    /\ \A x : Head(<<x>>) = x /\ Tail(<<x>>) = <<>> /\ <<x>> # <<>>
    /\ \A x : Append(<<>>, x) = <<x>>
OBVIOUS

(* The first packet under way, forwarded or lost, in each of the phases. *)
LEMMA SctpPhaseForward ==
    ASSUME Sctp!TypeOK, SctpInv, HandshakeLosses, NEW k \in Sctp!Ends, Sctp!Forward(k),
           ct = NoEntry \/ ~ct.fast
    PROVE  SctpInv'
<1>. DEFINE p == Sctp!Peer(k)
            m == Head(way[k])
<1>1. /\ way[k] # <<>> /\ way'[k] = Tail(way[k]) /\ st'[k] = st[k]
      /\ ~Sctp!Drops(k, m) =>
            /\ st'[p] = Sctp!Reaction(st[p], m.chunk).st
            /\ \A x \in Sctp!Chunks : Sctp!Reaction(st[p], m.chunk).out = <<x>> =>
                  way'[p] = Append(way[p], Sctp!Chunk(p, x))
  BY SctpForwarded
<1>2. ct' = Sctp!Tracked(k, m) /\ (~Sctp!Drops(k, m) => ~dropped')  BY DEF Sctp!Forward, SctpInv
<1>. HIDE DEF p, m
<1>3. CASE /\ way["fwd"] = <<Init1>> /\ way["rev"] = <<>> /\ st["rev"] = "listen" /\ st["fwd"] = "initSent"
           /\ ct = NoEntry \/ SctpEntry(ct, "INIT") \/ SctpEntry(ct, "INITA")
  <2>1. k = "fwd" /\ p = "rev" /\ m = Init1  BY <1>1, <1>3, EndFacts, OneElement DEF p, m
  <2>2. SctpEntry(Sctp!Tracked("fwd", Init1), "INIT") /\ ~Sctp!Drops("fwd", Init1)
    BY <1>3, TrackInit1 DEF HandshakeLosses
  <2>3. Sctp!Reaction(st[p], m.chunk) = [st |-> "listen", out |-> <<"INIT_ACK">>]
    BY <1>3, <2>1, HandshakePackets, ReactionToHandshake
  <2>4. st'["rev"] = "listen" /\ way'["rev"] = Append(<<>>, Init2)
    BY <1>1, <1>3, <2>1, <2>2, <2>3 DEF Sctp!Chunks, Init2
  <2>5. SctpEntry(ct', "INIT") /\ ~dropped'  BY <1>2, <2>1, <2>2
  <2>6. way'["fwd"] = <<>> /\ way'["rev"] = <<Init2>> /\ st'["fwd"] = "initSent" /\ st'["rev"] = "listen"
    BY <1>1, <1>3, <2>1, <2>4, OneElement
  <2>7. Inviting'  BY <2>5, <2>6 DEF Inviting, SctpEntry, Init1, Init2
  <2>. QED  BY <2>5, <2>7 DEF SctpInv, SctpPhase
<1>4. CASE /\ way["fwd"] = <<>> /\ way["rev"] = <<Init2>> /\ st["fwd"] = "initSent" /\ st["rev"] = "listen"
           /\ SctpEntry(ct, "INIT")
  <2>1. k = "rev" /\ p = "fwd" /\ m = Init2  BY <1>1, <1>4, EndFacts, OneElement DEF p, m
  <2>2. SctpEntry(Sctp!Tracked("rev", Init2), "INITA") /\ ~Sctp!Drops("rev", Init2)
    BY <1>4, TrackInit2
  <2>3. Sctp!Reaction(st[p], m.chunk) = [st |-> "echoed", out |-> <<"COOKIE_ECHO">>]
    BY <1>4, <2>1, HandshakePackets, ReactionToHandshake
  <2>4. st'["fwd"] = "echoed" /\ way'["fwd"] = Append(<<>>, Cookie1)
    BY <1>1, <1>4, <2>1, <2>2, <2>3 DEF Sctp!Chunks, Cookie1
  <2>5. SctpEntry(ct', "INITA") /\ ~dropped'  BY <1>2, <2>1, <2>2
  <2>6. way'["rev"] = <<>> /\ way'["fwd"] = <<Cookie1>> /\ st'["fwd"] = "echoed" /\ st'["rev"] = "listen"
    BY <1>1, <1>4, <2>1, <2>4, OneElement
  <2>7. Echoing'  BY <2>5, <2>6 DEF Echoing, SctpEntry, Cookie1
  <2>. QED  BY <2>5, <2>7 DEF SctpInv, SctpPhase
<1>5. CASE Echoing
  <2>0. /\ way["fwd"] = <<Cookie1>> /\ way["rev"] = <<>> /\ st["fwd"] = "echoed" /\ st["rev"] = "listen"
        /\ SctpEntry(ct, "INITA")
    BY <1>5 DEF Echoing
  <2>1. k = "fwd" /\ p = "rev" /\ m = Cookie1  BY <1>1, <2>0, EndFacts, OneElement DEF p, m
  <2>2. SctpEntry(Sctp!Tracked("fwd", Cookie1), "COOKIE") /\ ~Sctp!Drops("fwd", Cookie1)
    BY <2>0, TrackCookie1
  <2>3. Sctp!Reaction(st[p], m.chunk) = [st |-> "est", out |-> <<"COOKIE_ACK">>]
    BY <2>0, <2>1, HandshakePackets, ReactionToHandshake
  <2>4. st'["rev"] = "est" /\ way'["rev"] = Append(<<>>, Cookie2)
    BY <1>1, <2>0, <2>1, <2>2, <2>3 DEF Sctp!Chunks, Cookie2
  <2>5. SctpEntry(ct', "COOKIE") /\ ~dropped'  BY <1>2, <2>1, <2>2
  <2>6. way'["fwd"] = <<>> /\ way'["rev"] = <<Cookie2>> /\ st'["fwd"] = "echoed" /\ st'["rev"] = "est"
    BY <1>1, <2>0, <2>1, <2>4, OneElement
  <2>7. way'["rev"] # <<>> /\ Head(way'["rev"]) = Cookie2  BY <2>6, OneElement
  <2>8. Answering'  BY <2>5, <2>6, <2>7 DEF Answering, SctpEntry, Cookie2
  <2>. QED  BY <2>5, <2>8 DEF SctpInv, SctpPhase
<1>6. CASE Answering
  <2>0. way["fwd"] = <<>> /\ Head(way["rev"]) = Cookie2 /\ SctpEntry(ct, "COOKIE")  BY <1>6 DEF Answering
  <2>1. k = "rev" /\ m = Cookie2  BY <1>1, <2>0, EndFacts DEF m
  <2>2. /\ Sctp!Tracked("rev", Cookie2) \in Sctp!Entry /\ Sctp!Tracked("rev", Cookie2).fast
        /\ ~Sctp!Drops("rev", Cookie2)
    BY <2>0, TrackCookie2
  <2>3. ct' # NoEntry /\ ct'.fast /\ ~dropped'  BY <1>2, <2>1, <2>2, SessionsAssumption
  <2>. QED  BY <2>3 DEF SctpInv, SctpPhase
<1>. QED  BY <1>1, <1>3, <1>4, <1>5, <1>6, EndFacts DEF SctpInv, SctpPhase, Inviting

LEMMA SctpPhaseLose ==
    ASSUME Sctp!TypeOK, SctpInv, HandshakeLosses, NEW k \in Sctp!Ends, Sctp!Lose(k),
           ct = NoEntry \/ ~ct.fast
    PROVE  SctpInv'
<1>. DEFINE m == Head(way[k])
<1>1. /\ way[k] # <<>> /\ m.chunk \in {"INIT", "INIT_ACK"}
      /\ ct' = ct \/ ct' = Sctp!Tracked(k, m)
      /\ way' = [way EXCEPT ![k] = Tail(@)] /\ st' = st /\ ~dropped'
  BY DEF Sctp!Lose, HandshakeLosses, SctpInv
<1>2. way'[k] = Tail(way[k]) /\ \A x \in Sctp!Ends \ {k} : way'[x] = way[x]  BY <1>1 DEF Sctp!TypeOK
<1>. HIDE DEF m
<1>3. CASE /\ way["fwd"] = <<Init1>> /\ way["rev"] = <<>> /\ st["rev"] = "listen" /\ st["fwd"] = "initSent"
           /\ ct = NoEntry \/ SctpEntry(ct, "INIT") \/ SctpEntry(ct, "INITA")
  <2>1. k = "fwd" /\ m = Init1  BY <1>1, <1>3, EndFacts, OneElement DEF m
  <2>2. SctpEntry(Sctp!Tracked("fwd", Init1), "INIT")  BY <1>3, TrackInit1 DEF HandshakeLosses
  <2>3. ct' = NoEntry \/ SctpEntry(ct', "INIT") \/ SctpEntry(ct', "INITA")  BY <1>1, <1>3, <2>1, <2>2
  <2>4. way'["fwd"] = <<>> /\ way'["rev"] = <<>>  BY <1>2, <1>3, <2>1, EndFacts, OneElement
  <2>5. Inviting'  BY <1>1, <1>3, <2>3, <2>4 DEF Inviting, SctpEntry
  <2>. QED  BY <1>1, <2>5 DEF SctpInv, SctpPhase
<1>4. CASE /\ way["fwd"] = <<>> /\ way["rev"] = <<Init2>> /\ st["fwd"] = "initSent" /\ st["rev"] = "listen"
           /\ SctpEntry(ct, "INIT")
  <2>1. k = "rev" /\ m = Init2  BY <1>1, <1>4, EndFacts, OneElement DEF m
  <2>2. SctpEntry(Sctp!Tracked("rev", Init2), "INITA")  BY <1>4, TrackInit2
  <2>3. SctpEntry(ct', "INIT") \/ SctpEntry(ct', "INITA")  BY <1>1, <1>4, <2>1, <2>2
  <2>4. way'["fwd"] = <<>> /\ way'["rev"] = <<>>  BY <1>2, <1>4, <2>1, EndFacts, OneElement
  <2>5. Inviting'  BY <1>1, <1>4, <2>3, <2>4 DEF Inviting, SctpEntry
  <2>. QED  BY <1>1, <2>5 DEF SctpInv, SctpPhase
<1>5. ~Echoing
  <2>. SUFFICES ASSUME Echoing PROVE FALSE  OBVIOUS
  <2>1. k = "fwd" /\ m = Cookie1  BY <1>1, EndFacts, OneElement DEF m, Echoing
  <2>. QED  BY <1>1, <2>1, HandshakePackets
<1>6. ~Answering
  <2>. SUFFICES ASSUME Answering PROVE FALSE  OBVIOUS
  <2>1. k = "rev" /\ m = Cookie2  BY <1>1, EndFacts DEF m, Answering
  <2>. QED  BY <1>1, <2>1, HandshakePackets
<1>. QED  BY <1>1, <1>3, <1>4, <1>5, <1>6, EndFacts DEF SctpInv, SctpPhase, Inviting

LEMMA SctpPhaseNext == ASSUME Sctp!TypeOK, SctpInv, HandshakeLosses, Sctp!Next PROVE SctpInv'
<1>1. PICK k \in Sctp!Ends : Sctp!Begin(k) \/ Sctp!SendData(k) \/ Sctp!Forward(k) \/ Sctp!Lose(k)
  BY DEF Sctp!Next
<1>2. CASE ct # NoEntry /\ ct.fast
  <2>1. way \in [Sctp!Ends -> Seq(Sctp!Packet)]  BY DEF Sctp!TypeOK
  <2>2. Sctp!Forward(k) \/ Sctp!Lose(k) => Sctp!Tracked(k, Head(way[k])) = ct /\ ~Sctp!Drops(k, Head(way[k]))
    <3>. SUFFICES ASSUME Sctp!Forward(k) \/ Sctp!Lose(k)
                  PROVE  Sctp!Tracked(k, Head(way[k])) = ct /\ ~Sctp!Drops(k, Head(way[k]))
      OBVIOUS
    <3>1. way[k] # <<>> /\ way[k] \in Seq(Sctp!Packet)  BY <2>1 DEF Sctp!Forward, Sctp!Lose
    <3>2. Head(way[k]) \in Sctp!Packet  BY <3>1
    <3>3. Sctp!Known(k) = ct  BY <1>2 DEF Sctp!Known
    <3>4. Sctp!Known(k).fast  BY <1>2, <3>3
    <3>5. Sctp!Tracked(k, Head(way[k])) = Sctp!Known(k)  BY <3>2, <3>4, SctpTracked
    <3>. QED  BY <3>3, <3>4, <3>5 DEF Sctp!Drops
  <2>3. ct' = ct /\ ~dropped'
    <3>1. CASE Sctp!Begin(k) \/ Sctp!SendData(k)  BY <3>1 DEF Sctp!Begin, Sctp!SendData, SctpInv
    <3>2. CASE Sctp!Forward(k)  BY <2>2, <3>2 DEF Sctp!Forward, SctpInv
    <3>3. CASE Sctp!Lose(k)  BY <2>2, <3>3 DEF Sctp!Lose, SctpInv
    <3>. QED  BY <1>1, <3>1, <3>2, <3>3
  <2>. QED  BY <1>2, <2>3 DEF SctpInv, SctpPhase
<1>3. CASE ct = NoEntry \/ ~ct.fast
  <2>1. CASE Sctp!Begin(k)
    <3>1. /\ Sctp!Still /\ ct' = ct /\ dropped' = dropped
          /\ st[k] \in {"closed", "initSent", "echoed", "est"}
          /\ \A x \in Sctp!Ends \ {k} : way'[x] = way[x] /\ st'[x] = st[x]
          /\ st[k] \in {"closed", "initSent"} => way'[k] = <<Sctp!Chunk(k, "INIT")>> /\ st'[k] = "initSent"
      BY <2>1, SctpBegun
    <3>2. way["fwd"] = <<>> /\ way["rev"] = <<>>  BY <3>1, EndFacts DEF Sctp!Still
    <3>3. /\ st["rev"] = "listen" /\ st["fwd"] \in {"closed", "initSent"}
          /\ ct = NoEntry \/ SctpEntry(ct, "INIT") \/ SctpEntry(ct, "INITA")
      BY <1>3, <3>2, OneElement DEF SctpInv, SctpPhase, Inviting, Echoing, Answering
    <3>4. k = "fwd"  BY <3>1, <3>3, EndFacts
    <3>5. /\ way'["fwd"] = <<Init1>> /\ way'["rev"] = <<>> /\ st'["fwd"] = "initSent" /\ st'["rev"] = "listen"
      BY <3>1, <3>2, <3>3, <3>4, EndFacts DEF Init1
    <3>6. Inviting'  BY <3>1, <3>3, <3>5 DEF Inviting, SctpEntry, Init1
    <3>. QED  BY <3>1, <3>6 DEF SctpInv, SctpPhase
  <2>2. CASE Sctp!SendData(k)
    <3>1. /\ st[k] = "est" /\ way' = [way EXCEPT ![k] = Append(@, Sctp!Chunk(k, "DATA"))]
          /\ ct' = ct /\ st' = st /\ dropped' = dropped
      BY <2>2 DEF Sctp!SendData
    <3>2. Answering /\ k = "rev"
      BY <1>3, <3>1, EndFacts DEF SctpInv, SctpPhase, Inviting, Echoing, Answering
    <3>3. PICK y, q : y = Sctp!Chunk(k, "DATA") /\ q = way["rev"]  OBVIOUS
    <3>4. y \in Sctp!Packet /\ q \in Seq(Sctp!Packet) /\ q # <<>> /\ Head(q) = Cookie2
      BY <3>2, <3>3, ChunkFacts, EndFacts DEF Sctp!Chunks, Sctp!TypeOK, Answering
    <3>5. Append(q, y) # <<>> /\ Head(Append(q, y)) = Head(q)  BY <3>4
    <3>6. way'["rev"] = Append(q, y) /\ way'["fwd"] = way["fwd"]
      BY <3>1, <3>2, <3>3, EndFacts DEF Sctp!TypeOK
    <3>7. Answering'  BY <3>1, <3>2, <3>4, <3>5, <3>6 DEF Answering, SctpEntry, Cookie2
    <3>. QED  BY <3>1, <3>7 DEF SctpInv, SctpPhase
  <2>. QED  BY <1>1, <1>3, <2>1, <2>2, SctpPhaseForward, SctpPhaseLose
<1>. QED  BY <1>2, <1>3

(* A packet that is taken for an error leaves no entry. *)
LEMMA ErrorFrees ==
    ASSUME NEW k \in Sctp!Ends, NEW m, Sctp!Errs(k, m)
    PROVE  Sctp!Tracked(k, m) = NoEntry
<1>. DEFINE old == Sctp!Known(k)
            r == Sctp!dp_ct_sctp_sm(old.pi, old.xpi, m, Sctp!Dir(k), old.pi.state)
            T == Sctp!Tracked(k, m)
<1>1. ~old.fast /\ r.smr = "ERR"  BY DEF Sctp!Errs
<1>2. T = CASE old.fast -> old
            [] ~old.fast /\ r.smr \in {"ERR", "CTD"} -> NoEntry
            [] OTHER -> [old EXCEPT !.pi = r.pi, !.xpi = r.xpi, !.fast = r.smr = "EST"]
  BY DEF Sctp!Tracked
<1>. HIDE DEF T, r, old
<1>3. r.smr \in {"ERR", "CTD"}  BY <1>1
<1>4. T = NoEntry  BY <1>1, <1>2, <1>3, Zenon
<1>. QED  BY <1>4 DEF T

(* In every phase, what the tracker makes of the first packet under way. *)
LEMMA NextIsFine ==
    ASSUME Sctp!TypeOK, SctpInv, HandshakeLosses, NEW k \in Sctp!Ends, way[k] # <<>>
    PROVE  ~Sctp!Drops(k, Head(way[k])) /\ ~Sctp!Errs(k, Head(way[k]))
<1>1. CASE ct # NoEntry /\ ct.fast
  <2>1. Sctp!Known(k).fast  BY <1>1 DEF Sctp!Known
  <2>. QED  BY <2>1 DEF Sctp!Drops, Sctp!Errs
<1>2. \A e \in Sctp!Entry : e # NoEntry  BY SessionsAssumption
<1>3. CASE Inviting
  <2>1. CASE k = "fwd"
    <3>1. Head(way[k]) = Init1 /\ (ct = NoEntry \/ SctpEntry(ct, "INIT") \/ SctpEntry(ct, "INITA"))
      BY <1>3, <2>1, OneElement DEF Inviting
    <3>2. SctpEntry(Sctp!Tracked("fwd", Init1), "INIT") /\ ~Sctp!Drops("fwd", Init1)
      BY <3>1, TrackInit1 DEF HandshakeLosses
    <3>. QED  BY <2>1, <3>1, <3>2, EntryIsNot, ErrorFrees
  <2>2. CASE k = "rev"
    <3>1. Head(way[k]) = Init2 /\ SctpEntry(ct, "INIT")  BY <1>3, <2>2, OneElement DEF Inviting
    <3>2. SctpEntry(Sctp!Tracked("rev", Init2), "INITA") /\ ~Sctp!Drops("rev", Init2)  BY <3>1, TrackInit2
    <3>. QED  BY <2>2, <3>1, <3>2, EntryIsNot, ErrorFrees
  <2>. QED  BY <2>1, <2>2, EndFacts
<1>4. CASE Echoing
  <2>1. k = "fwd" /\ Head(way[k]) = Cookie1 /\ SctpEntry(ct, "INITA")
    BY <1>4, EndFacts, OneElement DEF Echoing
  <2>2. SctpEntry(Sctp!Tracked("fwd", Cookie1), "COOKIE") /\ ~Sctp!Drops("fwd", Cookie1)
    BY <2>1, TrackCookie1
  <2>. QED  BY <2>1, <2>2, EntryIsNot, ErrorFrees
<1>5. CASE Answering
  <2>1. k = "rev" /\ Head(way[k]) = Cookie2 /\ SctpEntry(ct, "COOKIE")  BY <1>5, EndFacts DEF Answering
  <2>2. Sctp!Tracked("rev", Cookie2) \in Sctp!Entry /\ ~Sctp!Drops("rev", Cookie2)
    BY <2>1, TrackCookie2
  <2>. QED  BY <1>2, <2>1, <2>2, ErrorFrees
<1>. QED  BY <1>1, <1>3, <1>4, <1>5 DEF SctpInv, SctpPhase

LEMMA SctpPromises ==
    ASSUME Sctp!TypeOK, SctpInv, HandshakeLosses PROVE Sctp!OpenIsTracked /\ Sctp!NothingDropped
<1>1. Sctp!OpenIsTracked
  BY EndFacts DEF SctpInv, SctpPhase, Inviting, Echoing, Answering, Sctp!OpenIsTracked
<1>2. Sctp!NothingDropped  BY NextIsFine DEF SctpInv, Sctp!NothingDropped
<1>. QED  BY <1>1, <1>2
-----------------------------------------------------------------------------
(* Sequence numbers.                                                       *)
LEMMA Division ==
    ASSUME NEW S \in Nat, S > 0, NEW x \in Nat, NEW q \in Int, q = x \div S, NEW r \in Int, r = x % S
    PROVE  S * q + r = x
BY Z3T(60)

LEMMA Remainder ==
    ASSUME NEW S \in Nat, S > 0, NEW q \in Int, NEW r \in 0 .. S - 1
    PROVE  (S * q + r) % S = r
OBVIOUS

LEMMA ModPlusOne ==
    ASSUME NEW S \in Nat, S > 0, NEW x \in Nat
    PROVE  ((x % S) + 1) % S = (x + 1) % S
<1>1. PICK q \in Int, r \in 0 .. S - 1 : x = S * q + r /\ x % S = r
  <2>1. x % S \in 0 .. S - 1  OBVIOUS
  <2>2. x \div S \in Int  OBVIOUS
  <2>3. x % S \in Int  BY <2>1
  <2>4. S * (x \div S) + (x % S) = x  BY <2>2, <2>3, Division
  <2>. QED  BY <2>1, <2>2, <2>4
<1>2. CASE r + 1 < S
  <2>1. x + 1 = S * q + (r + 1) /\ r + 1 \in 0 .. S - 1  BY <1>1, <1>2
  <2>2. (x + 1) % S = r + 1  BY <2>1, Remainder
  <2>3. (r + 1) % S = r + 1  BY <1>2
  <2>. QED  BY <1>1, <2>2, <2>3
<1>3. CASE r + 1 = S
  <2>1. x + 1 = S * (q + 1) + 0 /\ q + 1 \in Int /\ 0 \in 0 .. S - 1  BY <1>1, <1>3
  <2>2. (x + 1) % S = 0  BY <2>1, Remainder
  <2>3. S % S = 0
    <3>1. S = S * 1 + 0  OBVIOUS
    <3>. QED  BY <3>1, Remainder
  <2>. QED  BY <1>1, <1>3, <2>2, <2>3
<1>. QED  BY <1>1, <1>2, <1>3

LEMMA SeqFacts ==
    /\ SEQ \in Nat /\ SEQ > 0
    /\ \A x \in Nat : x % SEQ \in Nat /\ ((x % SEQ) + 1) % SEQ = (x + 1) % SEQ
    /\ \A x \in Nat : (x % SEQ) % SEQ = x % SEQ
<1>1. SEQ \in Nat /\ SEQ > 0  BY CtNumbersAssumption
<1>2. ASSUME NEW x \in Nat
      PROVE  x % SEQ \in Nat /\ ((x % SEQ) + 1) % SEQ = (x + 1) % SEQ /\ (x % SEQ) % SEQ = x % SEQ
  <2>1. x % SEQ \in 0 .. SEQ - 1  BY <1>1
  <2>2. (x % SEQ) % SEQ = x % SEQ  BY <1>1, <2>1
  <2>3. ((x % SEQ) + 1) % SEQ = (x + 1) % SEQ  BY <1>1, ModPlusOne, Zenon
  <2>4. x % SEQ \in Nat  BY <2>1
  <2>. QED  BY <2>2, <2>3, <2>4
<1>. QED  BY <1>1, <1>2

-----------------------------------------------------------------------------
(* TCP: types.                                                             *)
Flags == {"SYN", "ACK", "FIN"}
IsSegment(m, f, e) ==
    /\ m \in Tcp!Packet /\ m.flags = f /\ m.data = FALSE
    /\ m.seq = e.nxt % SEQ /\ m.ack = e.rcv % SEQ
LEMMA SegmentFacts ==
    ASSUME NEW f \in SUBSET Flags, NEW e \in Tcp!Endpoint, NEW m, m = Tcp!Segment(f, e)
    PROVE  IsSegment(m, f, e)
<1>1. e.nxt \in Nat /\ e.rcv \in Nat  BY DEF Tcp!Endpoint
<1>2. e.nxt % SEQ \in Nat /\ e.rcv % SEQ \in Nat  BY <1>1, SeqFacts
<1>3. PICK a \in Nat, b \in Nat : a = e.nxt % SEQ /\ b = e.rcv % SEQ  BY <1>2
<1>4. m = [hdr |-> "ok", flags |-> f, seq |-> a, ack |-> b, data |-> FALSE]  BY <1>3 DEF Tcp!Segment
<1>. QED  BY <1>3, <1>4 DEF IsSegment, Tcp!Packet, Flags

LEMMA TcpMoveTyped ==
    ASSUME NEW t \in Tcp!Info, NEW p, NEW d
    PROVE  Tcp!TcpMove(t, p, d).state \in Tcp!TcpStates
<1>. DEFINE m == Tcp!TcpMove(t, p, d)
<1>1. \A s \in Tcp!TcpStates : Tcp!Keep(s).state \in Tcp!TcpStates /\ Tcp!Record(s).state \in Tcp!TcpStates
  BY DEF Tcp!Keep, Tcp!Record
<1>2. Tcp!TcpClosed(t, p, d).state \in Tcp!TcpStates
  <2>1. \/ Tcp!TcpClosed(t, p, d) = Tcp!Keep("EST") \/ Tcp!TcpClosed(t, p, d) = Tcp!Record("EST")
        \/ Tcp!TcpClosed(t, p, d) = Tcp!Record("ERR") \/ Tcp!TcpClosed(t, p, d) = Tcp!Record("SS")
        \/ Tcp!TcpClosed(t, p, d) = Tcp!Keep("ERR")
    BY Zenon DEF Tcp!TcpClosed
  <2>. QED  BY <2>1, <1>1 DEF Tcp!TcpStates
<1>3. Tcp!TcpSynSent(t, p, d).state \in Tcp!TcpStates
  BY <1>1 DEF Tcp!TcpSynSent, Tcp!TcpStates
<1>4. Tcp!TcpSynAcked(t, p, d).state \in Tcp!TcpStates
  <2>1. \/ Tcp!TcpSynAcked(t, p, d) = Tcp!Keep("SA") \/ Tcp!TcpSynAcked(t, p, d) = Tcp!Keep("ERR")
        \/ Tcp!TcpSynAcked(t, p, d) = Tcp!Record("SS") \/ Tcp!TcpSynAcked(t, p, d) = Tcp!Record("EST")
    BY Zenon DEF Tcp!TcpSynAcked
  <2>. QED  BY <2>1, <1>1 DEF Tcp!TcpStates
<1>5. Tcp!TcpFini(t, p, d).state \in Tcp!TcpStates
  <2>1. \/ Tcp!TcpFini(t, p, d) = Tcp!Keep("CLOSED") \/ Tcp!TcpFini(t, p, d) = Tcp!Keep("ERR")
        \/ Tcp!TcpFini(t, p, d) = Tcp!Record("FINI3") \/ Tcp!TcpFini(t, p, d) = Tcp!Record("FINI2")
    BY Zenon DEF Tcp!TcpFini
  <2>. QED  BY <2>1, <1>1 DEF Tcp!TcpStates
<1>6. Tcp!TcpFini2(t, p, d).state \in Tcp!TcpStates /\ Tcp!TcpFini3(t, p, d).state \in Tcp!TcpStates
  BY <1>1 DEF Tcp!TcpFini2, Tcp!TcpFini3, Tcp!TcpStates
<1>7. t.state \in Tcp!TcpStates  BY DEF Tcp!Info
<1>8. \/ m = Tcp!Keep("CW") \/ m = Tcp!TcpClosed(t, p, d) \/ m = Tcp!TcpSynSent(t, p, d)
      \/ m = Tcp!TcpSynAcked(t, p, d) \/ m = Tcp!Record("FINI") \/ m = Tcp!Keep("EST")
      \/ m = Tcp!TcpFini(t, p, d) \/ m = Tcp!TcpFini2(t, p, d) \/ m = Tcp!TcpFini3(t, p, d)
      \/ m = Tcp!Keep("CLOSED")
  BY <1>7, Zenon DEF Tcp!TcpMove, Tcp!TcpStates
<1>9. Tcp!Keep("CW").state \in Tcp!TcpStates /\ Tcp!Record("FINI").state \in Tcp!TcpStates
      /\ Tcp!Keep("EST").state \in Tcp!TcpStates /\ Tcp!Keep("CLOSED").state \in Tcp!TcpStates
  BY <1>1 DEF Tcp!TcpStates
<1>. HIDE DEF m
<1>10. m.state \in Tcp!TcpStates  BY <1>8, <1>9, <1>2, <1>3, <1>4, <1>5, <1>6
<1>. QED  BY <1>10 DEF m

Moves(t, p, d, r, m) ==
    /\ r.pi \in Tcp!Info /\ r.xpi \in Tcp!Info
    /\ r.pi.state = m.state /\ r.smr = Tcp!TcpResult(m.state)
    /\ r.pi.fndir = IF t.state = "EST" /\ m.state = "FINI" THEN d ELSE t.fndir
    /\ r.pi.seq = IF m.record THEN [t.seq EXCEPT ![d] = p.seq] ELSE t.seq
LEMMA TcpMachine ==
    ASSUME NEW t \in Tcp!Info, NEW xt \in Tcp!Info, NEW p \in Tcp!Packet, NEW d \in Tcp!Dirs,
           NEW r, r = Tcp!dp_ct_tcp_sm(t, xt, p, d), NEW m, m = Tcp!TcpMove(t, p, d)
    PROVE  Moves(t, p, d, r, m)
<1>0. m.state \in Tcp!TcpStates /\ p.seq \in Nat  BY TcpMoveTyped DEF Tcp!Packet
<1>1. /\ t.seq \in [Tcp!Dirs -> Nat] /\ t.init_acks \in [Tcp!Dirs -> Nat] /\ t.fndir \in Tcp!Dirs
      /\ xt.seq \in [Tcp!Dirs -> Nat]
  BY DEF Tcp!Info
<1>2. PICK q : q = IF m.record THEN [t.seq EXCEPT ![d] = p.seq] ELSE t.seq  OBVIOUS
<1>3. q \in [Tcp!Dirs -> Nat]  BY <1>0, <1>1, <1>2
<1>4. PICK f \in Tcp!Dirs : f = IF t.state = "EST" /\ m.state = "FINI" THEN d ELSE t.fndir  BY <1>1
<1>. DEFINE tried == t.state = "CLOSED" /\ "RST" \notin p.flags /\ ~Dsr /\ Tcp!Ack(p) /\ ~Tcp!Unexpected(t, p, d)
<1>5. PICK a : a = IF tried THEN [t.init_acks EXCEPT ![d] = (@ + 1) % U16] ELSE t.init_acks  OBVIOUS
<1>6. a \in [Tcp!Dirs -> Nat]
  <2>1. \A x \in Nat : (x + 1) % U16 \in Nat  BY CtNumbersAssumption
  <2>. HIDE DEF tried
  <2>2. CASE tried
    <3>1. a = [t.init_acks EXCEPT ![d] = (t.init_acks[d] + 1) % U16]  BY <1>1, <1>5, <2>2
    <3>2. (t.init_acks[d] + 1) % U16 \in Nat  BY <1>1, <2>1
    <3>. QED  BY <1>1, <3>1, <3>2
  <2>3. CASE ~tried  BY <1>1, <1>5, <2>3
  <2>. QED  BY <2>2, <2>3
<1>7. PICK y : y = IF m.state # "ERR" /\ d = "OUT" THEN p.seq ELSE xt.seq["IN"]  OBVIOUS
<1>8. y \in Nat  BY <1>0, <1>1, <1>7 DEF Tcp!Dirs
<1>9. /\ r.pi = [state |-> m.state, fndir |-> f, seq |-> q, init_acks |-> a]
      /\ r.xpi = [xt EXCEPT !.state = m.state, !.seq["IN"] = y]
      /\ r.smr = Tcp!TcpResult(m.state)
  BY <1>2, <1>4, <1>5, <1>7 DEF Tcp!dp_ct_tcp_sm
<1>10. r.pi \in Tcp!Info  BY <1>0, <1>3, <1>4, <1>6, <1>9 DEF Tcp!Info
<1>11. r.xpi \in Tcp!Info
  <2>1. [xt.seq EXCEPT !["IN"] = y] \in [Tcp!Dirs -> Nat]  BY <1>1, <1>8
  <2>2. PICK z \in [Tcp!Dirs -> Nat] : z = [xt.seq EXCEPT !["IN"] = y]  BY <2>1
  <2>3. r.xpi = [xt EXCEPT !.state = m.state, !.seq = z]  BY <1>9, <2>2 DEF Tcp!Info
  <2>. QED  BY <1>0, <2>3 DEF Tcp!Info
<1>. QED  BY <1>2, <1>4, <1>9, <1>10, <1>11 DEF Moves

(* What the tracker makes of a packet: old is the entry with the FIN of    *)
(* the packet noted, d the direction and mv what the state machine does.   *)
TcpOld(k, m) ==
    IF ct = NoEntry THEN Tcp!Fresh(k) ELSE [ct EXCEPT !.fr[k] = @ \/ (ct.fast /\ Tcp!Fin(m))]
TcpDir(k, m) == IF TcpOld(k, m).owner = k THEN "IN" ELSE "OUT"
TcpMoved(k, m) == Tcp!TcpMove(TcpOld(k, m).pi, m, TcpDir(k, m))

LEMMA TcpOldTyped ==
    ASSUME Tcp!TypeOK, NEW k \in Tcp!Ends, NEW m \in Tcp!Packet
    PROVE  /\ TcpOld(k, m) \in Tcp!Entry /\ TcpOld(k, m).pi.state \notin {"CW", "ERR"}
           /\ ct # NoEntry => /\ TcpOld(k, m).pi = ct.pi /\ TcpOld(k, m).owner = ct.owner
                              /\ TcpOld(k, m).fast = ct.fast
                              /\ TcpOld(k, m).fr[k] = (ct.fr[k] \/ (ct.fast /\ Tcp!Fin(m)))
                              /\ \A x \in Tcp!Ends \ {k} : TcpOld(k, m).fr[x] = ct.fr[x]
           /\ ct = NoEntry => /\ TcpOld(k, m).pi = Tcp!Tcp0 /\ TcpOld(k, m).owner = k
                              /\ TcpOld(k, m).fast = FALSE /\ TcpOld(k, m).fr = [x \in Tcp!Ends |-> FALSE]
<1>. DEFINE old == TcpOld(k, m)
<1>1. CASE ct = NoEntry
  <2>1. old = Tcp!Fresh(k)  BY <1>1 DEF TcpOld
  <2>2. Tcp!Tcp0 \in Tcp!Info  BY DEF Tcp!Tcp0, Tcp!Info, Tcp!TcpStates, Tcp!Dirs
  <2>3. Tcp!Tcp0.state = "CLOSED"  BY DEF Tcp!Tcp0
  <2>. HIDE DEF old
  <2>. QED  BY <1>1, <2>1, <2>2, <2>3 DEF Tcp!Fresh, Tcp!Entry, old
<1>2. CASE ct # NoEntry
  <2>1. ct \in Tcp!Entry /\ ct.pi.state \notin {"CW", "ERR"}  BY <1>2 DEF Tcp!TypeOK
  <2>2. ct.fr \in [Tcp!Ends -> BOOLEAN]  BY <2>1 DEF Tcp!Entry
  <2>3. PICK b \in BOOLEAN : b = (ct.fr[k] \/ (ct.fast /\ Tcp!Fin(m)))  OBVIOUS
  <2>4. [ct.fr EXCEPT ![k] = b] \in [Tcp!Ends -> BOOLEAN]  BY <2>2
  <2>5. PICK z \in [Tcp!Ends -> BOOLEAN] : z = [ct.fr EXCEPT ![k] = b]  BY <2>4
  <2>6. old = [ct EXCEPT !.fr = z]
    <3>1. old = [ct EXCEPT !.fr[k] = @ \/ (ct.fast /\ Tcp!Fin(m))]  BY <1>2 DEF TcpOld
    <3>2. old = [ct EXCEPT !.fr = [ct.fr EXCEPT ![k] = ct.fr[k] \/ (ct.fast /\ Tcp!Fin(m))]]
      BY <2>1, <2>2, <3>1 DEF Tcp!Entry
    <3>. HIDE DEF old
    <3>. QED  BY <2>3, <2>5, <3>2, Zenon
  <2>. HIDE DEF old
  <2>7. z[k] = b /\ \A x \in Tcp!Ends \ {k} : z[x] = ct.fr[x]  BY <2>2, <2>5
  <2>8. /\ old \in Tcp!Entry /\ old.pi = ct.pi /\ old.owner = ct.owner /\ old.fast = ct.fast /\ old.fr = z
    BY <2>1, <2>6 DEF Tcp!Entry
  <2>. QED  BY <1>2, <2>1, <2>3, <2>7, <2>8 DEF old
<1>. QED  BY <1>1, <1>2

Tracks(k, m, old, d, mv, T) ==
    /\ old.fast /\ ~old.fr[k] => T = old
    /\ ~(old.fast /\ ~old.fr[k]) /\ mv.state \in {"ERR", "CW"} => T = NoEntry
    /\ ~(old.fast /\ ~old.fr[k]) /\ mv.state \notin {"ERR", "CW"} =>
          /\ T \in Tcp!Entry /\ T.owner = old.owner /\ T.fr = old.fr
          /\ T.fast <=> old.fast \/ mv.state = "EST"
          /\ T.pi.state = mv.state
          /\ T.pi.fndir = IF old.pi.state = "EST" /\ mv.state = "FINI" THEN d ELSE old.pi.fndir
          /\ T.pi.seq = IF mv.record THEN [old.pi.seq EXCEPT ![d] = m.seq] ELSE old.pi.seq
LEMMA TcpTracked ==
    ASSUME Tcp!TypeOK, NEW k \in Tcp!Ends, NEW m \in Tcp!Packet,
           NEW old, old = TcpOld(k, m), NEW d, d = TcpDir(k, m), NEW mv, mv = TcpMoved(k, m),
           NEW T, T = Tcp!Tracked(k, m)
    PROVE  Tracks(k, m, old, d, mv, T)
<1>1. old \in Tcp!Entry  BY TcpOldTyped
<1>2. old.pi \in Tcp!Info /\ old.xpi \in Tcp!Info /\ old.fast \in BOOLEAN /\ d \in Tcp!Dirs
  BY <1>1 DEF Tcp!Entry, TcpDir, Tcp!Dirs
<1>3. mv = Tcp!TcpMove(old.pi, m, d)  BY DEF TcpMoved
<1>4. PICK r : r = Tcp!dp_ct_tcp_sm(old.pi, old.xpi, m, d)  OBVIOUS
<1>5. /\ r.pi \in Tcp!Info /\ r.xpi \in Tcp!Info
      /\ r.pi.state = mv.state /\ r.smr = Tcp!TcpResult(mv.state)
      /\ r.pi.fndir = IF old.pi.state = "EST" /\ mv.state = "FINI" THEN d ELSE old.pi.fndir
      /\ r.pi.seq = IF mv.record THEN [old.pi.seq EXCEPT ![d] = m.seq] ELSE old.pi.seq
  <2>1. Moves(old.pi, m, d, r, mv)  BY <1>2, <1>3, <1>4, TcpMachine, Zenon
  <2>. QED  BY <2>1 DEF Moves
<1>6. /\ r.smr \in {"ERR", "CTD"} <=> mv.state \in {"ERR", "CW"}
      /\ r.smr = "EST" <=> mv.state = "EST"
  <2>1. PICK s : s = mv.state  OBVIOUS
  <2>2. s \in Tcp!TcpStates  BY <1>2, <1>3, <2>1, TcpMoveTyped
  <2>3. /\ Tcp!TcpResult(s) \in {"ERR", "CTD"} <=> s \in {"ERR", "CW"}
        /\ Tcp!TcpResult(s) = "EST" <=> s = "EST"
    BY <2>2, Zenon DEF Tcp!TcpResult, Tcp!TcpStates
  <2>. QED  BY <1>5, <2>1, <2>3
<1>7. T = CASE old.fast /\ ~old.fr[k] -> old
            [] (~old.fast \/ old.fr[k]) /\ r.smr \in {"ERR", "CTD"} -> NoEntry
            [] OTHER -> [old EXCEPT !.pi = r.pi, !.xpi = r.xpi, !.fast = @ \/ r.smr = "EST"]
  BY <1>4, Zenon DEF Tcp!Tracked, TcpOld, TcpDir
<1>8. /\ old.fast /\ ~old.fr[k] => T = old
      /\ ~(old.fast /\ ~old.fr[k]) /\ r.smr \in {"ERR", "CTD"} => T = NoEntry
      /\ ~(old.fast /\ ~old.fr[k]) /\ r.smr \notin {"ERR", "CTD"} =>
            T = [old EXCEPT !.pi = r.pi, !.xpi = r.xpi, !.fast = @ \/ r.smr = "EST"]
  BY <1>7, Zenon
<1>9. ASSUME ~(old.fast /\ ~old.fr[k]), mv.state \notin {"ERR", "CW"}
      PROVE  T \in Tcp!Entry /\ T.owner = old.owner /\ T.fr = old.fr /\ T.pi = r.pi
             /\ (T.fast <=> old.fast \/ mv.state = "EST")
  <2>1. PICK f \in BOOLEAN : f = (old.fast \/ r.smr = "EST")  OBVIOUS
  <2>2. T = [old EXCEPT !.pi = r.pi, !.xpi = r.xpi, !.fast = f]  BY <1>1, <1>6, <1>8, <1>9, <2>1 DEF Tcp!Entry
  <2>3. T \in Tcp!Entry /\ T.owner = old.owner /\ T.fr = old.fr /\ T.pi = r.pi /\ T.fast = f
    BY <1>1, <1>5, <2>2 DEF Tcp!Entry
  <2>. QED  BY <1>6, <2>1, <2>3
<1>. QED  BY <1>5, <1>6, <1>8, <1>9 DEF Tracks

LEMMA TcpTrackedTyped ==
    ASSUME Tcp!TypeOK, NEW k \in Tcp!Ends, NEW m \in Tcp!Packet, NEW T, T = Tcp!Tracked(k, m)
    PROVE  T \in Tcp!Entry \cup {NoEntry} /\ (T # NoEntry => T.pi.state \notin {"CW", "ERR"})
<1>1. PICK old, d, mv : old = TcpOld(k, m) /\ d = TcpDir(k, m) /\ mv = TcpMoved(k, m)  OBVIOUS
<1>2. old \in Tcp!Entry /\ old.pi.state \notin {"CW", "ERR"}  BY <1>1, TcpOldTyped
<1>3. Tracks(k, m, old, d, mv, T)  BY <1>1, TcpTracked, Zenon
<1>. QED  BY <1>2, <1>3 DEF Tracks

LEMMA TcpTypedInit == ASSUME Tcp!Init PROVE Tcp!TypeOK
<1>1. PICK isn \in [Tcp!Ends -> Tcp!ISNs] :
         end = [k \in Tcp!Ends |-> [st |-> IF k = "fwd" THEN "closed" ELSE "listen",
                                   nxt |-> isn[k], rcv |-> 0, acked |-> 0,
                                   finSent |-> FALSE, finRcvd |-> FALSE, sent |-> 0]]
  BY DEF Tcp!Init
<1>2. SEQ - 3 \in Nat /\ SEQ - 1 \in Nat  BY SessionsAssumption, CtNumbersAssumption
<1>3. \A k \in Tcp!Ends : isn[k] \in Nat  BY <1>2 DEF Tcp!ISNs
<1>4. end \in [Tcp!Ends -> Tcp!Endpoint]  BY <1>1, <1>3 DEF Tcp!Endpoint
<1>5. way \in [Tcp!Ends -> Seq(Tcp!Packet)]
  <2>1. <<>> \in Seq(Tcp!Packet)  OBVIOUS
  <2>. QED  BY <2>1 DEF Tcp!Init
<1>. QED  BY <1>4, <1>5 DEF Tcp!Init, Tcp!TypeOK

(* What an endpoint does. *)
LEMMA TcpSent ==
    ASSUME Tcp!TypeOK, NEW k \in Tcp!Ends, NEW m \in Tcp!Packet, Tcp!Send(k, m)
    PROVE  /\ way' \in [Tcp!Ends -> Seq(Tcp!Packet)] /\ way'[k] = Append(way[k], m)
           /\ \A x \in Tcp!Ends \ {k} : way'[x] = way[x]
<1>1. way \in [Tcp!Ends -> Seq(Tcp!Packet)]  BY DEF Tcp!TypeOK
<1>2. Append(way[k], m) \in Seq(Tcp!Packet)  BY <1>1
<1>3. way' = [way EXCEPT ![k] = Append(way[k], m)]  BY <1>1 DEF Tcp!Send
<1>. QED  BY <1>1, <1>2, <1>3

LEMMA EndpointSteps ==
    ASSUME NEW e \in Tcp!Endpoint
    PROVE  /\ [e EXCEPT !.st = "synsent", !.nxt = @ + 1] \in Tcp!Endpoint
           /\ [e EXCEPT !.nxt = @ + 1, !.sent = @ + 1] \in Tcp!Endpoint
           /\ [e EXCEPT !.nxt = @ + 1, !.finSent = TRUE] \in Tcp!Endpoint
<1>1. PICK n \in Nat, s \in Nat : n = e.nxt + 1 /\ s = e.sent + 1
  <2>1. e.nxt \in Nat /\ e.sent \in Nat  BY DEF Tcp!Endpoint
  <2>. QED  BY <2>1
<1>2. [e EXCEPT !.st = "synsent", !.nxt = n] \in Tcp!Endpoint  BY DEF Tcp!Endpoint
<1>3. [e EXCEPT !.nxt = n, !.sent = s] \in Tcp!Endpoint  BY DEF Tcp!Endpoint
<1>4. [e EXCEPT !.nxt = n, !.finSent = TRUE] \in Tcp!Endpoint  BY DEF Tcp!Endpoint
<1>5. /\ [e EXCEPT !.st = "synsent", !.nxt = n] = [e EXCEPT !.st = "synsent", !.nxt = @ + 1]
      /\ [e EXCEPT !.nxt = n, !.sent = s] = [e EXCEPT !.nxt = @ + 1, !.sent = @ + 1]
      /\ [e EXCEPT !.nxt = n, !.finSent = TRUE] = [e EXCEPT !.nxt = @ + 1, !.finSent = TRUE]
  BY <1>1
<1>. QED  BY <1>2, <1>3, <1>4, <1>5

LEMMA ConnectEffect ==
    ASSUME Tcp!TypeOK, Tcp!Connect
    PROVE  /\ Tcp!TypeOK' /\ ct' = ct /\ wasFast' = wasFast /\ end["fwd"].st = "closed"
           /\ end'["rev"] = end["rev"] /\ way'["rev"] = way["rev"]
           /\ end'["fwd"] = [end["fwd"] EXCEPT !.st = "synsent", !.nxt = @ + 1]
           /\ way'["fwd"] = Append(way["fwd"], Tcp!Segment({"SYN"}, end["fwd"]))
<1>1. end \in [Tcp!Ends -> Tcp!Endpoint] /\ "fwd" \in Tcp!Ends /\ "rev" \in Tcp!Ends \ {"fwd"}
  BY EndFacts DEF Tcp!TypeOK
<1>2. PICK m : m = Tcp!Segment({"SYN"}, end["fwd"])  OBVIOUS
<1>3. end["fwd"] \in Tcp!Endpoint  BY <1>1
<1>4. m \in Tcp!Packet
  <2>1. {"SYN"} \in SUBSET Flags  BY DEF Flags
  <2>2. IsSegment(m, {"SYN"}, end["fwd"])  BY <1>2, <1>3, <2>1, SegmentFacts, Zenon
  <2>. QED  BY <2>2 DEF IsSegment
<1>5. Tcp!Send("fwd", m)  BY <1>2 DEF Tcp!Connect
<1>6. PICK e : e = [end["fwd"] EXCEPT !.st = "synsent", !.nxt = @ + 1]  OBVIOUS
<1>7. e \in Tcp!Endpoint  BY <1>3, <1>6, EndpointSteps, Zenon
<1>8. end' = [end EXCEPT !["fwd"] = e]
  <2>1. end' = [end EXCEPT !["fwd"].st = "synsent", !["fwd"].nxt = @ + 1]  BY DEF Tcp!Connect
  <2>. QED  BY <1>1, <1>3, <1>6, <2>1 DEF Tcp!Endpoint
<1>9. /\ ct' = ct /\ wasFast' = wasFast /\ end["fwd"].st = "closed"  BY DEF Tcp!Connect
<1>10. end' \in [Tcp!Ends -> Tcp!Endpoint] /\ end'["fwd"] = e /\ end'["rev"] = end["rev"]
  BY <1>1, <1>7, <1>8
<1>11. /\ way' \in [Tcp!Ends -> Seq(Tcp!Packet)] /\ way'["fwd"] = Append(way["fwd"], m)
       /\ way'["rev"] = way["rev"]
  BY <1>1, <1>4, <1>5, TcpSent
<1>12. Tcp!TypeOK'  BY <1>9, <1>10, <1>11 DEF Tcp!TypeOK
<1>. QED  BY <1>2, <1>6, <1>9, <1>10, <1>11, <1>12

LEMMA SendDataEffect ==
    ASSUME Tcp!TypeOK, NEW k \in Tcp!Ends, Tcp!SendData(k)
    PROVE  /\ Tcp!TypeOK' /\ ct' = ct /\ wasFast' = wasFast /\ end[k].st = "est"
           /\ Orderly => \A x \in Tcp!Ends : ~end[x].finSent
           /\ \A x \in Tcp!Ends \ {k} : end'[x] = end[x] /\ way'[x] = way[x]
           /\ end'[k] = [end[k] EXCEPT !.nxt = @ + 1, !.sent = @ + 1]
           /\ \E m \in Tcp!Packet : /\ m.flags = {"ACK"} /\ m.seq = end[k].nxt % SEQ
                                    /\ m.ack = end[k].rcv % SEQ /\ m.data = TRUE
                                    /\ way'[k] = Append(way[k], m)
<1>1. end \in [Tcp!Ends -> Tcp!Endpoint]  BY DEF Tcp!TypeOK
<1>2. PICK m : m = Tcp!Segment({"ACK"}, end[k])  OBVIOUS
<1>3. end[k] \in Tcp!Endpoint  BY <1>1
<1>4. /\ m \in Tcp!Packet /\ m.flags = {"ACK"} /\ m.seq = end[k].nxt % SEQ /\ m.ack = end[k].rcv % SEQ
  <2>1. {"ACK"} \in SUBSET Flags  BY DEF Flags
  <2>2. IsSegment(m, {"ACK"}, end[k])  BY <1>2, <1>3, <2>1, SegmentFacts, Zenon
  <2>. QED  BY <2>2 DEF IsSegment
<1>5. PICK n : n = [m EXCEPT !.data = TRUE]  OBVIOUS
<1>6. n \in Tcp!Packet /\ n.flags = m.flags /\ n.seq = m.seq /\ n.ack = m.ack /\ n.data = TRUE
  BY <1>4, <1>5 DEF Tcp!Packet
<1>7. Tcp!Send(k, n)  BY <1>2, <1>5 DEF Tcp!SendData
<1>8. PICK e : e = [end[k] EXCEPT !.nxt = @ + 1, !.sent = @ + 1]  OBVIOUS
<1>9. e \in Tcp!Endpoint  BY <1>3, <1>8, EndpointSteps, Zenon
<1>10. end' = [end EXCEPT ![k] = e]
  <2>1. end' = [end EXCEPT ![k].nxt = @ + 1, ![k].sent = @ + 1]  BY DEF Tcp!SendData
  <2>. QED  BY <1>1, <1>3, <1>8, <2>1 DEF Tcp!Endpoint
<1>11. /\ ct' = ct /\ wasFast' = wasFast /\ end[k].st = "est"
       /\ Orderly => \A x \in Tcp!Ends : ~end[x].finSent
  BY DEF Tcp!SendData
<1>12. /\ end' \in [Tcp!Ends -> Tcp!Endpoint] /\ end'[k] = e
       /\ \A x \in Tcp!Ends \ {k} : end'[x] = end[x]
  BY <1>1, <1>9, <1>10
<1>13. /\ way' \in [Tcp!Ends -> Seq(Tcp!Packet)] /\ way'[k] = Append(way[k], n)
       /\ \A x \in Tcp!Ends \ {k} : way'[x] = way[x]
  BY <1>6, <1>7, TcpSent
<1>14. Tcp!TypeOK'  BY <1>11, <1>12, <1>13 DEF Tcp!TypeOK
<1>. QED  BY <1>4, <1>6, <1>8, <1>11, <1>12, <1>13, <1>14

LEMMA CloseEffect ==
    ASSUME Tcp!TypeOK, NEW k \in Tcp!Ends, Tcp!Close(k)
    PROVE  /\ Tcp!TypeOK' /\ ct' = ct /\ wasFast' = wasFast /\ end[k].st = "est" /\ ~end[k].finSent
           /\ Orderly => Tcp!Still
           /\ \A x \in Tcp!Ends \ {k} : end'[x] = end[x] /\ way'[x] = way[x]
           /\ end'[k] = [end[k] EXCEPT !.nxt = @ + 1, !.finSent = TRUE]
           /\ \E m \in Tcp!Packet : /\ m.flags = {"FIN", "ACK"} /\ m.seq = end[k].nxt % SEQ
                                    /\ m.ack = end[k].rcv % SEQ /\ m.data = FALSE
                                    /\ way'[k] = Append(way[k], m)
<1>1. end \in [Tcp!Ends -> Tcp!Endpoint]  BY DEF Tcp!TypeOK
<1>2. PICK m : m = Tcp!Segment({"FIN", "ACK"}, end[k])  OBVIOUS
<1>3. end[k] \in Tcp!Endpoint  BY <1>1
<1>4. /\ m \in Tcp!Packet /\ m.flags = {"FIN", "ACK"} /\ m.seq = end[k].nxt % SEQ
      /\ m.ack = end[k].rcv % SEQ /\ m.data = FALSE
  <2>1. {"FIN", "ACK"} \in SUBSET Flags  BY DEF Flags
  <2>2. IsSegment(m, {"FIN", "ACK"}, end[k])  BY <1>2, <1>3, <2>1, SegmentFacts, Zenon
  <2>. QED  BY <2>2 DEF IsSegment
<1>7. Tcp!Send(k, m)  BY <1>2 DEF Tcp!Close
<1>8. PICK e : e = [end[k] EXCEPT !.nxt = @ + 1, !.finSent = TRUE]  OBVIOUS
<1>9. e \in Tcp!Endpoint  BY <1>3, <1>8, EndpointSteps, Zenon
<1>10. end' = [end EXCEPT ![k] = e]
  <2>1. end' = [end EXCEPT ![k].nxt = @ + 1, ![k].finSent = TRUE]  BY DEF Tcp!Close
  <2>. QED  BY <1>1, <1>3, <1>8, <2>1 DEF Tcp!Endpoint
<1>11. /\ ct' = ct /\ wasFast' = wasFast /\ end[k].st = "est" /\ ~end[k].finSent /\ (Orderly => Tcp!Still)
  BY DEF Tcp!Close
<1>12. /\ end' \in [Tcp!Ends -> Tcp!Endpoint] /\ end'[k] = e
       /\ \A x \in Tcp!Ends \ {k} : end'[x] = end[x]
  BY <1>1, <1>9, <1>10
<1>13. /\ way' \in [Tcp!Ends -> Seq(Tcp!Packet)] /\ way'[k] = Append(way[k], m)
       /\ \A x \in Tcp!Ends \ {k} : way'[x] = way[x]
  BY <1>4, <1>7, TcpSent
<1>14. Tcp!TypeOK'  BY <1>11, <1>12, <1>13 DEF Tcp!TypeOK
<1>. QED  BY <1>4, <1>8, <1>11, <1>12, <1>13, <1>14

(* What the receiving endpoint makes of a packet. *)
Receives(e, m, x) ==
    /\ x \in Tcp!Endpoint /\ x.nxt = e.nxt /\ x.finSent = e.finSent
    /\ e.st = "listen" /\ Tcp!Syn(m) => x.st = "synrcvd" /\ x.rcv = m.seq + 1 /\ x.finRcvd = e.finRcvd
    /\ e.st = "synsent" /\ Tcp!Syn(m) /\ Tcp!Ack(m) =>
          x.st = "est" /\ x.rcv = m.seq + 1 /\ x.finRcvd = e.finRcvd
    /\ e.st \in {"synrcvd", "est"} /\ Tcp!Ack(m) =>
          /\ x.st = "est" /\ x.rcv = IF m.data \/ Tcp!Fin(m) THEN e.rcv + 1 ELSE e.rcv
          /\ x.finRcvd = (e.finRcvd \/ Tcp!Fin(m))
LEMMA ReceivedFacts ==
    ASSUME NEW e \in Tcp!Endpoint, NEW m \in Tcp!Packet, NEW x, x = Tcp!Received(e, m)
    PROVE  Receives(e, m, x)
<1>1. m.seq \in Nat /\ m.ack \in Nat /\ e.rcv \in Nat /\ e.finRcvd \in BOOLEAN  BY DEF Tcp!Packet, Tcp!Endpoint
<1>2. PICK a \in Nat, b \in Nat, f \in BOOLEAN :
         /\ a = m.seq + 1 /\ b = (IF m.data \/ Tcp!Fin(m) THEN e.rcv + 1 ELSE e.rcv)
         /\ f = (e.finRcvd \/ Tcp!Fin(m))
  <2>1. m.seq + 1 \in Nat /\ (IF m.data \/ Tcp!Fin(m) THEN e.rcv + 1 ELSE e.rcv) \in Nat  BY <1>1
  <2>. QED  BY <2>1
<1>3. x = CASE e.st = "listen" /\ Tcp!Syn(m) -> [e EXCEPT !.st = "synrcvd", !.rcv = m.seq + 1]
            [] e.st = "synsent" /\ Tcp!Syn(m) /\ Tcp!Ack(m) ->
                  [e EXCEPT !.st = "est", !.rcv = m.seq + 1, !.acked = m.ack]
            [] e.st \in {"synrcvd", "est"} /\ Tcp!Ack(m) ->
                  [e EXCEPT !.st = "est", !.acked = m.ack, !.rcv = IF m.data \/ Tcp!Fin(m) THEN @ + 1 ELSE @,
                            !.finRcvd = @ \/ Tcp!Fin(m)]
            [] OTHER -> e
  BY Zenon DEF Tcp!Received
<1>4. CASE e.st = "listen" /\ Tcp!Syn(m)
  <2>1. x = [e EXCEPT !.st = "synrcvd", !.rcv = m.seq + 1]  BY <1>3, <1>4, Zenon
  <2>2. x = [e EXCEPT !.st = "synrcvd", !.rcv = a]  BY <1>2, <2>1
  <2>. QED  BY <1>2, <1>4, <2>2 DEF Receives, Tcp!Endpoint
<1>5. CASE e.st = "synsent" /\ Tcp!Syn(m) /\ Tcp!Ack(m)
  <2>1. x = [e EXCEPT !.st = "est", !.rcv = m.seq + 1, !.acked = m.ack]  BY <1>3, <1>5, Zenon
  <2>2. x = [e EXCEPT !.st = "est", !.rcv = a, !.acked = m.ack]  BY <1>2, <2>1
  <2>. QED  BY <1>1, <1>2, <1>5, <2>2 DEF Receives, Tcp!Endpoint
<1>6. CASE e.st \in {"synrcvd", "est"} /\ Tcp!Ack(m)
  <2>1. x = [e EXCEPT !.st = "est", !.acked = m.ack, !.rcv = IF m.data \/ Tcp!Fin(m) THEN @ + 1 ELSE @,
                      !.finRcvd = @ \/ Tcp!Fin(m)]
    <3>1. ~(e.st = "listen" /\ Tcp!Syn(m)) /\ ~(e.st = "synsent" /\ Tcp!Syn(m) /\ Tcp!Ack(m))  BY <1>6
    <3>. QED  BY <1>3, <1>6, <3>1, Zenon
  <2>2. x = [e EXCEPT !.st = "est", !.acked = m.ack, !.rcv = b, !.finRcvd = f]
    BY <1>2, <2>1 DEF Tcp!Endpoint
  <2>3. /\ x \in Tcp!Endpoint /\ x.nxt = e.nxt /\ x.finSent = e.finSent
        /\ x.st = "est" /\ x.rcv = b /\ x.finRcvd = f
    BY <1>1, <1>2, <2>2 DEF Tcp!Endpoint
  <2>. QED  BY <1>2, <1>6, <2>3 DEF Receives
<1>7. CASE /\ ~(e.st = "listen" /\ Tcp!Syn(m)) /\ ~(e.st = "synsent" /\ Tcp!Syn(m) /\ Tcp!Ack(m))
           /\ ~(e.st \in {"synrcvd", "est"} /\ Tcp!Ack(m))
  <2>1. x = e  BY <1>3, <1>7, Zenon
  <2>. QED  BY <1>7, <2>1 DEF Receives
<1>. QED  BY <1>4, <1>5, <1>6, <1>7

Answers(m) == Tcp!Syn(m) \/ m.data \/ Tcp!Fin(m)
LEMMA ForwardEffect ==
    ASSUME Tcp!TypeOK, NEW k \in Tcp!Ends, Tcp!Forward(k)
    PROVE  LET p == Tcp!Peer(k)
               m == Head(way[k])
           IN  /\ Tcp!TypeOK' /\ way[k] # <<>> /\ m \in Tcp!Packet /\ ct' = Tcp!Tracked(k, m)
               /\ wasFast' = (wasFast \/ (ct' # NoEntry /\ ct'.fast))
               /\ end'[k] = end[k] /\ way'[k] = Tail(way[k])
               /\ \E x : /\ Receives(end[p], m, x)
                         /\ ~(x.st = "synrcvd" /\ Tcp!Syn(m)) => end'[p] = x
                         /\ x.st = "synrcvd" /\ Tcp!Syn(m) => end'[p] = [x EXCEPT !.nxt = @ + 1]
                         /\ ~Answers(m) => way'[p] = way[p]
                         /\ Answers(m) =>
                               \E y : /\ x.st = "est" => IsSegment(y, {"ACK"}, x)
                                      /\ x.st # "est" => IsSegment(y, {"SYN", "ACK"}, x)
                                      /\ way'[p] = Append(way[p], y)
<1>. DEFINE p == Tcp!Peer(k)
            m == Head(way[k])
            x == Tcp!Received(end[p], m)
            y == IF x.st = "est" THEN Tcp!Segment({"ACK"}, x) ELSE Tcp!Segment({"SYN", "ACK"}, x)
            z == IF x.st = "synrcvd" /\ Tcp!Syn(m) THEN [x EXCEPT !.nxt = @ + 1] ELSE x
<1>1. way \in [Tcp!Ends -> Seq(Tcp!Packet)] /\ end \in [Tcp!Ends -> Tcp!Endpoint]  BY DEF Tcp!TypeOK
<1>2. p \in Tcp!Ends /\ p # k /\ Tcp!Ends = {k, p}  BY EndFacts
<1>3. /\ way[k] # <<>> /\ ct' = Tcp!Tracked(k, m) /\ wasFast' = (wasFast \/ (ct' # NoEntry /\ ct'.fast))
      /\ end' = [end EXCEPT ![p] = z]
      /\ ~Answers(m) => way' = [way EXCEPT ![k] = Tail(@)]
      /\ Answers(m) => way' = [[way EXCEPT ![k] = Tail(@)] EXCEPT ![p] = Append(@, y)]
  BY DEF Tcp!Forward, Answers
<1>4. m \in Tcp!Packet /\ Tail(way[k]) \in Seq(Tcp!Packet)
  <2>1. way[k] \in Seq(Tcp!Packet) /\ way[k] # <<>>  BY <1>1, <1>3
  <2>. QED  BY <2>1
<1>. HIDE DEF m
<1>5. end[p] \in Tcp!Endpoint  BY <1>1, <1>2
<1>6. Receives(end[p], m, x)  BY <1>4, <1>5, ReceivedFacts, Zenon
<1>7. x \in Tcp!Endpoint  BY <1>6 DEF Receives
<1>. HIDE DEF x, p
<1>8. z \in Tcp!Endpoint
  <2>1. x.nxt + 1 \in Nat  BY <1>7 DEF Tcp!Endpoint
  <2>2. PICK n \in Nat : n = x.nxt + 1  BY <2>1
  <2>3. z = x \/ z = [x EXCEPT !.nxt = n]  BY <2>2
  <2>. QED  BY <1>7, <2>2, <2>3 DEF Tcp!Endpoint
<1>9. (x.st = "est" => IsSegment(y, {"ACK"}, x)) /\ (x.st # "est" => IsSegment(y, {"SYN", "ACK"}, x))
  <2>1. {"ACK"} \in SUBSET Flags /\ {"SYN", "ACK"} \in SUBSET Flags  BY DEF Flags
  <2>2. \A v : v = Tcp!Segment({"ACK"}, x) => IsSegment(v, {"ACK"}, x)  BY <1>7, <2>1, SegmentFacts, Zenon
  <2>3. \A v : v = Tcp!Segment({"SYN", "ACK"}, x) => IsSegment(v, {"SYN", "ACK"}, x)
    BY <1>7, <2>1, SegmentFacts, Zenon
  <2>. QED  BY <2>2, <2>3
<1>10. y \in Tcp!Packet  BY <1>9 DEF IsSegment
<1>a. /\ ~(x.st = "synrcvd" /\ Tcp!Syn(m)) => z = x
      /\ x.st = "synrcvd" /\ Tcp!Syn(m) => z = [x EXCEPT !.nxt = @ + 1]
  OBVIOUS
<1>. HIDE DEF y, z
<1>11. end' \in [Tcp!Ends -> Tcp!Endpoint] /\ end'[k] = end[k] /\ end'[p] = z  BY <1>1, <1>2, <1>3, <1>8
<1>12. /\ way' \in [Tcp!Ends -> Seq(Tcp!Packet)] /\ way'[k] = Tail(way[k])
       /\ ~Answers(m) => way'[p] = way[p]
       /\ Answers(m) => way'[p] = Append(way[p], y)
  <2>1. PICK t, q : t = Tail(way[k]) /\ q = Append(way[p], y)  OBVIOUS
  <2>2. t \in Seq(Tcp!Packet) /\ q \in Seq(Tcp!Packet)  BY <1>1, <1>2, <1>4, <1>10, <2>1
  <2>3. CASE ~Answers(m)
    <3>1. way' = [way EXCEPT ![k] = t]  BY <1>1, <1>3, <2>1, <2>3
    <3>. QED  BY <1>1, <1>2, <2>1, <2>2, <2>3, <3>1
  <2>4. CASE Answers(m)
    <3>1. way' = [[way EXCEPT ![k] = t] EXCEPT ![p] = q]  BY <1>1, <1>2, <1>3, <2>1, <2>4
    <3>. QED  BY <1>1, <1>2, <2>1, <2>2, <2>4, <3>1
  <2>. QED  BY <2>3, <2>4
<1>13. Tcp!TypeOK'
  <2>1. PICK T : T = Tcp!Tracked(k, m)  OBVIOUS
  <2>2. T \in Tcp!Entry \cup {NoEntry} /\ (T # NoEntry => T.pi.state \notin {"CW", "ERR"})
    BY <1>4, <2>1, TcpTrackedTyped
  <2>3. ct' = T /\ wasFast' \in BOOLEAN  BY <1>3, <2>1 DEF Tcp!TypeOK
  <2>. QED  BY <1>11, <1>12, <2>2, <2>3 DEF Tcp!TypeOK
<1>. USE DEF m, p
<1>14. \E v : /\ Receives(end[p], m, v)
              /\ ~(v.st = "synrcvd" /\ Tcp!Syn(m)) => end'[p] = v
              /\ v.st = "synrcvd" /\ Tcp!Syn(m) => end'[p] = [v EXCEPT !.nxt = @ + 1]
              /\ ~Answers(m) => way'[p] = way[p]
              /\ Answers(m) =>
                    \E w : /\ v.st = "est" => IsSegment(w, {"ACK"}, v)
                           /\ v.st # "est" => IsSegment(w, {"SYN", "ACK"}, v)
                           /\ way'[p] = Append(way[p], w)
  <2>. WITNESS x
  <2>1. Answers(m) => \E w : /\ x.st = "est" => IsSegment(w, {"ACK"}, x)
                             /\ x.st # "est" => IsSegment(w, {"SYN", "ACK"}, x)
                             /\ way'[p] = Append(way[p], w)
    BY <1>9, <1>12, Zenon
  <2>. QED  BY <1>6, <1>11, <1>12, <1>a, <2>1, Zenon
<1>. QED  BY <1>3, <1>4, <1>11, <1>12, <1>13, <1>14, Zenon

LEMMA TcpTypedNext == ASSUME Tcp!TypeOK, Tcp!Next PROVE Tcp!TypeOK'
BY ConnectEffect, SendDataEffect, CloseEffect, ForwardEffect DEF Tcp!Next
-----------------------------------------------------------------------------
(* TCP: how far an orderly connection has come, and what the tracker knows *)
(* of it.  Until the FIN, packets under way are ACKs whose sequence        *)
(* numbers follow from one another: from the one that the receiver expects *)
(* to the next of the sender.  Without this the ACK of a FIN could not be  *)
(* shown to acknowledge the number that the tracker recorded.              *)
OrderlyEnds == ~Dsr /\ Orderly

D(k) == IF k = "fwd" THEN "IN" ELSE "OUT"
TcpEntry(e, s, fast) == e \in Tcp!Entry /\ e.owner = "fwd" /\ e.pi.state = s /\ e.fast = fast
NoFr(e) == ~e.fr["fwd"] /\ ~e.fr["rev"]
Same(a, b) == a % SEQ = b % SEQ
AckOf(n, m) == m.ack = (n + 1) % SEQ

After(m) == IF m.data THEN (m.seq + 1) % SEQ ELSE m.seq
Chain(q, a, b) ==
    /\ \A i \in 1 .. Len(q) : q[i].flags = {"ACK"}
    /\ q = <<>> => Same(a, b)
    /\ q # <<>> => /\ q[1].seq = a % SEQ
                   /\ \A i \in 1 .. Len(q) - 1 : q[i + 1].seq = After(q[i])
                   /\ b % SEQ = After(q[Len(q)])

Only(k, m) == m \in Tcp!Packet /\ way[k] = <<m>> /\ m.data = FALSE
Ends2(f, r) == end["fwd"].st = f /\ end["rev"].st = r
Unclosed(k) == ~end[k].finSent /\ ~end[k].finRcvd

Idle0 ==
    /\ Ends2("closed", "listen") /\ Unclosed("fwd") /\ Unclosed("rev") /\ ct = NoEntry /\ ~wasFast
    /\ way["fwd"] = <<>> /\ way["rev"] = <<>>
Calling ==
    /\ Ends2("synsent", "listen") /\ Unclosed("fwd") /\ Unclosed("rev") /\ ct = NoEntry /\ ~wasFast
    /\ way["rev"] = <<>>
    /\ \E m : Only("fwd", m) /\ m.flags = {"SYN"} /\ Same(end["fwd"].nxt, m.seq + 1)
Called ==
    /\ Ends2("synsent", "synrcvd") /\ Unclosed("fwd") /\ Unclosed("rev")
    /\ TcpEntry(ct, "SS", FALSE) /\ NoFr(ct)
    /\ way["fwd"] = <<>> /\ Same(end["fwd"].nxt, end["rev"].rcv)
    /\ \E m : /\ Only("rev", m) /\ m.flags = {"SYN", "ACK"} /\ AckOf(ct.pi.seq["IN"], m)
              /\ Same(end["rev"].nxt, m.seq + 1)
Accepting ==
    /\ Ends2("est", "synrcvd") /\ Unclosed("fwd") /\ Unclosed("rev")
    /\ TcpEntry(ct, "SA", FALSE) /\ NoFr(ct)
    /\ way["rev"] = <<>> /\ Same(end["rev"].nxt, end["fwd"].rcv)
    /\ Same(ct.pi.seq["OUT"] + 1, end["fwd"].rcv)
    /\ way["fwd"] # <<>> /\ Chain(way["fwd"], end["rev"].rcv, end["fwd"].nxt)
    /\ \A i \in 1 .. Len(way["fwd"]) : AckOf(ct.pi.seq["OUT"], way["fwd"][i])
Talking ==
    /\ Ends2("est", "est") /\ Unclosed("fwd") /\ Unclosed("rev")
    /\ TcpEntry(ct, "EST", TRUE) /\ NoFr(ct)
    /\ Chain(way["fwd"], end["rev"].rcv, end["fwd"].nxt)
    /\ Chain(way["rev"], end["fwd"].rcv, end["rev"].nxt)
\* k closes first, and p after it.
Closing1(k, p) ==
    /\ Ends2("est", "est") /\ end[k].finSent /\ ~end[k].finRcvd /\ Unclosed(p)
    /\ TcpEntry(ct, "EST", TRUE) /\ NoFr(ct)
    /\ way[p] = <<>> /\ Same(end[p].nxt, end[k].rcv)
    /\ \E m : Only(k, m) /\ m.flags = {"FIN", "ACK"} /\ Same(m.seq, end[p].rcv)
HalfClosed(k, p) ==
    /\ Ends2("est", "est") /\ end[k].finSent /\ ~end[k].finRcvd /\ ~end[p].finSent /\ end[p].finRcvd
    /\ TcpEntry(ct, "FINI", TRUE) /\ ct.pi.fndir = D(k) /\ ct.fr[k] /\ ~ct.fr[p]
    /\ way[k] = <<>> /\ Same(end[p].nxt, end[k].rcv) /\ Same(ct.pi.seq[D(k)] + 1, end[p].rcv)
    /\ way[p] = <<>> \/ \E m : Only(p, m) /\ m.flags = {"ACK"}
Closing2(k, p) ==
    /\ Ends2("est", "est") /\ end[k].finSent /\ ~end[k].finRcvd /\ end[p].finSent /\ end[p].finRcvd
    /\ TcpEntry(ct, "FINI", TRUE) /\ ct.pi.fndir = D(k) /\ ct.fr[k] /\ ~ct.fr[p]
    /\ way[k] = <<>>
    /\ \E m : /\ Only(p, m) /\ m.flags = {"FIN", "ACK"} /\ AckOf(ct.pi.seq[D(k)], m)
              /\ Same(m.seq, end[k].rcv)
Acking(k, p) ==
    /\ Ends2("est", "est") /\ end[k].finSent /\ end[k].finRcvd /\ end[p].finSent /\ end[p].finRcvd
    /\ TcpEntry(ct, "FINI3", TRUE) /\ ct.pi.fndir = D(k) /\ ct.fr[k]
    /\ way[p] = <<>>
    /\ \E m : Only(k, m) /\ m.flags = {"ACK"} /\ AckOf(ct.pi.seq[D(p)], m)
Closed ==
    /\ Ends2("est", "est") /\ \A k \in {"fwd", "rev"} : end[k].finSent /\ end[k].finRcvd /\ way[k] = <<>>
    /\ ct = NoEntry

Closes(k, p) == Closing1(k, p) \/ HalfClosed(k, p) \/ Closing2(k, p) \/ Acking(k, p)
TcpPhase ==
    \/ Idle0 \/ Calling \/ Called \/ Accepting \/ Talking
    \/ Closes("fwd", "rev") \/ Closes("rev", "fwd") \/ Closed

(* The packets under way. *)
LEMMA ChainEmpty == \A a, b : Chain(<<>>, a, b) <=> Same(a, b)
BY DEF Chain

LEMMA ChainAppend ==
    ASSUME NEW q \in Seq(Tcp!Packet), NEW a \in Nat, NEW b \in Nat, Chain(q, a, b),
           NEW m \in Tcp!Packet, m.flags = {"ACK"}, m.seq = b % SEQ, NEW c \in Nat,
           m.data => c = b + 1, ~m.data => c = b
    PROVE  Chain(Append(q, m), a, c)
<1>. DEFINE r == Append(q, m)
            n == Len(q)
<1>1. n \in Nat /\ Len(r) = n + 1 /\ r[n + 1] = m /\ \A i \in 1 .. n : r[i] = q[i]  OBVIOUS
<1>2. r # <<>>  BY <1>1
<1>. HIDE DEF r
<1>3. \A i \in 1 .. n + 1 : r[i].flags = {"ACK"}
  <2>. TAKE i \in 1 .. n + 1
  <2>1. CASE i = n + 1  BY <1>1, <2>1
  <2>2. CASE i \in 1 .. n  BY <1>1, <2>2 DEF Chain
  <2>. QED  BY <1>1, <2>1, <2>2
<1>4. r[1].seq = a % SEQ
  <2>1. CASE q = <<>>
    <3>1. r[1] = m  BY <1>1, <2>1
    <3>2. a % SEQ = b % SEQ  BY <2>1 DEF Chain, Same
    <3>. QED  BY <3>1, <3>2
  <2>2. CASE q # <<>>
    <3>1. 1 \in 1 .. n  BY <1>1, <2>2
    <3>2. r[1] = q[1]  BY <1>1, <3>1
    <3>. QED  BY <2>2, <3>2 DEF Chain
  <2>. QED  BY <2>1, <2>2
<1>5. \A i \in 1 .. n : r[i + 1].seq = After(r[i])
  <2>. TAKE i \in 1 .. n
  <2>1. q # <<>> /\ r[i] = q[i]  BY <1>1
  <2>2. CASE i = n
    <3>1. r[i + 1].seq = b % SEQ  BY <1>1, <2>2
    <3>2. b % SEQ = After(q[n])  BY <2>1 DEF Chain
    <3>. QED  BY <2>1, <2>2, <3>1, <3>2
  <2>3. CASE i # n
    <3>1. i \in 1 .. n - 1 /\ i + 1 \in 1 .. n  BY <1>1, <2>3
    <3>2. r[i + 1] = q[i + 1]  BY <1>1, <3>1
    <3>3. q[i + 1].seq = After(q[i])  BY <2>1, <3>1 DEF Chain
    <3>. QED  BY <2>1, <3>2, <3>3
  <2>. QED  BY <2>2, <2>3
<1>6. c % SEQ = After(m)
  <2>1. CASE m.data
    <3>1. c % SEQ = ((b % SEQ) + 1) % SEQ  BY <2>1, SeqFacts
    <3>. QED  BY <2>1, <3>1 DEF After
  <2>2. CASE ~m.data  BY <2>2 DEF After
  <2>. QED  BY <2>1, <2>2
<1>7. Len(r) - 1 = n /\ Len(r) = n + 1 /\ r[Len(r)] = m  BY <1>1
<1>8. Chain(r, a, c)  BY <1>2, <1>3, <1>4, <1>5, <1>6, <1>7 DEF Chain
<1>. QED  BY <1>8 DEF r

LEMMA ChainTail ==
    ASSUME NEW q \in Seq(Tcp!Packet), NEW a \in Nat, NEW b \in Nat, Chain(q, a, b), q # <<>>,
           NEW c \in Nat, Head(q).data => c = a + 1, ~Head(q).data => c = a
    PROVE  Chain(Tail(q), c, b)
<1>. DEFINE r == Tail(q)
            n == Len(q)
<1>1. /\ n \in Nat /\ n > 0 /\ Len(r) = n - 1 /\ \A i \in 1 .. n - 1 : r[i] = q[i + 1]
      /\ Head(q) = q[1] /\ (r = <<>> <=> n = 1)
  <2>1. n \in Nat /\ n > 0 /\ r \in Seq(Tcp!Packet) /\ Head(q) = q[1]  OBVIOUS
  <2>2. Len(r) = n - 1 /\ \A i \in 1 .. n - 1 : r[i] = q[i + 1]  OBVIOUS
  <2>. HIDE DEF r
  <2>3. r = <<>> <=> Len(r) = 0  BY <2>1
  <2>4. n - 1 = 0 <=> n = 1  BY <2>1
  <2>. QED  BY <2>1, <2>2, <2>3, <2>4
<1>. HIDE DEF r
<1>2. c % SEQ = After(q[1])
  <2>0. q[1].seq = a % SEQ  BY DEF Chain
  <2>1. CASE q[1].data
    <3>1. c % SEQ = ((a % SEQ) + 1) % SEQ  BY <1>1, <2>1, SeqFacts
    <3>. QED  BY <2>0, <2>1, <3>1 DEF After
  <2>2. CASE ~q[1].data  BY <1>1, <2>0, <2>2 DEF After
  <2>. QED  BY <2>1, <2>2
<1>3. \A i \in 1 .. n - 1 : r[i].flags = {"ACK"}  BY <1>1 DEF Chain
<1>4. CASE n = 1
  <2>1. b % SEQ = After(q[1])  BY <1>4 DEF Chain
  <2>2. r = <<>> /\ Len(r) = 0  BY <1>1, <1>4
  <2>. QED  BY <1>2, <2>1, <2>2, ChainEmpty DEF Same, r
<1>5. CASE n # 1
  <2>1. r[1] = q[2] /\ q[2].seq = After(q[1])
    <3>1. 1 \in 1 .. n - 1 /\ 1 + 1 = 2  BY <1>1, <1>5
    <3>2. q[1 + 1].seq = After(q[1])  BY <3>1 DEF Chain
    <3>. QED  BY <1>1, <3>1, <3>2
  <2>2. \A i \in 1 .. (n - 1) - 1 : r[i + 1].seq = After(r[i])
    <3>. TAKE i \in 1 .. (n - 1) - 1
    <3>1. i \in 1 .. n - 1 /\ i + 1 \in 1 .. n - 1 /\ (i + 1) + 1 = i + 2  BY <1>1
    <3>2. r[i] = q[i + 1] /\ r[i + 1] = q[(i + 1) + 1]  BY <1>1, <3>1
    <3>3. q[(i + 1) + 1].seq = After(q[i + 1])  BY <3>1 DEF Chain
    <3>. QED  BY <3>2, <3>3
  <2>3. b % SEQ = After(r[n - 1])
    <3>1. n - 1 \in 1 .. n - 1 /\ (n - 1) + 1 = n  BY <1>1, <1>5
    <3>2. r[n - 1] = q[n]  BY <1>1, <3>1
    <3>3. b % SEQ = After(q[n])  BY DEF Chain
    <3>. QED  BY <3>2, <3>3
  <2>4. r # <<>> /\ Len(r) = n - 1  BY <1>1, <1>5
  <2>5. Chain(r, c, b)  BY <1>2, <1>3, <2>1, <2>2, <2>3, <2>4 DEF Chain
  <2>. QED  BY <2>5 DEF r
<1>. QED  BY <1>4, <1>5

-----------------------------------------------------------------------------
(* What the tracker makes of each packet of an orderly connection. *)
Says(m, s, a, f) == (Tcp!Syn(m) <=> s) /\ (Tcp!Ack(m) <=> a) /\ (Tcp!Fin(m) <=> f) /\ "RST" \notin m.flags
LEMMA FlagFacts ==
    \A m : /\ m.flags = {"SYN"} => Says(m, TRUE, FALSE, FALSE)
           /\ m.flags = {"SYN", "ACK"} => Says(m, TRUE, TRUE, FALSE)
           /\ m.flags = {"ACK"} => Says(m, FALSE, TRUE, FALSE)
           /\ m.flags = {"FIN", "ACK"} => Says(m, FALSE, TRUE, TRUE)
BY DEF Says, Tcp!Syn, Tcp!Ack, Tcp!Fin

LEMMA KeepRecord ==
    \A s : /\ Tcp!Keep(s).state = s /\ ~Tcp!Keep(s).record
           /\ Tcp!Record(s).state = s /\ Tcp!Record(s).record
BY DEF Tcp!Keep, Tcp!Record

LEMMA DirFacts ==
    /\ D("fwd") = "IN" /\ D("rev") = "OUT" /\ Tcp!Other("IN") = "OUT" /\ Tcp!Other("OUT") = "IN"
    /\ Tcp!Dirs = {"IN", "OUT"}
BY DEF D, Tcp!Other, Tcp!Dirs

LEMMA TcpEntryIs == \A e, s, f : TcpEntry(e, s, f) => e # NoEntry /\ e \in Tcp!Entry
BY SessionsAssumption DEF TcpEntry

LEMMA TrackSyn ==
    ASSUME Tcp!TypeOK, ~Dsr, ct = NoEntry, NEW m \in Tcp!Packet, m.flags = {"SYN"},
           NEW T, T = Tcp!Tracked("fwd", m)
    PROVE  TcpEntry(T, "SS", FALSE) /\ NoFr(T) /\ T.pi.seq["IN"] = m.seq
<1>1. PICK old, d, mv : old = TcpOld("fwd", m) /\ d = TcpDir("fwd", m) /\ mv = TcpMoved("fwd", m)  OBVIOUS
<1>2. Tracks("fwd", m, old, d, mv, T)  BY <1>1, TcpTracked, EndFacts, Zenon
<1>3. /\ old \in Tcp!Entry /\ old.pi = Tcp!Tcp0 /\ old.owner = "fwd" /\ old.fast = FALSE
      /\ old.fr = [x \in Tcp!Ends |-> FALSE]
  <2>1. "fwd" \in Tcp!Ends  BY EndFacts
  <2>2. /\ TcpOld("fwd", m) \in Tcp!Entry /\ TcpOld("fwd", m).pi = Tcp!Tcp0 /\ TcpOld("fwd", m).owner = "fwd"
        /\ TcpOld("fwd", m).fast = FALSE /\ TcpOld("fwd", m).fr = [x \in Tcp!Ends |-> FALSE]
    BY <2>1, TcpOldTyped, Zenon
  <2>. QED  BY <1>1, <2>2, Zenon
<1>4. d = "IN"  BY <1>1, <1>3 DEF TcpDir
<1>5. mv = Tcp!TcpMove(old.pi, m, "IN")  BY <1>1, <1>4 DEF TcpMoved
<1>6. old.pi.state = "CLOSED" /\ old.pi.seq = [x \in Tcp!Dirs |-> 0]  BY <1>3 DEF Tcp!Tcp0
<1>7. Says(m, TRUE, FALSE, FALSE)  BY FlagFacts
<1>8. mv = Tcp!TcpClosed(old.pi, m, "IN")  BY <1>5, <1>6, <1>7, Zenon DEF Tcp!TcpMove, Says
<1>9. Tcp!TcpClosed(old.pi, m, "IN") = Tcp!Record("SS")  BY <1>7, Zenon DEF Tcp!TcpClosed, Says
<1>10. mv.state = "SS" /\ mv.record  BY <1>8, <1>9, KeepRecord
<1>11. /\ T \in Tcp!Entry /\ T.owner = "fwd" /\ T.fr = old.fr /\ ~T.fast /\ T.pi.state = "SS"
       /\ T.pi.seq = [old.pi.seq EXCEPT !["IN"] = m.seq]
  BY <1>2, <1>3, <1>4, <1>10 DEF Tracks
<1>12. T.pi.seq["IN"] = m.seq  BY <1>6, <1>11, DirFacts
<1>13. NoFr(T)  BY <1>3, <1>11, EndFacts DEF NoFr
<1>14. T.fast = FALSE  BY <1>11 DEF Tcp!Entry
<1>. QED  BY <1>11, <1>12, <1>13, <1>14 DEF TcpEntry

Knows(k, m, e, old, T) ==
    /\ Tracks(k, m, old, D(k), Tcp!TcpMove(e.pi, m, D(k)), T)
    /\ old \in Tcp!Entry /\ old.pi = e.pi /\ old.owner = "fwd" /\ old.fast = e.fast
    /\ old.fr[k] = (e.fr[k] \/ (e.fast /\ Tcp!Fin(m)))
    /\ \A x \in Tcp!Ends \ {k} : old.fr[x] = e.fr[x]
LEMMA TrackKnown ==
    ASSUME Tcp!TypeOK, NEW k \in Tcp!Ends, NEW m \in Tcp!Packet, NEW e, e = ct, e \in Tcp!Entry,
           e.owner = "fwd", NEW T, T = Tcp!Tracked(k, m)
    PROVE  \E old : Knows(k, m, e, old, T)
<1>1. PICK old, d, mv : old = TcpOld(k, m) /\ d = TcpDir(k, m) /\ mv = TcpMoved(k, m)  OBVIOUS
<1>2. Tracks(k, m, old, d, mv, T)  BY <1>1, TcpTracked, Zenon
<1>3. /\ old \in Tcp!Entry /\ old.pi = e.pi /\ old.owner = "fwd" /\ old.fast = e.fast
      /\ old.fr[k] = (e.fr[k] \/ (e.fast /\ Tcp!Fin(m)))
      /\ \A x \in Tcp!Ends \ {k} : old.fr[x] = e.fr[x]
  <2>1. ct # NoEntry  BY SessionsAssumption
  <2>. QED  BY <1>1, <2>1, TcpOldTyped, Zenon
<1>4. d = D(k)  BY <1>1, <1>3, EndFacts DEF TcpDir, D
<1>5. mv = Tcp!TcpMove(e.pi, m, D(k))  BY <1>1, <1>3, <1>4 DEF TcpMoved
<1>6. Knows(k, m, e, old, T)  BY <1>2, <1>3, <1>4, <1>5 DEF Knows
<1>. QED  BY <1>6

LEMMA TrackSynAck ==
    ASSUME Tcp!TypeOK, NEW e, e = ct, TcpEntry(e, "SS", FALSE), NoFr(e),
           NEW m \in Tcp!Packet, m.flags = {"SYN", "ACK"}, AckOf(e.pi.seq["IN"], m),
           NEW T, T = Tcp!Tracked("rev", m)
    PROVE  TcpEntry(T, "SA", FALSE) /\ NoFr(T) /\ T.pi.seq["OUT"] = m.seq
<1>0. e \in Tcp!Entry /\ e.owner = "fwd" /\ e.fast = FALSE /\ e.pi.state = "SS"  BY DEF TcpEntry
<1>b. PICK old : Knows("rev", m, e, old, T)  BY <1>0, TrackKnown, EndFacts, Zenon
<1>1. /\ Tracks("rev", m, old, D("rev"), Tcp!TcpMove(e.pi, m, D("rev")), T)
      /\ old \in Tcp!Entry /\ old.pi = e.pi /\ old.owner = "fwd" /\ old.fast = e.fast
      /\ old.fr["rev"] = (e.fr["rev"] \/ (e.fast /\ Tcp!Fin(m)))
      /\ \A x \in Tcp!Ends \ {"rev"} : old.fr[x] = e.fr[x]
  BY <1>b, Zenon DEF Knows
<1>2. Says(m, TRUE, TRUE, FALSE)  BY FlagFacts
<1>3. PICK mv : mv = Tcp!TcpMove(e.pi, m, "OUT")  OBVIOUS
<1>4. Tcp!Acks(e.pi, m, "OUT")  BY DirFacts DEF AckOf, Tcp!Acks
<1>5. mv = Tcp!TcpSynSent(e.pi, m, "OUT")  BY <1>0, <1>2, <1>3, Zenon DEF Tcp!TcpMove, Says
<1>6. mv = Tcp!Record("SA")  BY <1>2, <1>4, <1>5 DEF Tcp!TcpSynSent, Says
<1>7. mv.state = "SA" /\ mv.record  BY <1>6, KeepRecord
<1>8. Tracks("rev", m, old, "OUT", mv, T)  BY <1>1, <1>3, DirFacts
<1>9. ~old.fast  BY <1>0, <1>1
<1>10. /\ T \in Tcp!Entry /\ T.owner = "fwd" /\ T.fr = old.fr /\ ~T.fast /\ T.pi.state = "SA"
       /\ T.pi.seq = [e.pi.seq EXCEPT !["OUT"] = m.seq]
  BY <1>1, <1>7, <1>8, <1>9 DEF Tracks
<1>11. e.pi.seq \in [Tcp!Dirs -> Nat]  BY <1>0 DEF Tcp!Entry, Tcp!Info
<1>12. T.pi.seq["OUT"] = m.seq  BY <1>10, <1>11, DirFacts
<1>13. NoFr(T)
  <2>1. ~old.fr["rev"]  BY <1>0, <1>1 DEF NoFr
  <2>2. ~old.fr["fwd"]  BY <1>1, EndFacts DEF NoFr
  <2>. QED  BY <1>10, <2>1, <2>2 DEF NoFr
<1>14. T.fast = FALSE  BY <1>10 DEF Tcp!Entry
<1>. QED  BY <1>10, <1>12, <1>13, <1>14 DEF TcpEntry

LEMMA TrackAck ==
    ASSUME Tcp!TypeOK, NEW e, e = ct, TcpEntry(e, "SA", FALSE), NoFr(e),
           NEW m \in Tcp!Packet, m.flags = {"ACK"}, AckOf(e.pi.seq["OUT"], m),
           NEW T, T = Tcp!Tracked("fwd", m)
    PROVE  TcpEntry(T, "EST", TRUE) /\ NoFr(T)
<1>0. e \in Tcp!Entry /\ e.owner = "fwd" /\ e.fast = FALSE /\ e.pi.state = "SA"  BY DEF TcpEntry
<1>b. PICK old : Knows("fwd", m, e, old, T)  BY <1>0, TrackKnown, EndFacts, Zenon
<1>1. /\ Tracks("fwd", m, old, D("fwd"), Tcp!TcpMove(e.pi, m, D("fwd")), T)
      /\ old \in Tcp!Entry /\ old.pi = e.pi /\ old.owner = "fwd" /\ old.fast = e.fast
      /\ old.fr["fwd"] = (e.fr["fwd"] \/ (e.fast /\ Tcp!Fin(m)))
      /\ \A x \in Tcp!Ends \ {"fwd"} : old.fr[x] = e.fr[x]
  BY <1>b, Zenon DEF Knows
<1>2. Says(m, FALSE, TRUE, FALSE)  BY FlagFacts
<1>3. PICK mv : mv = Tcp!TcpMove(e.pi, m, "IN")  OBVIOUS
<1>4. Tcp!Acks(e.pi, m, "IN")  BY DirFacts DEF AckOf, Tcp!Acks
<1>5. mv = Tcp!TcpSynAcked(e.pi, m, "IN")  BY <1>0, <1>2, <1>3, Zenon DEF Tcp!TcpMove, Says
<1>6. mv = Tcp!Record("EST")  BY <1>2, <1>4, <1>5, Zenon DEF Tcp!TcpSynAcked, Says
<1>7. mv.state = "EST" /\ mv.record  BY <1>6, KeepRecord
<1>8. Tracks("fwd", m, old, "IN", mv, T)  BY <1>1, <1>3, DirFacts
<1>9. ~old.fast  BY <1>0, <1>1
<1>10. T \in Tcp!Entry /\ T.owner = "fwd" /\ T.fr = old.fr /\ T.fast /\ T.pi.state = "EST"
  BY <1>1, <1>7, <1>8, <1>9 DEF Tracks
<1>13. NoFr(T)
  <2>1. ~old.fr["fwd"]  BY <1>0, <1>1 DEF NoFr
  <2>2. ~old.fr["rev"]  BY <1>1, EndFacts DEF NoFr
  <2>. QED  BY <1>10, <2>1, <2>2 DEF NoFr
<1>14. T.fast = TRUE  BY <1>10 DEF Tcp!Entry
<1>. QED  BY <1>10, <1>13, <1>14 DEF TcpEntry

(* The tracker, with the entries e, makes T of a packet m of k to p. *)
Sees(k, p, e, m, T) ==
    /\ k \in Tcp!Ends /\ p \in Tcp!Ends /\ p # k /\ m \in Tcp!Packet
    /\ e = ct /\ T = Tcp!Tracked(k, m)

(* A packet without FIN of a connection marked established. *)
Unmoved(e, T, s) ==
    TcpEntry(T, s, TRUE) /\ T.pi = e.pi /\ T.fr["fwd"] = e.fr["fwd"] /\ T.fr["rev"] = e.fr["rev"]
LEMMA TrackFast ==
    ASSUME Tcp!TypeOK, NEW k, NEW p, NEW e, NEW m, NEW T, Sees(k, p, e, m, T),
           NEW s, TcpEntry(e, s, TRUE), ~e.fr[k], ~Tcp!Fin(m)
    PROVE  Unmoved(e, T, s)
<1>. USE DEF Sees
<1>0. e \in Tcp!Entry /\ e.owner = "fwd" /\ e.fast = TRUE /\ e.pi.state = s  BY DEF TcpEntry
<1>b. PICK old : Knows(k, m, e, old, T)  BY <1>0, TrackKnown, Zenon
<1>1. /\ Tracks(k, m, old, D(k), Tcp!TcpMove(e.pi, m, D(k)), T)
      /\ old \in Tcp!Entry /\ old.pi = e.pi /\ old.owner = "fwd" /\ old.fast = e.fast
      /\ old.fr[k] = (e.fr[k] \/ (e.fast /\ Tcp!Fin(m)))
      /\ \A x \in Tcp!Ends \ {k} : old.fr[x] = e.fr[x]
  BY <1>b, Zenon DEF Knows
<1>2. e.fr \in [Tcp!Ends -> BOOLEAN]  BY <1>0 DEF Tcp!Entry
<1>3. old.fast /\ ~old.fr[k] /\ old.fr[k] = e.fr[k]
  <2>1. e.fr[k] = FALSE  BY <1>2
  <2>. QED  BY <1>0, <1>1, <2>1
<1>4. T = old  BY <1>1, <1>3, Zenon DEF Tracks
<1>5. \A x \in Tcp!Ends : T.fr[x] = e.fr[x]  BY <1>1, <1>3, <1>4
<1>. QED  BY <1>0, <1>1, <1>4, <1>5, EndFacts DEF TcpEntry, Unmoved

(* The FIN of the end that closes first, and of the other one. *)
FinSeen(T, k, p, m) ==
    /\ TcpEntry(T, "FINI", TRUE) /\ T.pi.fndir = D(k) /\ T.fr[k] /\ ~T.fr[p]
    /\ T.pi.seq[D(k)] = m.seq
LEMMA TrackFin1 ==
    ASSUME Tcp!TypeOK, NEW k, NEW p, NEW e, NEW m, NEW T, Sees(k, p, e, m, T),
           TcpEntry(e, "EST", TRUE), NoFr(e), m.flags = {"FIN", "ACK"}
    PROVE  FinSeen(T, k, p, m)
<1>. USE DEF Sees
<1>0. e \in Tcp!Entry /\ e.owner = "fwd" /\ e.fast = TRUE /\ e.pi.state = "EST"  BY DEF TcpEntry
<1>b. PICK old : Knows(k, m, e, old, T)  BY <1>0, TrackKnown, Zenon
<1>1. /\ Tracks(k, m, old, D(k), Tcp!TcpMove(e.pi, m, D(k)), T)
      /\ old \in Tcp!Entry /\ old.pi = e.pi /\ old.owner = "fwd" /\ old.fast = e.fast
      /\ old.fr[k] = (e.fr[k] \/ (e.fast /\ Tcp!Fin(m)))
      /\ \A x \in Tcp!Ends \ {k} : old.fr[x] = e.fr[x]
  BY <1>b, Zenon DEF Knows
<1>2. Says(m, FALSE, TRUE, TRUE)  BY FlagFacts
<1>3. PICK d, mv : d = D(k) /\ mv = Tcp!TcpMove(e.pi, m, d)  OBVIOUS
<1>6. mv = Tcp!Record("FINI")  BY <1>0, <1>2, <1>3, Zenon DEF Tcp!TcpMove, Says
<1>7. mv.state = "FINI" /\ mv.record  BY <1>6, KeepRecord
<1>8. Tracks(k, m, old, d, mv, T)  BY <1>1, <1>3
<1>9. old.fr[k]  BY <1>0, <1>1, <1>2 DEF Says
<1>10. /\ T \in Tcp!Entry /\ T.owner = "fwd" /\ T.fr = old.fr /\ T.fast /\ T.pi.state = "FINI"
       /\ T.pi.fndir = d /\ T.pi.seq = [e.pi.seq EXCEPT ![d] = m.seq]
  BY <1>0, <1>1, <1>7, <1>8, <1>9 DEF Tracks
<1>11. e.pi.seq \in [Tcp!Dirs -> Nat]  BY <1>0 DEF Tcp!Entry, Tcp!Info
<1>12. T.pi.seq[d] = m.seq  BY <1>3, <1>10, <1>11, DirFacts DEF D
<1>13. ~T.fr[p]  BY <1>1, <1>10, EndFacts DEF NoFr
<1>14. T.fast = TRUE  BY <1>10 DEF Tcp!Entry
<1>. QED  BY <1>3, <1>9, <1>10, <1>12, <1>13, <1>14 DEF TcpEntry, FinSeen

BothFinSeen(T, k, p, m) ==
    TcpEntry(T, "FINI3", TRUE) /\ T.pi.fndir = D(k) /\ T.fr[k] /\ T.pi.seq[D(p)] = m.seq
LEMMA TrackFin2 ==
    ASSUME Tcp!TypeOK, NEW k, NEW p, NEW e, NEW m, NEW T, Sees(p, k, e, m, T),
           TcpEntry(e, "FINI", TRUE), e.pi.fndir = D(k), e.fr[k],
           m.flags = {"FIN", "ACK"}, AckOf(e.pi.seq[D(k)], m)
    PROVE  BothFinSeen(T, k, p, m)
<1>. USE DEF Sees
<1>0. e \in Tcp!Entry /\ e.owner = "fwd" /\ e.fast = TRUE /\ e.pi.state = "FINI"  BY DEF TcpEntry
<1>b. PICK old : Knows(p, m, e, old, T)  BY <1>0, TrackKnown, Zenon
<1>1. /\ Tracks(p, m, old, D(p), Tcp!TcpMove(e.pi, m, D(p)), T)
      /\ old \in Tcp!Entry /\ old.pi = e.pi /\ old.owner = "fwd" /\ old.fast = e.fast
      /\ old.fr[p] = (e.fr[p] \/ (e.fast /\ Tcp!Fin(m)))
      /\ \A x \in Tcp!Ends \ {p} : old.fr[x] = e.fr[x]
  BY <1>b, Zenon DEF Knows
<1>2. Says(m, FALSE, TRUE, TRUE)  BY FlagFacts
<1>3. PICK d, mv : d = D(p) /\ mv = Tcp!TcpMove(e.pi, m, d)  OBVIOUS
<1>4. d # e.pi.fndir /\ Tcp!Other(d) = D(k) /\ d \in Tcp!Dirs  BY <1>3, EndFacts, DirFacts
<1>a. Tcp!Acks(e.pi, m, d)  BY <1>4 DEF AckOf, Tcp!Acks
<1>5. mv = Tcp!TcpFini(e.pi, m, d)  BY <1>0, <1>2, <1>3, Zenon DEF Tcp!TcpMove, Says
<1>6. mv = Tcp!Record("FINI3")  BY <1>2, <1>4, <1>a, <1>5, Zenon DEF Tcp!TcpFini, Says
<1>7. mv.state = "FINI3" /\ mv.record  BY <1>6, KeepRecord
<1>8. Tracks(p, m, old, d, mv, T)  BY <1>1, <1>3
<1>9. old.fr[p] /\ old.fr[k]  BY <1>0, <1>1, <1>2 DEF Says
<1>10. /\ T \in Tcp!Entry /\ T.owner = "fwd" /\ T.fr = old.fr /\ T.fast /\ T.pi.state = "FINI3"
       /\ T.pi.fndir = e.pi.fndir /\ T.pi.seq = [e.pi.seq EXCEPT ![d] = m.seq]
  BY <1>0, <1>1, <1>7, <1>8, <1>9 DEF Tracks
<1>11. e.pi.seq \in [Tcp!Dirs -> Nat]  BY <1>0 DEF Tcp!Entry, Tcp!Info
<1>12. T.pi.seq[d] = m.seq  BY <1>4, <1>10, <1>11
<1>14. T.fast = TRUE  BY <1>10 DEF Tcp!Entry
<1>. QED  BY <1>3, <1>9, <1>10, <1>12, <1>14 DEF TcpEntry, BothFinSeen

LEMMA TrackLast ==
    ASSUME Tcp!TypeOK, NEW k, NEW p, NEW e, NEW m, NEW T, Sees(k, p, e, m, T),
           TcpEntry(e, "FINI3", TRUE), e.pi.fndir = D(k), e.fr[k],
           m.flags = {"ACK"}, AckOf(e.pi.seq[D(p)], m)
    PROVE  T = NoEntry
<1>. USE DEF Sees
<1>0. e \in Tcp!Entry /\ e.owner = "fwd" /\ e.fast = TRUE /\ e.pi.state = "FINI3"  BY DEF TcpEntry
<1>b. PICK old : Knows(k, m, e, old, T)  BY <1>0, TrackKnown, Zenon
<1>1. /\ Tracks(k, m, old, D(k), Tcp!TcpMove(e.pi, m, D(k)), T)
      /\ old \in Tcp!Entry /\ old.pi = e.pi /\ old.owner = "fwd" /\ old.fast = e.fast
      /\ old.fr[k] = (e.fr[k] \/ (e.fast /\ Tcp!Fin(m)))
      /\ \A x \in Tcp!Ends \ {k} : old.fr[x] = e.fr[x]
  BY <1>b, Zenon DEF Knows
<1>2. Says(m, FALSE, TRUE, FALSE)  BY FlagFacts
<1>3. PICK d, mv : d = D(k) /\ mv = Tcp!TcpMove(e.pi, m, d)  OBVIOUS
<1>4. d = e.pi.fndir /\ Tcp!Other(d) = D(p)  BY <1>3, EndFacts, DirFacts
<1>a. Tcp!Acks(e.pi, m, d)  BY <1>4 DEF AckOf, Tcp!Acks
<1>5. mv = Tcp!TcpFini3(e.pi, m, d)  BY <1>0, <1>2, <1>3, Zenon DEF Tcp!TcpMove, Says
<1>6. mv = Tcp!Keep("CW")  BY <1>2, <1>4, <1>a, <1>5, Zenon DEF Tcp!TcpFini3, Says
<1>7. mv.state = "CW"  BY <1>6, KeepRecord
<1>8. Tracks(k, m, old, d, mv, T)  BY <1>1, <1>3
<1>9. old.fr[k]  BY <1>1
<1>. QED  BY <1>7, <1>8, <1>9 DEF Tracks

-----------------------------------------------------------------------------
(* The steps of an orderly connection from phase to phase. *)
LEMMA TcpValues ==
    ASSUME Tcp!TypeOK, NEW k \in Tcp!Ends
    PROVE  /\ end[k] \in Tcp!Endpoint /\ end[k].nxt \in Nat /\ end[k].rcv \in Nat
           /\ way[k] \in Seq(Tcp!Packet)
<1>1. end[k] \in Tcp!Endpoint /\ way[k] \in Seq(Tcp!Packet)  BY DEF Tcp!TypeOK
<1>. QED  BY <1>1 DEF Tcp!Endpoint

LEMMA TcpPhaseInit == ASSUME Tcp!Init PROVE TcpPhase
<1>1. PICK isn \in [Tcp!Ends -> Tcp!ISNs] :
         end = [k \in Tcp!Ends |-> [st |-> IF k = "fwd" THEN "closed" ELSE "listen",
                                    nxt |-> isn[k], rcv |-> 0, acked |-> 0,
                                    finSent |-> FALSE, finRcvd |-> FALSE, sent |-> 0]]
  BY DEF Tcp!Init
<1>2. ct = NoEntry /\ ~wasFast /\ way["fwd"] = <<>> /\ way["rev"] = <<>>  BY EndFacts DEF Tcp!Init
<1>3. Ends2("closed", "listen") /\ Unclosed("fwd") /\ Unclosed("rev")  BY <1>1, EndFacts DEF Ends2, Unclosed
<1>. QED  BY <1>2, <1>3 DEF TcpPhase, Idle0

LEMMA PhaseOfConnect == ASSUME Tcp!TypeOK, TcpPhase, Tcp!Connect PROVE TcpPhase'
<1>1. /\ ct' = ct /\ wasFast' = wasFast /\ end["fwd"].st = "closed"
      /\ end'["rev"] = end["rev"] /\ way'["rev"] = way["rev"]
      /\ end'["fwd"] = [end["fwd"] EXCEPT !.st = "synsent", !.nxt = @ + 1]
      /\ way'["fwd"] = Append(way["fwd"], Tcp!Segment({"SYN"}, end["fwd"]))
  BY ConnectEffect
<1>2. Idle0
  BY <1>1 DEF TcpPhase, Calling, Called, Accepting, Talking, Closes, Closing1, HalfClosed, Closing2, Acking,
              Closed, Ends2
<1>3. PICK e, m : e = end["fwd"] /\ m = Tcp!Segment({"SYN"}, end["fwd"])  OBVIOUS
<1>4. e \in Tcp!Endpoint /\ e.nxt \in Nat  BY <1>3, TcpValues, EndFacts
<1>5. IsSegment(m, {"SYN"}, e)
  <2>1. {"SYN"} \in SUBSET Flags  BY DEF Flags
  <2>. QED  BY <1>3, <1>4, <2>1, SegmentFacts, Zenon
<1>6. m \in Tcp!Packet /\ m.flags = {"SYN"} /\ m.data = FALSE /\ m.seq = e.nxt % SEQ  BY <1>5 DEF IsSegment
<1>7. /\ end'["fwd"].st = "synsent" /\ end'["fwd"].nxt = e.nxt + 1
      /\ end'["fwd"].finSent = e.finSent /\ end'["fwd"].finRcvd = e.finRcvd
  BY <1>1, <1>3, <1>4 DEF Tcp!Endpoint
<1>8. (end["fwd"].nxt)' % SEQ = (m.seq + 1) % SEQ  BY <1>4, <1>6, <1>7, SeqFacts
<1>9. way'["fwd"] = <<m>>  BY <1>1, <1>2, <1>3, OneElement DEF Idle0
<1>10. Calling'
  <2>1. (\E n : Only("fwd", n) /\ n.flags = {"SYN"} /\ Same(end["fwd"].nxt, n.seq + 1))'
    <3>1. (Only("fwd", m) /\ m.flags = {"SYN"} /\ Same(end["fwd"].nxt, m.seq + 1))'
      BY <1>6, <1>8, <1>9 DEF Only, Same
    <3>. QED  BY <3>1
  <2>. QED  BY <1>1, <1>2, <1>3, <1>7, <2>1 DEF Calling, Idle0, Ends2, Unclosed
<1>. QED  BY <1>10 DEF TcpPhase

LEMMA PhaseOfData ==
    ASSUME Tcp!TypeOK, TcpPhase, OrderlyEnds, NEW k \in Tcp!Ends, Tcp!SendData(k)
    PROVE  TcpPhase'
<1>1. /\ ct' = ct /\ wasFast' = wasFast /\ end[k].st = "est"
      /\ \A x \in Tcp!Ends : ~end[x].finSent
      /\ \A x \in Tcp!Ends \ {k} : end'[x] = end[x] /\ way'[x] = way[x]
      /\ end'[k] = [end[k] EXCEPT !.nxt = @ + 1, !.sent = @ + 1]
  BY SendDataEffect DEF OrderlyEnds
<1>2. PICK m \in Tcp!Packet : /\ m.flags = {"ACK"} /\ m.seq = end[k].nxt % SEQ
                              /\ m.ack = end[k].rcv % SEQ /\ m.data = TRUE
                              /\ way'[k] = Append(way[k], m)
  BY SendDataEffect
<1>3. (Accepting /\ k = "fwd") \/ Talking
  BY <1>1, EndFacts DEF TcpPhase, Idle0, Calling, Called, Accepting, Closes, Closing1, HalfClosed, Closing2,
                        Acking, Closed, Ends2
<1>4. PICK e, q, n : e = end[k] /\ q = way[k] /\ n = e.nxt + 1  OBVIOUS
<1>5. e \in Tcp!Endpoint /\ e.nxt \in Nat /\ e.rcv \in Nat /\ n \in Nat /\ q \in Seq(Tcp!Packet)
  BY <1>4, TcpValues
<1>6. /\ end'[k].st = "est" /\ end'[k].nxt = n /\ end'[k].rcv = e.rcv
      /\ end'[k].finSent = e.finSent /\ end'[k].finRcvd = e.finRcvd
  BY <1>1, <1>4, <1>5 DEF Tcp!Endpoint
<1>7. \A a \in Nat : Chain(q, a, e.nxt) => Chain(Append(q, m), a, n)
  BY <1>2, <1>4, <1>5, ChainAppend
<1>8. CASE Accepting /\ k = "fwd"
  <2>1. way'["fwd"] = Append(q, m) /\ end["rev"].rcv \in Nat /\ end'["rev"] = end["rev"] /\ way'["rev"] = way["rev"]
    BY <1>1, <1>2, <1>4, <1>8, TcpValues, EndFacts
  <2>2. Chain(Append(q, m), end["rev"].rcv, n)  BY <1>4, <1>7, <1>8, <2>1 DEF Accepting
  <2>3. AckOf(ct.pi.seq["OUT"], m)
    <3>1. (ct.pi.seq["OUT"] + 1) % SEQ = e.rcv % SEQ  BY <1>4, <1>8 DEF Accepting, Same
    <3>. QED  BY <1>2, <1>4, <3>1 DEF AckOf
  <2>4. \A i \in 1 .. Len(Append(q, m)) : AckOf(ct.pi.seq["OUT"], Append(q, m)[i])
    <3>1. \A i \in 1 .. Len(q) : AckOf(ct.pi.seq["OUT"], q[i])  BY <1>4, <1>8 DEF Accepting
    <3>2. Len(q) \in Nat /\ Len(Append(q, m)) = Len(q) + 1  BY <1>5
    <3>3. \A i \in 1 .. Len(q) + 1 : Append(q, m)[i] = IF i <= Len(q) THEN q[i] ELSE m  BY <1>5
    <3>4. \A i \in 1 .. Len(q) + 1 : i <= Len(q) => i \in 1 .. Len(q)  BY <3>2
    <3>. QED  BY <2>3, <3>1, <3>2, <3>3, <3>4
  <2>5. Append(q, m) # <<>>
    <3>1. Len(q) \in Nat /\ Len(Append(q, m)) = Len(q) + 1  BY <1>5
    <3>. QED  BY <3>1
  <2>6. Accepting'
    <3>1. /\ Ends2("est", "synrcvd") /\ Unclosed("fwd") /\ Unclosed("rev")
          /\ TcpEntry(ct, "SA", FALSE) /\ NoFr(ct)
          /\ way["rev"] = <<>> /\ Same(end["rev"].nxt, end["fwd"].rcv)
          /\ Same(ct.pi.seq["OUT"] + 1, end["fwd"].rcv)
      BY <1>8 DEF Accepting
    <3>2. (Ends2("est", "synrcvd") /\ Unclosed("fwd") /\ Unclosed("rev"))'
      BY <1>4, <1>6, <1>8, <2>1, <3>1 DEF Ends2, Unclosed
    <3>3. (/\ TcpEntry(ct, "SA", FALSE) /\ NoFr(ct)
           /\ way["rev"] = <<>> /\ Same(end["rev"].nxt, end["fwd"].rcv)
           /\ Same(ct.pi.seq["OUT"] + 1, end["fwd"].rcv))'
      BY <1>1, <1>4, <1>6, <1>8, <2>1, <3>1 DEF Same, TcpEntry, NoFr
    <3>4. (way["fwd"] # <<>> /\ Chain(way["fwd"], end["rev"].rcv, end["fwd"].nxt))'
      BY <1>6, <1>8, <2>1, <2>2, <2>5
    <3>5. (\A i \in 1 .. Len(way["fwd"]) : AckOf(ct.pi.seq["OUT"], way["fwd"][i]))'
      BY <1>1, <2>1, <2>4 DEF AckOf
    <3>. QED  BY <3>2, <3>3, <3>4, <3>5 DEF Accepting
  <2>. QED  BY <2>6 DEF TcpPhase
<1>9. CASE Talking
  <2>1. (Ends2("est", "est") /\ Unclosed("fwd") /\ Unclosed("rev"))'
    BY <1>1, <1>4, <1>6, <1>9, EndFacts DEF Talking, Ends2, Unclosed
  <2>2. (TcpEntry(ct, "EST", TRUE) /\ NoFr(ct))'
    BY <1>1, <1>9 DEF Talking, TcpEntry, NoFr
  <2>3. way'[k] = Append(q, m)  BY <1>2, <1>4
  <2>4. CASE k = "fwd"
    <3>1. end'["rev"] = end["rev"] /\ way'["rev"] = way["rev"] /\ end["rev"].rcv \in Nat
      BY <1>1, <2>4, TcpValues, EndFacts
    <3>2. Chain(q, end["rev"].rcv, e.nxt) /\ Chain(way["rev"], end["fwd"].rcv, end["rev"].nxt)
      BY <1>4, <1>9, <2>4 DEF Talking
    <3>3. Chain(Append(q, m), end["rev"].rcv, n)  BY <1>7, <3>1, <3>2
    <3>4. Talking'  BY <1>4, <1>6, <2>1, <2>2, <2>3, <2>4, <3>1, <3>2, <3>3 DEF Talking
    <3>. QED  BY <3>4 DEF TcpPhase
  <2>5. CASE k = "rev"
    <3>1. end'["fwd"] = end["fwd"] /\ way'["fwd"] = way["fwd"] /\ end["fwd"].rcv \in Nat
      BY <1>1, <2>5, TcpValues, EndFacts
    <3>2. Chain(q, end["fwd"].rcv, e.nxt) /\ Chain(way["fwd"], end["rev"].rcv, end["fwd"].nxt)
      BY <1>4, <1>9, <2>5 DEF Talking
    <3>3. Chain(Append(q, m), end["fwd"].rcv, n)  BY <1>7, <3>1, <3>2
    <3>4. Talking'  BY <1>4, <1>6, <2>1, <2>2, <2>3, <2>5, <3>1, <3>2, <3>3 DEF Talking
    <3>. QED  BY <3>4 DEF TcpPhase
  <2>. QED  BY <2>4, <2>5, EndFacts
<1>. QED  BY <1>3, <1>8, <1>9

LEMMA PhaseOfClose ==
    ASSUME Tcp!TypeOK, TcpPhase, OrderlyEnds, NEW k \in Tcp!Ends, NEW p \in Tcp!Ends, p # k, Tcp!Close(k)
    PROVE  TcpPhase'
<1>1. /\ ct' = ct /\ wasFast' = wasFast /\ end[k].st = "est" /\ ~end[k].finSent
      /\ Tcp!Still
      /\ end'[p] = end[p] /\ way'[p] = way[p]
      /\ end'[k] = [end[k] EXCEPT !.nxt = @ + 1, !.finSent = TRUE]
  BY CloseEffect DEF OrderlyEnds
<1>2. PICK m \in Tcp!Packet : /\ m.flags = {"FIN", "ACK"} /\ m.seq = end[k].nxt % SEQ
                              /\ m.ack = end[k].rcv % SEQ /\ m.data = FALSE
                              /\ way'[k] = Append(way[k], m)
  BY CloseEffect
<1>3. way[k] = <<>> /\ way[p] = <<>> /\ way["fwd"] = <<>> /\ way["rev"] = <<>>
  BY <1>1, EndFacts DEF Tcp!Still
<1>4. way'[k] = <<m>> /\ way'[p] = <<>>  BY <1>1, <1>2, <1>3, OneElement
<1>5. \A n : <<n>> # <<>>  OBVIOUS
<1>6. Talking \/ HalfClosed(p, k)
  <2>1. ~Idle0 /\ ~Calling /\ ~Called  BY <1>1, EndFacts DEF Idle0, Calling, Called, Ends2
  <2>2. ~Accepting /\ ~Closed  BY <1>1, <1>3, EndFacts DEF Accepting, Closed
  <2>3. ~Closing1(k, p) /\ ~Closing2(k, p) /\ ~Acking(k, p) /\ ~HalfClosed(k, p)
    BY <1>1 DEF Closing1, HalfClosed, Closing2, Acking
  <2>4. ~Closing1(p, k) /\ ~Closing2(p, k) /\ ~Acking(p, k)
    BY <1>1, <1>3, <1>5, Zenon DEF Closing1, Closing2, Acking, Only
  <2>5. TcpPhase => Idle0 \/ Calling \/ Called \/ Accepting \/ Talking \/ Closes(k, p) \/ Closes(p, k) \/ Closed
    BY EndFacts DEF TcpPhase
  <2>. QED  BY <2>1, <2>2, <2>3, <2>4, <2>5 DEF Closes
<1>7. PICK e : e = end[k]  OBVIOUS
<1>8. e \in Tcp!Endpoint  BY <1>7, TcpValues
<1>9. /\ end'[k].st = "est" /\ end'[k].rcv = e.rcv
      /\ end'[k].finSent = TRUE /\ end'[k].finRcvd = e.finRcvd
  BY <1>1, <1>7, <1>8 DEF Tcp!Endpoint
<1>10. TcpPhase' <=> (\/ Idle0 \/ Calling \/ Called \/ Accepting \/ Talking
                      \/ Closes(k, p) \/ Closes(p, k) \/ Closed)'
  BY EndFacts DEF TcpPhase
<1>a. /\ e.nxt \in Nat /\ (e.nxt % SEQ) % SEQ = e.nxt % SEQ  BY <1>8, SeqFacts DEF Tcp!Endpoint
<1>11. CASE Talking
  <2>0. /\ end["fwd"].st = "est" /\ end["rev"].st = "est"
        /\ ~end["fwd"].finSent /\ ~end["fwd"].finRcvd /\ ~end["rev"].finSent /\ ~end["rev"].finRcvd
        /\ TcpEntry(ct, "EST", TRUE) /\ NoFr(ct)
    BY <1>11 DEF Talking, Ends2, Unclosed
  <2>1. Same(end["rev"].rcv, end["fwd"].nxt) /\ Same(end["fwd"].rcv, end["rev"].nxt)
    BY <1>3, <1>11, ChainEmpty DEF Talking
  <2>2. Same(m.seq, end[p].rcv) /\ Same(end[p].nxt, end[k].rcv)
    BY <1>2, <1>7, <1>a, <2>1, EndFacts DEF Same
  <2>3. (Ends2("est", "est") /\ end[k].finSent /\ ~end[k].finRcvd /\ Unclosed(p))'
    <3>1. ~end[k].finRcvd /\ ~end[p].finSent /\ ~end[p].finRcvd /\ end[p].st = "est"  BY <2>0, EndFacts
    <3>2. end'[k].st = "est" /\ end'[k].finSent /\ ~end'[k].finRcvd  BY <1>7, <1>9, <3>1
    <3>3. ~end'[p].finSent /\ ~end'[p].finRcvd /\ end'[p].st = "est"  BY <1>1, <3>1
    <3>4. Ends2("est", "est")'  BY <3>2, <3>3, EndFacts DEF Ends2
    <3>. QED  BY <3>2, <3>3, <3>4 DEF Unclosed
  <2>4. (TcpEntry(ct, "EST", TRUE) /\ NoFr(ct))'  BY <1>1, <2>0 DEF TcpEntry, NoFr
  <2>5. (way[p] = <<>> /\ Same(end[p].nxt, end[k].rcv))'  BY <1>1, <1>4, <1>7, <1>9, <2>2 DEF Same
  <2>6. (Only(k, m) /\ m.flags = {"FIN", "ACK"} /\ Same(m.seq, end[p].rcv))'
    BY <1>1, <1>2, <1>4, <2>2 DEF Only, Same
  <2>7. Closing1(k, p)'  BY <2>3, <2>4, <2>5, <2>6 DEF Closing1
  <2>. QED  BY <1>10, <2>7 DEF Closes
<1>12. CASE HalfClosed(p, k)
  <2>0. /\ end["fwd"].st = "est" /\ end["rev"].st = "est"
        /\ end[p].finSent /\ ~end[p].finRcvd /\ end[k].finRcvd
        /\ TcpEntry(ct, "FINI", TRUE) /\ ct.pi.fndir = D(p) /\ ct.fr[p] /\ ~ct.fr[k]
        /\ Same(end[k].nxt, end[p].rcv) /\ Same(ct.pi.seq[D(p)] + 1, end[k].rcv)
    BY <1>12 DEF HalfClosed, Ends2
  <2>2. AckOf(ct.pi.seq[D(p)], m) /\ Same(m.seq, end[p].rcv)
    BY <1>2, <1>7, <1>a, <2>0 DEF Same, AckOf
  <2>3. (Ends2("est", "est") /\ end[p].finSent /\ ~end[p].finRcvd /\ end[k].finSent /\ end[k].finRcvd)'
    BY <1>1, <1>7, <1>9, <2>0, EndFacts DEF Ends2
  <2>4. (TcpEntry(ct, "FINI", TRUE) /\ ct.pi.fndir = D(p) /\ ct.fr[p] /\ ~ct.fr[k])'
    BY <1>1, <2>0 DEF TcpEntry, D
  <2>5. (way[p] = <<>>)'  BY <1>4
  <2>6. (Only(k, m) /\ m.flags = {"FIN", "ACK"} /\ AckOf(ct.pi.seq[D(p)], m) /\ Same(m.seq, end[p].rcv))'
    BY <1>1, <1>2, <1>4, <2>2 DEF Only, Same, AckOf, D
  <2>7. Closing2(p, k)'  BY <2>3, <2>4, <2>5, <2>6 DEF Closing2
  <2>. QED  BY <1>10, <2>7 DEF Closes
<1>. QED  BY <1>6, <1>11, <1>12

(* A packet m of k that reaches p, which takes it for x. *)
Delivers(k, p, m, x) ==
    /\ way[k] # <<>> /\ m = Head(way[k]) /\ m \in Tcp!Packet /\ ct' = Tcp!Tracked(k, m)
    /\ end'[k] = end[k] /\ way'[k] = Tail(way[k])
    /\ Receives(end[p], m, x)
    /\ ~(x.st = "synrcvd" /\ Tcp!Syn(m)) => end'[p] = x
    /\ x.st = "synrcvd" /\ Tcp!Syn(m) => end'[p] = [x EXCEPT !.nxt = @ + 1]
    /\ ~Answers(m) => way'[p] = way[p]
    /\ Answers(m) => \E y : /\ x.st = "est" => IsSegment(y, {"ACK"}, x)
                            /\ x.st # "est" => IsSegment(y, {"SYN", "ACK"}, x)
                            /\ way'[p] = Append(way[p], y)
LEMMA Delivered ==
    ASSUME Tcp!TypeOK, NEW k \in Tcp!Ends, NEW p \in Tcp!Ends, p # k, Tcp!Forward(k)
    PROVE  \E m, x : Delivers(k, p, m, x)
<1>1. p = Tcp!Peer(k)  BY EndFacts
<1>2. PICK m : m = Head(way[k])  OBVIOUS
<1>. DEFINE Fact(q, n, v) ==
                /\ Receives(end[q], n, v)
                /\ ~(v.st = "synrcvd" /\ Tcp!Syn(n)) => end'[q] = v
                /\ v.st = "synrcvd" /\ Tcp!Syn(n) => end'[q] = [v EXCEPT !.nxt = @ + 1]
                /\ ~Answers(n) => way'[q] = way[q]
                /\ Answers(n) => \E y : /\ v.st = "est" => IsSegment(y, {"ACK"}, v)
                                        /\ v.st # "est" => IsSegment(y, {"SYN", "ACK"}, v)
                                        /\ way'[q] = Append(way[q], y)
            Facts(q, n) == /\ way[k] # <<>> /\ n \in Tcp!Packet /\ ct' = Tcp!Tracked(k, n)
                           /\ end'[k] = end[k] /\ way'[k] = Tail(way[k])
                           /\ \E x : Fact(q, n, x)
<1>b. Facts(Tcp!Peer(k), Head(way[k]))  BY ForwardEffect, Zenon
<1>c. Facts(p, m)
  <2>. HIDE DEF Facts
  <2>. QED  BY <1>1, <1>2, <1>b
<1>3. /\ way[k] # <<>> /\ m \in Tcp!Packet /\ ct' = Tcp!Tracked(k, m)
      /\ end'[k] = end[k] /\ way'[k] = Tail(way[k])
      /\ \E x : Fact(p, m, x)
  BY <1>c, Zenon
<1>4. PICK x : Fact(p, m, x)  BY <1>3, Zenon
<1>5. Delivers(k, p, m, x)  BY <1>2, <1>3, <1>4, Zenon DEF Delivers
<1>. QED  BY <1>5

(* A packet of the connection that reaches an end which knows its peer. *)
Arrives(k, p, m) ==
    /\ end'[k] = end[k] /\ way'[k] = Tail(way[k])
    /\ end'[p] \in Tcp!Endpoint /\ end'[p].st = "est" /\ end'[p].nxt = end[p].nxt
    /\ end'[p].finSent = end[p].finSent
    /\ Tcp!Fin(m) => end'[p].finRcvd
    /\ ~Tcp!Fin(m) => (end'[p].finRcvd <=> end[p].finRcvd)
    /\ m.data \/ Tcp!Fin(m) =>
          /\ end'[p].rcv = end[p].rcv + 1
          /\ \E y : IsSegment(y, {"ACK"}, end'[p]) /\ way'[p] = Append(way[p], y)
    /\ ~(m.data \/ Tcp!Fin(m)) => end'[p].rcv = end[p].rcv /\ way'[p] = way[p]
LEMMA AckArrives ==
    ASSUME NEW k, NEW p, NEW m, NEW x, Delivers(k, p, m, x), end[p].st \in {"synrcvd", "est"},
           Tcp!Ack(m), ~Tcp!Syn(m)
    PROVE  Arrives(k, p, m)
<1>1. /\ x \in Tcp!Endpoint /\ x.nxt = end[p].nxt /\ x.finSent = end[p].finSent
      /\ x.st = "est" /\ x.rcv = (IF m.data \/ Tcp!Fin(m) THEN end[p].rcv + 1 ELSE end[p].rcv)
      /\ x.finRcvd = (end[p].finRcvd \/ Tcp!Fin(m))
  BY DEF Delivers, Receives
<1>2. end'[p] = x  BY <1>1 DEF Delivers
<1>3. Answers(m) <=> m.data \/ Tcp!Fin(m)  BY DEF Answers
<1>4. m.data \/ Tcp!Fin(m) => \E y : IsSegment(y, {"ACK"}, end'[p]) /\ way'[p] = Append(way[p], y)
  <2>1. SUFFICES ASSUME Answers(m) PROVE \E y : IsSegment(y, {"ACK"}, x) /\ way'[p] = Append(way[p], y)
    BY <1>2, <1>3
  <2>. QED  BY <1>1, <2>1, Zenon DEF Delivers
<1>5. ~(m.data \/ Tcp!Fin(m)) => way'[p] = way[p]  BY <1>3 DEF Delivers
<1>6. end'[k] = end[k] /\ way'[k] = Tail(way[k])  BY DEF Delivers
<1>7. /\ Tcp!Fin(m) => end'[p].finRcvd
      /\ ~Tcp!Fin(m) => (end'[p].finRcvd <=> end[p].finRcvd)
  BY <1>1, <1>2
<1>8. /\ m.data \/ Tcp!Fin(m) => end'[p].rcv = end[p].rcv + 1
      /\ ~(m.data \/ Tcp!Fin(m)) => end'[p].rcv = end[p].rcv
  BY <1>1, <1>2
<1>. QED  BY <1>1, <1>2, <1>4, <1>5, <1>6, <1>7, <1>8, Zenon DEF Arrives

LEMMA OnlyHead ==
    ASSUME NEW k, NEW p, NEW m, NEW x, NEW n, Delivers(k, p, m, x), Only(k, n)
    PROVE  m = n /\ m \in Tcp!Packet /\ m.data = FALSE /\ way'[k] = <<>>
BY OneElement DEF Delivers, Only

LEMMA PhaseOfSyn ==
    ASSUME Tcp!TypeOK, Calling, ~Dsr, NEW m, NEW x, Delivers("fwd", "rev", m, x)
    PROVE  Called'
<1>0. /\ Ends2("synsent", "listen") /\ Unclosed("fwd") /\ Unclosed("rev") /\ ct = NoEntry
      /\ way["rev"] = <<>>
  BY DEF Calling
<1>1. PICK n : Only("fwd", n) /\ n.flags = {"SYN"} /\ Same(end["fwd"].nxt, n.seq + 1)  BY DEF Calling
<1>2. /\ m \in Tcp!Packet /\ m.data = FALSE /\ way'["fwd"] = <<>>
      /\ m.flags = {"SYN"} /\ Same(end["fwd"].nxt, m.seq + 1)
  <2>1. m = n /\ m \in Tcp!Packet /\ m.data = FALSE /\ way'["fwd"] = <<>>  BY <1>1, OnlyHead, Zenon
  <2>. QED  BY <1>1, <2>1
<1>3. Says(m, TRUE, FALSE, FALSE)  BY <1>2, FlagFacts
<1>4. PICK T : T = Tcp!Tracked("fwd", m)  OBVIOUS
<1>5. TcpEntry(T, "SS", FALSE) /\ NoFr(T) /\ T.pi.seq["IN"] = m.seq  BY <1>0, <1>2, <1>4, TrackSyn, Zenon
<1>6. ct' = T  BY <1>4 DEF Delivers
<1>7. PICK e : e = end["rev"]  OBVIOUS
<1>8. /\ x \in Tcp!Endpoint /\ x.nxt = e.nxt /\ x.finSent = e.finSent
      /\ x.st = "synrcvd" /\ x.rcv = m.seq + 1 /\ x.finRcvd = e.finRcvd
  BY <1>0, <1>3, <1>7 DEF Delivers, Receives, Says, Ends2
<1>9. /\ end'["fwd"] = end["fwd"] /\ end'["rev"] = [x EXCEPT !.nxt = @ + 1]
      /\ \E y : IsSegment(y, {"SYN", "ACK"}, x) /\ way'["rev"] = Append(way["rev"], y)
  <2>1. Answers(m) /\ Tcp!Syn(m) /\ x.st # "est"  BY <1>3, <1>8 DEF Answers, Says
  <2>. QED  BY <1>8, <2>1, Zenon DEF Delivers
<1>10. /\ end'["rev"].st = "synrcvd" /\ end'["rev"].nxt = x.nxt + 1 /\ end'["rev"].rcv = m.seq + 1
       /\ end'["rev"].finSent = e.finSent /\ end'["rev"].finRcvd = e.finRcvd
  BY <1>8, <1>9 DEF Tcp!Endpoint
<1>11. PICK y : IsSegment(y, {"SYN", "ACK"}, x) /\ way'["rev"] = Append(way["rev"], y)  BY <1>9
<1>12. way'["rev"] = <<y>>  BY <1>0, <1>11, OneElement
<1>13. /\ y \in Tcp!Packet /\ y.flags = {"SYN", "ACK"} /\ y.data = FALSE
       /\ y.seq = x.nxt % SEQ /\ y.ack = (m.seq + 1) % SEQ
  BY <1>8, <1>11 DEF IsSegment
<1>14. (x.nxt + 1) % SEQ = (y.seq + 1) % SEQ
  <2>1. x.nxt \in Nat  BY <1>8 DEF Tcp!Endpoint
  <2>. QED  BY <1>13, <2>1, SeqFacts
<1>15. (/\ Only("rev", y) /\ y.flags = {"SYN", "ACK"} /\ AckOf(ct.pi.seq["IN"], y)
        /\ Same(end["rev"].nxt, y.seq + 1))'
  BY <1>5, <1>6, <1>10, <1>12, <1>13, <1>14 DEF Only, AckOf, Same
<1>16. (Ends2("synsent", "synrcvd") /\ Unclosed("fwd") /\ Unclosed("rev"))'
  <2>1. ~e.finSent /\ ~e.finRcvd  BY <1>0, <1>7 DEF Unclosed
  <2>. QED  BY <1>0, <1>9, <1>10, <2>1 DEF Ends2, Unclosed
<1>17. (TcpEntry(ct, "SS", FALSE) /\ NoFr(ct))'  BY <1>5, <1>6 DEF TcpEntry, NoFr
<1>18. (way["fwd"] = <<>> /\ Same(end["fwd"].nxt, end["rev"].rcv))'  BY <1>2, <1>9, <1>10 DEF Same
<1>. QED  BY <1>15, <1>16, <1>17, <1>18 DEF Called

LEMMA PhaseOfSynAck ==
    ASSUME Tcp!TypeOK, Called, NEW m, NEW x, Delivers("rev", "fwd", m, x)
    PROVE  Accepting'
<1>0. /\ Ends2("synsent", "synrcvd") /\ Unclosed("fwd") /\ Unclosed("rev")
      /\ TcpEntry(ct, "SS", FALSE) /\ NoFr(ct)
      /\ way["fwd"] = <<>> /\ Same(end["fwd"].nxt, end["rev"].rcv)
  BY DEF Called
<1>1. PICK n : /\ Only("rev", n) /\ n.flags = {"SYN", "ACK"} /\ AckOf(ct.pi.seq["IN"], n)
               /\ Same(end["rev"].nxt, n.seq + 1)
  BY DEF Called
<1>2. /\ m \in Tcp!Packet /\ m.data = FALSE /\ way'["rev"] = <<>>
      /\ m.flags = {"SYN", "ACK"} /\ AckOf(ct.pi.seq["IN"], m) /\ Same(end["rev"].nxt, m.seq + 1)
  <2>1. m = n /\ m \in Tcp!Packet /\ m.data = FALSE /\ way'["rev"] = <<>>  BY <1>1, OnlyHead, Zenon
  <2>. QED  BY <1>1, <2>1
<1>3. Says(m, TRUE, TRUE, FALSE)  BY <1>2, FlagFacts
<1>4. PICK T : T = Tcp!Tracked("rev", m)  OBVIOUS
<1>5. TcpEntry(T, "SA", FALSE) /\ NoFr(T) /\ T.pi.seq["OUT"] = m.seq
  <2>1. PICK c : c = ct  OBVIOUS
  <2>2. TcpEntry(c, "SS", FALSE) /\ NoFr(c) /\ AckOf(c.pi.seq["IN"], m)  BY <1>0, <1>2, <2>1
  <2>. QED  BY <1>2, <1>4, <2>1, <2>2, TrackSynAck, Zenon
<1>6. ct' = T  BY <1>4 DEF Delivers
<1>7. PICK e : e = end["fwd"]  OBVIOUS
<1>8. /\ x \in Tcp!Endpoint /\ x.nxt = e.nxt /\ x.finSent = e.finSent
      /\ x.st = "est" /\ x.rcv = m.seq + 1 /\ x.finRcvd = e.finRcvd
  BY <1>0, <1>3, <1>7 DEF Delivers, Receives, Says, Ends2
<1>9. /\ end'["rev"] = end["rev"] /\ end'["fwd"] = x
      /\ \E y : IsSegment(y, {"ACK"}, x) /\ way'["fwd"] = Append(way["fwd"], y)
  <2>1. Answers(m) /\ x.st = "est" /\ x.st # "synrcvd"  BY <1>3, <1>8 DEF Answers, Says
  <2>. QED  BY <1>8, <2>1, Zenon DEF Delivers
<1>11. PICK y : IsSegment(y, {"ACK"}, x) /\ way'["fwd"] = Append(way["fwd"], y)  BY <1>9
<1>12. way'["fwd"] = <<y>> /\ way'["fwd"] # <<>> /\ Append(<<>>, y) = <<y>>  BY <1>0, <1>11, OneElement
<1>13. /\ y \in Tcp!Packet /\ y.flags = {"ACK"} /\ y.data = FALSE
       /\ y.seq = e.nxt % SEQ /\ y.ack = (m.seq + 1) % SEQ
  BY <1>8, <1>11 DEF IsSegment
<1>14. PICK a, b : a = end["rev"].rcv /\ b = e.nxt  OBVIOUS
<1>15. Chain(<<y>>, a, b)
  <2>1. a \in Nat /\ b \in Nat  BY <1>7, <1>14, TcpValues, EndFacts
  <2>2. Chain(<<>>, a, b)  BY <1>0, <1>7, <1>14, ChainEmpty DEF Same
  <2>3. <<>> \in Seq(Tcp!Packet)  OBVIOUS
  <2>4. Chain(Append(<<>>, y), a, b)  BY <1>13, <1>14, <2>1, <2>2, <2>3, ChainAppend
  <2>. QED  BY <1>12, <2>4
<1>16. (Ends2("est", "synrcvd") /\ Unclosed("fwd") /\ Unclosed("rev"))'
  <2>1. ~e.finSent /\ ~e.finRcvd  BY <1>0, <1>7 DEF Unclosed
  <2>. QED  BY <1>0, <1>8, <1>9, <2>1 DEF Ends2, Unclosed
<1>17. (TcpEntry(ct, "SA", FALSE) /\ NoFr(ct))'  BY <1>5, <1>6 DEF TcpEntry, NoFr
<1>18. (way["rev"] = <<>> /\ Same(end["rev"].nxt, end["fwd"].rcv) /\ Same(ct.pi.seq["OUT"] + 1, end["fwd"].rcv))'
  BY <1>2, <1>5, <1>6, <1>8, <1>9 DEF Same
<1>19. (way["fwd"] # <<>> /\ Chain(way["fwd"], end["rev"].rcv, end["fwd"].nxt))'
  BY <1>8, <1>9, <1>12, <1>14, <1>15
<1>20. (\A i \in 1 .. Len(way["fwd"]) : AckOf(ct.pi.seq["OUT"], way["fwd"][i]))'
  <2>1. \A i \in 1 .. Len(<<y>>) : <<y>>[i] = y  OBVIOUS
  <2>. QED  BY <1>5, <1>6, <1>12, <1>13, <2>1 DEF AckOf
<1>. QED  BY <1>16, <1>17, <1>18, <1>19, <1>20 DEF Accepting

LEMMA ChainArrives ==
    ASSUME Tcp!TypeOK, NEW k \in Tcp!Ends, NEW p \in Tcp!Ends, p # k,
           NEW m \in Tcp!Packet, m = Head(way[k]), way[k] # <<>>, m.flags = {"ACK"}, Arrives(k, p, m),
           Chain(way[k], end[p].rcv, end[k].nxt), Chain(way[p], end[k].rcv, end[p].nxt)
    PROVE  Chain(way[k], end[p].rcv, end[k].nxt)' /\ Chain(way[p], end[k].rcv, end[p].nxt)'
<1>1. PICK q, r, a, b, c, d : /\ q = way[k] /\ r = way[p] /\ a = end[p].rcv /\ b = end[k].nxt
                              /\ c = end[k].rcv /\ d = end[p].nxt
  OBVIOUS
<1>2. /\ q \in Seq(Tcp!Packet) /\ r \in Seq(Tcp!Packet) /\ a \in Nat /\ b \in Nat /\ c \in Nat /\ d \in Nat
  BY <1>1, TcpValues
<1>3. Chain(q, a, b) /\ Chain(r, c, d) /\ q # <<>> /\ m = Head(q)  BY <1>1
<1>4. ~Tcp!Fin(m)  BY FlagFacts DEF Says
<1>5. PICK z : z = end'[p].rcv  OBVIOUS
<1>6. /\ way'[k] = Tail(q) /\ end'[k] = end[k] /\ end'[p].nxt = d /\ end'[p] \in Tcp!Endpoint
      /\ m.data => z = a + 1 /\ \E y : IsSegment(y, {"ACK"}, end'[p]) /\ way'[p] = Append(r, y)
      /\ ~m.data => z = a /\ way'[p] = r
  BY <1>1, <1>4, <1>5 DEF Arrives
<1>7. z \in Nat  BY <1>5, <1>6 DEF Tcp!Endpoint
<1>8. Chain(Tail(q), z, b)  BY <1>2, <1>3, <1>6, <1>7, ChainTail
<1>9. Chain(way[k], end[p].rcv, end[k].nxt)'  BY <1>1, <1>5, <1>6, <1>8
<1>10. CASE ~m.data
  <2>1. way'[p] = r  BY <1>6, <1>10
  <2>. QED  BY <1>1, <1>3, <1>6, <1>9, <2>1
<1>11. CASE m.data
  <2>1. PICK y : IsSegment(y, {"ACK"}, end'[p]) /\ way'[p] = Append(r, y)  BY <1>6, <1>11
  <2>2. y \in Tcp!Packet /\ y.flags = {"ACK"} /\ y.data = FALSE /\ y.seq = d % SEQ
    BY <1>6, <2>1 DEF IsSegment
  <2>3. Chain(Append(r, y), c, d)  BY <1>2, <1>3, <2>2, ChainAppend
  <2>. QED  BY <1>1, <1>6, <1>9, <2>1, <2>3
<1>. QED  BY <1>10, <1>11

LEMMA ChainHead ==
    ASSUME NEW q \in Seq(Tcp!Packet), NEW a, NEW b, Chain(q, a, b), q # <<>>, NEW m, m = Head(q)
    PROVE  m.flags = {"ACK"} /\ m = q[1] /\ 1 \in 1 .. Len(q)
<1>1. Len(q) \in Nat /\ Len(q) # 0 /\ m = q[1]  OBVIOUS
<1>2. 1 \in 1 .. Len(q)  BY <1>1
<1>. QED  BY <1>1, <1>2 DEF Chain

LEMMA PhaseOfAck ==
    ASSUME Tcp!TypeOK, Accepting, NEW m, NEW x, Delivers("fwd", "rev", m, x)
    PROVE  Talking'
<1>0. /\ Ends2("est", "synrcvd") /\ Unclosed("fwd") /\ Unclosed("rev")
      /\ TcpEntry(ct, "SA", FALSE) /\ NoFr(ct)
      /\ way["rev"] = <<>> /\ Same(end["rev"].nxt, end["fwd"].rcv)
      /\ way["fwd"] # <<>> /\ Chain(way["fwd"], end["rev"].rcv, end["fwd"].nxt)
      /\ \A i \in 1 .. Len(way["fwd"]) : AckOf(ct.pi.seq["OUT"], way["fwd"][i])
  BY DEF Accepting
<1>1. m \in Tcp!Packet /\ m = Head(way["fwd"])  BY DEF Delivers
<1>2. m.flags = {"ACK"} /\ AckOf(ct.pi.seq["OUT"], m)
  <2>1. way["fwd"] \in Seq(Tcp!Packet)  BY TcpValues, EndFacts
  <2>2. m.flags = {"ACK"} /\ m = way["fwd"][1] /\ 1 \in 1 .. Len(way["fwd"])
    BY <1>0, <1>1, <2>1, ChainHead, Zenon
  <2>. QED  BY <1>0, <2>2
<1>3. Says(m, FALSE, TRUE, FALSE)  BY <1>2, FlagFacts
<1>4. PICK T : T = Tcp!Tracked("fwd", m)  OBVIOUS
<1>5. TcpEntry(T, "EST", TRUE) /\ NoFr(T)
  <2>1. PICK c : c = ct  OBVIOUS
  <2>2. TcpEntry(c, "SA", FALSE) /\ NoFr(c) /\ AckOf(c.pi.seq["OUT"], m)  BY <1>0, <1>2, <2>1
  <2>. QED  BY <1>1, <1>2, <1>4, <2>1, <2>2, TrackAck, Zenon
<1>6. ct' = T  BY <1>4 DEF Delivers
<1>7. Arrives("fwd", "rev", m)
  <2>1. end["rev"].st \in {"synrcvd", "est"} /\ Tcp!Ack(m) /\ ~Tcp!Syn(m)  BY <1>0, <1>3 DEF Ends2, Says
  <2>. QED  BY <2>1, AckArrives, Zenon
<1>8. Chain(way["rev"], end["fwd"].rcv, end["rev"].nxt)  BY <1>0, ChainEmpty DEF Same
<1>9. Chain(way["fwd"], end["rev"].rcv, end["fwd"].nxt)' /\ Chain(way["rev"], end["fwd"].rcv, end["rev"].nxt)'
  <2>1. "fwd" \in Tcp!Ends /\ "rev" \in Tcp!Ends /\ "rev" # "fwd"  BY EndFacts
  <2>. QED  BY <1>0, <1>1, <1>2, <1>7, <1>8, <2>1, ChainArrives, Zenon
<1>10. (Ends2("est", "est") /\ Unclosed("fwd") /\ Unclosed("rev"))'
  <2>1. /\ end'["fwd"] = end["fwd"] /\ end'["rev"].st = "est" /\ end'["rev"].finSent = end["rev"].finSent
        /\ (end'["rev"].finRcvd <=> end["rev"].finRcvd)
    BY <1>3, <1>7 DEF Arrives, Says
  <2>. QED  BY <1>0, <2>1 DEF Ends2, Unclosed
<1>11. (TcpEntry(ct, "EST", TRUE) /\ NoFr(ct))'  BY <1>5, <1>6 DEF TcpEntry, NoFr
<1>. QED  BY <1>9, <1>10, <1>11 DEF Talking

LEMMA PhaseOfTalk ==
    ASSUME Tcp!TypeOK, Talking, NEW k \in Tcp!Ends, NEW p \in Tcp!Ends, p # k,
           NEW m, NEW x, Delivers(k, p, m, x)
    PROVE  Talking'
<1>0. /\ end[k].st = "est" /\ end[p].st = "est" /\ Unclosed(k) /\ Unclosed(p)
      /\ TcpEntry(ct, "EST", TRUE) /\ NoFr(ct) /\ way[k] # <<>>
      /\ Chain(way[k], end[p].rcv, end[k].nxt) /\ Chain(way[p], end[k].rcv, end[p].nxt)
  BY EndFacts DEF Talking, Ends2, Delivers
<1>1. m \in Tcp!Packet /\ m = Head(way[k])  BY DEF Delivers
<1>2. m.flags = {"ACK"}
  <2>1. way[k] \in Seq(Tcp!Packet)  BY TcpValues
  <2>. QED  BY <1>0, <1>1, <2>1, ChainHead, Zenon
<1>3. Says(m, FALSE, TRUE, FALSE)  BY <1>2, FlagFacts
<1>4. PICK T, c : T = Tcp!Tracked(k, m) /\ c = ct  OBVIOUS
<1>5. TcpEntry(T, "EST", TRUE) /\ NoFr(T)
  <2>1. TcpEntry(c, "EST", TRUE) /\ NoFr(c)  BY <1>0, <1>4
  <2>2. ~c.fr[k] /\ ~Tcp!Fin(m)  BY <1>3, <2>1, EndFacts DEF NoFr, Says
  <2>3. TcpEntry(T, "EST", TRUE) /\ T.fr["fwd"] = c.fr["fwd"] /\ T.fr["rev"] = c.fr["rev"]
    <3>1. Sees(k, p, c, m, T)  BY <1>1, <1>4 DEF Sees
    <3>2. Unmoved(c, T, "EST")  BY <2>1, <2>2, <3>1, TrackFast, Zenon
    <3>. QED  BY <3>2 DEF Unmoved
  <2>. QED  BY <2>1, <2>3 DEF NoFr
<1>6. ct' = T  BY <1>4 DEF Delivers
<1>7. Arrives(k, p, m)
  <2>1. end[p].st \in {"synrcvd", "est"} /\ Tcp!Ack(m) /\ ~Tcp!Syn(m)  BY <1>0, <1>3 DEF Says
  <2>. QED  BY <2>1, AckArrives, Zenon
<1>9. Chain(way[k], end[p].rcv, end[k].nxt)' /\ Chain(way[p], end[k].rcv, end[p].nxt)'
  BY <1>0, <1>1, <1>2, <1>7, ChainArrives, Zenon
<1>10. (Ends2("est", "est") /\ Unclosed("fwd") /\ Unclosed("rev"))'
  <2>1. /\ end'[k] = end[k] /\ end'[p].st = "est" /\ end'[p].finSent = end[p].finSent
        /\ (end'[p].finRcvd <=> end[p].finRcvd)
    BY <1>3, <1>7 DEF Arrives, Says
  <2>2. /\ end'[k].st = "est" /\ ~end'[k].finSent /\ ~end'[k].finRcvd /\ ~end'[p].finSent /\ ~end'[p].finRcvd
    BY <1>0, <2>1 DEF Unclosed
  <2>. QED  BY <2>1, <2>2, EndFacts DEF Ends2, Unclosed
<1>11. (TcpEntry(ct, "EST", TRUE) /\ NoFr(ct))'  BY <1>5, <1>6 DEF TcpEntry, NoFr
<1>12. Chain(way["fwd"], end["rev"].rcv, end["fwd"].nxt)' /\ Chain(way["rev"], end["fwd"].rcv, end["rev"].nxt)'
  BY <1>9, EndFacts
<1>. QED  BY <1>10, <1>11, <1>12 DEF Talking

LEMMA PhaseOfFin1 ==
    ASSUME Tcp!TypeOK, NEW k \in Tcp!Ends, NEW p \in Tcp!Ends, p # k, Closing1(k, p),
           NEW m, NEW x, Delivers(k, p, m, x)
    PROVE  HalfClosed(k, p)'
<1>0. /\ end[k].st = "est" /\ end[p].st = "est" /\ end[k].finSent /\ ~end[k].finRcvd
      /\ ~end[p].finSent /\ ~end[p].finRcvd
      /\ TcpEntry(ct, "EST", TRUE) /\ NoFr(ct)
      /\ way[p] = <<>> /\ Same(end[p].nxt, end[k].rcv)
  BY EndFacts DEF Closing1, Ends2, Unclosed
<1>1. PICK n : Only(k, n) /\ n.flags = {"FIN", "ACK"} /\ Same(n.seq, end[p].rcv)  BY DEF Closing1
<1>2. /\ m \in Tcp!Packet /\ m.data = FALSE /\ way'[k] = <<>>
      /\ m.flags = {"FIN", "ACK"} /\ Same(m.seq, end[p].rcv)
  <2>1. m = n /\ m \in Tcp!Packet /\ m.data = FALSE /\ way'[k] = <<>>  BY <1>1, OnlyHead, Zenon
  <2>. QED  BY <1>1, <2>1
<1>3. Says(m, FALSE, TRUE, TRUE)  BY <1>2, FlagFacts
<1>4. PICK T, c : T = Tcp!Tracked(k, m) /\ c = ct  OBVIOUS
<1>5. /\ TcpEntry(T, "FINI", TRUE) /\ T.pi.fndir = D(k) /\ T.fr[k] /\ ~T.fr[p]
      /\ T.pi.seq[D(k)] = m.seq
  <2>1. TcpEntry(c, "EST", TRUE) /\ NoFr(c)  BY <1>0, <1>4
  <2>2. Sees(k, p, c, m, T)  BY <1>2, <1>4 DEF Sees
  <2>3. FinSeen(T, k, p, m)  BY <1>2, <2>1, <2>2, TrackFin1, Zenon
  <2>. QED  BY <2>3 DEF FinSeen
<1>6. ct' = T  BY <1>4 DEF Delivers
<1>7. Arrives(k, p, m)
  <2>1. end[p].st \in {"synrcvd", "est"} /\ Tcp!Ack(m) /\ ~Tcp!Syn(m)  BY <1>0, <1>3 DEF Says
  <2>. QED  BY <2>1, AckArrives, Zenon
<1>8. /\ end'[k] = end[k] /\ end'[p].st = "est" /\ end'[p].nxt = end[p].nxt
      /\ end'[p].finSent = end[p].finSent /\ end'[p].finRcvd /\ end'[p].rcv = end[p].rcv + 1
      /\ \E y : IsSegment(y, {"ACK"}, end'[p]) /\ way'[p] = Append(way[p], y)
  BY <1>3, <1>7 DEF Arrives, Says
<1>9. PICK y : IsSegment(y, {"ACK"}, end'[p]) /\ way'[p] = Append(way[p], y)  BY <1>8
<1>10. way'[p] = <<y>> /\ y \in Tcp!Packet /\ y.data = FALSE /\ y.flags = {"ACK"}
  BY <1>0, <1>9, OneElement DEF IsSegment
<1>11. (m.seq + 1) % SEQ = (end[p].rcv + 1) % SEQ
  <2>1. m.seq \in Nat /\ end[p].rcv \in Nat  BY <1>2, TcpValues DEF Tcp!Packet
  <2>2. m.seq % SEQ = end[p].rcv % SEQ  BY <1>2 DEF Same
  <2>3. /\ ((m.seq % SEQ) + 1) % SEQ = (m.seq + 1) % SEQ
        /\ ((end[p].rcv % SEQ) + 1) % SEQ = (end[p].rcv + 1) % SEQ
    BY <2>1, SeqFacts, Zenon
  <2>. QED  BY <2>2, <2>3
<1>12. (/\ Ends2("est", "est") /\ end[k].finSent /\ ~end[k].finRcvd /\ ~end[p].finSent /\ end[p].finRcvd)'
  BY <1>0, <1>8, EndFacts DEF Ends2
<1>13. (TcpEntry(ct, "FINI", TRUE) /\ ct.pi.fndir = D(k) /\ ct.fr[k] /\ ~ct.fr[p])'
  BY <1>5, <1>6 DEF TcpEntry, D
<1>14. (way[k] = <<>> /\ Same(end[p].nxt, end[k].rcv) /\ Same(ct.pi.seq[D(k)] + 1, end[p].rcv))'
  BY <1>0, <1>2, <1>5, <1>6, <1>8, <1>11 DEF Same, D
<1>15. (Only(p, y) /\ y.flags = {"ACK"})'  BY <1>10 DEF Only
<1>. QED  BY <1>12, <1>13, <1>14, <1>15 DEF HalfClosed

LEMMA PhaseOfFinAck ==
    ASSUME Tcp!TypeOK, NEW k \in Tcp!Ends, NEW p \in Tcp!Ends, p # k, HalfClosed(k, p),
           NEW m, NEW x, Delivers(p, k, m, x)
    PROVE  HalfClosed(k, p)'
<1>0. /\ end[k].st = "est" /\ end[p].st = "est" /\ end[k].finSent /\ ~end[k].finRcvd
      /\ ~end[p].finSent /\ end[p].finRcvd
      /\ TcpEntry(ct, "FINI", TRUE) /\ ct.pi.fndir = D(k) /\ ct.fr[k] /\ ~ct.fr[p]
      /\ way[k] = <<>> /\ Same(end[p].nxt, end[k].rcv) /\ Same(ct.pi.seq[D(k)] + 1, end[p].rcv)
  BY EndFacts DEF HalfClosed, Ends2
<1>1. PICK n : Only(p, n) /\ n.flags = {"ACK"}  BY DEF HalfClosed, Delivers
<1>2. m \in Tcp!Packet /\ m.data = FALSE /\ way'[p] = <<>> /\ m.flags = {"ACK"}
  <2>1. m = n /\ m \in Tcp!Packet /\ m.data = FALSE /\ way'[p] = <<>>  BY <1>1, OnlyHead, Zenon
  <2>. QED  BY <1>1, <2>1
<1>3. Says(m, FALSE, TRUE, FALSE)  BY <1>2, FlagFacts
<1>4. PICK T, c : T = Tcp!Tracked(p, m) /\ c = ct  OBVIOUS
<1>5. /\ TcpEntry(T, "FINI", TRUE) /\ T.pi = c.pi /\ T.fr["fwd"] = c.fr["fwd"] /\ T.fr["rev"] = c.fr["rev"]
  <2>1. TcpEntry(c, "FINI", TRUE) /\ ~c.fr[p] /\ ~Tcp!Fin(m)  BY <1>0, <1>3, <1>4 DEF Says
  <2>2. Sees(p, k, c, m, T)  BY <1>2, <1>4 DEF Sees
  <2>3. Unmoved(c, T, "FINI")  BY <2>1, <2>2, TrackFast, Zenon
  <2>. QED  BY <2>3 DEF Unmoved
<1>6. ct' = T  BY <1>4 DEF Delivers
<1>7. Arrives(p, k, m)
  <2>1. end[k].st \in {"synrcvd", "est"} /\ Tcp!Ack(m) /\ ~Tcp!Syn(m)  BY <1>0, <1>3 DEF Says
  <2>. QED  BY <2>1, AckArrives, Zenon
<1>8. /\ end'[p] = end[p] /\ end'[k].st = "est" /\ end'[k].finSent = end[k].finSent
      /\ (end'[k].finRcvd <=> end[k].finRcvd) /\ end'[k].rcv = end[k].rcv /\ way'[k] = way[k]
  BY <1>2, <1>3, <1>7 DEF Arrives, Says
<1>12. (/\ Ends2("est", "est") /\ end[k].finSent /\ ~end[k].finRcvd /\ ~end[p].finSent /\ end[p].finRcvd)'
  BY <1>0, <1>8, EndFacts DEF Ends2
<1>13. (TcpEntry(ct, "FINI", TRUE) /\ ct.pi.fndir = D(k) /\ ct.fr[k] /\ ~ct.fr[p])'
  <2>1. T.fr[k] = c.fr[k] /\ T.fr[p] = c.fr[p]  BY <1>5, EndFacts
  <2>. QED  BY <1>0, <1>4, <1>5, <1>6, <2>1 DEF TcpEntry, D
<1>14. (way[k] = <<>> /\ Same(end[p].nxt, end[k].rcv) /\ Same(ct.pi.seq[D(k)] + 1, end[p].rcv))'
  BY <1>0, <1>4, <1>5, <1>6, <1>8 DEF Same, D
<1>15. (way[p] = <<>>)'  BY <1>2
<1>. QED  BY <1>12, <1>13, <1>14, <1>15 DEF HalfClosed

LEMMA PhaseOfFin2 ==
    ASSUME Tcp!TypeOK, NEW k \in Tcp!Ends, NEW p \in Tcp!Ends, p # k, Closing2(k, p),
           NEW m, NEW x, Delivers(p, k, m, x)
    PROVE  Acking(k, p)'
<1>0. /\ end[k].st = "est" /\ end[p].st = "est" /\ end[k].finSent /\ ~end[k].finRcvd
      /\ end[p].finSent /\ end[p].finRcvd
      /\ TcpEntry(ct, "FINI", TRUE) /\ ct.pi.fndir = D(k) /\ ct.fr[k] /\ way[k] = <<>>
  BY EndFacts DEF Closing2, Ends2
<1>1. PICK n : /\ Only(p, n) /\ n.flags = {"FIN", "ACK"} /\ AckOf(ct.pi.seq[D(k)], n)
               /\ Same(n.seq, end[k].rcv)
  BY DEF Closing2
<1>2. /\ m \in Tcp!Packet /\ m.data = FALSE /\ way'[p] = <<>>
      /\ m.flags = {"FIN", "ACK"} /\ AckOf(ct.pi.seq[D(k)], m) /\ Same(m.seq, end[k].rcv)
  <2>1. m = n /\ m \in Tcp!Packet /\ m.data = FALSE /\ way'[p] = <<>>  BY <1>1, OnlyHead, Zenon
  <2>. QED  BY <1>1, <2>1
<1>3. Says(m, FALSE, TRUE, TRUE)  BY <1>2, FlagFacts
<1>4. PICK T, c : T = Tcp!Tracked(p, m) /\ c = ct  OBVIOUS
<1>5. TcpEntry(T, "FINI3", TRUE) /\ T.pi.fndir = D(k) /\ T.fr[k] /\ T.pi.seq[D(p)] = m.seq
  <2>1. TcpEntry(c, "FINI", TRUE) /\ c.pi.fndir = D(k) /\ c.fr[k] /\ AckOf(c.pi.seq[D(k)], m)
    BY <1>0, <1>2, <1>4
  <2>2. Sees(p, k, c, m, T)  BY <1>2, <1>4 DEF Sees
  <2>3. BothFinSeen(T, k, p, m)  BY <1>2, <2>1, <2>2, TrackFin2, Zenon
  <2>. QED  BY <2>3 DEF BothFinSeen
<1>6. ct' = T  BY <1>4 DEF Delivers
<1>7. Arrives(p, k, m)
  <2>1. end[k].st \in {"synrcvd", "est"} /\ Tcp!Ack(m) /\ ~Tcp!Syn(m)  BY <1>0, <1>3 DEF Says
  <2>. QED  BY <2>1, AckArrives, Zenon
<1>8. /\ end'[p] = end[p] /\ end'[k].st = "est"
      /\ end'[k].finSent = end[k].finSent /\ end'[k].finRcvd /\ end'[k].rcv = end[k].rcv + 1
      /\ \E y : IsSegment(y, {"ACK"}, end'[k]) /\ way'[k] = Append(way[k], y)
  BY <1>3, <1>7 DEF Arrives, Says
<1>9. PICK y : IsSegment(y, {"ACK"}, end'[k]) /\ way'[k] = Append(way[k], y)  BY <1>8
<1>10. /\ way'[k] = <<y>> /\ y \in Tcp!Packet /\ y.data = FALSE /\ y.flags = {"ACK"}
       /\ y.ack = (end[k].rcv + 1) % SEQ
  BY <1>0, <1>8, <1>9, OneElement DEF IsSegment
<1>11. (m.seq + 1) % SEQ = (end[k].rcv + 1) % SEQ
  <2>1. m.seq \in Nat /\ end[k].rcv \in Nat  BY <1>2, TcpValues DEF Tcp!Packet
  <2>2. m.seq % SEQ = end[k].rcv % SEQ  BY <1>2 DEF Same
  <2>3. /\ ((m.seq % SEQ) + 1) % SEQ = (m.seq + 1) % SEQ
        /\ ((end[k].rcv % SEQ) + 1) % SEQ = (end[k].rcv + 1) % SEQ
    BY <2>1, SeqFacts, Zenon
  <2>. QED  BY <2>2, <2>3
<1>12. (Ends2("est", "est") /\ end[k].finSent /\ end[k].finRcvd /\ end[p].finSent /\ end[p].finRcvd)'
  BY <1>0, <1>8, EndFacts DEF Ends2
<1>13. (TcpEntry(ct, "FINI3", TRUE) /\ ct.pi.fndir = D(k) /\ ct.fr[k])'  BY <1>5, <1>6 DEF TcpEntry, D
<1>14. (way[p] = <<>>)'  BY <1>2
<1>15. (Only(k, y) /\ y.flags = {"ACK"} /\ AckOf(ct.pi.seq[D(p)], y))'
  BY <1>5, <1>6, <1>10, <1>11 DEF Only, AckOf, D
<1>. QED  BY <1>12, <1>13, <1>14, <1>15 DEF Acking

LEMMA PhaseOfLast ==
    ASSUME Tcp!TypeOK, NEW k \in Tcp!Ends, NEW p \in Tcp!Ends, p # k, Acking(k, p),
           NEW m, NEW x, Delivers(k, p, m, x)
    PROVE  Closed'
<1>0. /\ end[k].st = "est" /\ end[p].st = "est" /\ end[k].finSent /\ end[k].finRcvd
      /\ end[p].finSent /\ end[p].finRcvd
      /\ TcpEntry(ct, "FINI3", TRUE) /\ ct.pi.fndir = D(k) /\ ct.fr[k] /\ way[p] = <<>>
  BY EndFacts DEF Acking, Ends2
<1>1. PICK n : Only(k, n) /\ n.flags = {"ACK"} /\ AckOf(ct.pi.seq[D(p)], n)  BY DEF Acking
<1>2. /\ m \in Tcp!Packet /\ m.data = FALSE /\ way'[k] = <<>>
      /\ m.flags = {"ACK"} /\ AckOf(ct.pi.seq[D(p)], m)
  <2>1. m = n /\ m \in Tcp!Packet /\ m.data = FALSE /\ way'[k] = <<>>  BY <1>1, OnlyHead, Zenon
  <2>. QED  BY <1>1, <2>1
<1>3. Says(m, FALSE, TRUE, FALSE)  BY <1>2, FlagFacts
<1>4. PICK T, c : T = Tcp!Tracked(k, m) /\ c = ct  OBVIOUS
<1>5. T = NoEntry
  <2>1. TcpEntry(c, "FINI3", TRUE) /\ c.pi.fndir = D(k) /\ c.fr[k] /\ AckOf(c.pi.seq[D(p)], m)
    BY <1>0, <1>2, <1>4
  <2>2. Sees(k, p, c, m, T)  BY <1>2, <1>4 DEF Sees
  <2>. QED  BY <1>2, <2>1, <2>2, TrackLast, Zenon
<1>6. ct' = T  BY <1>4 DEF Delivers
<1>7. Arrives(k, p, m)
  <2>1. end[p].st \in {"synrcvd", "est"} /\ Tcp!Ack(m) /\ ~Tcp!Syn(m)  BY <1>0, <1>3 DEF Says
  <2>. QED  BY <2>1, AckArrives, Zenon
<1>8. /\ end'[k] = end[k] /\ end'[p].st = "est" /\ end'[p].finSent = end[p].finSent
      /\ (end'[p].finRcvd <=> end[p].finRcvd) /\ way'[p] = way[p]
  BY <1>2, <1>3, <1>7 DEF Arrives, Says
<1>9. /\ end'[k].st = "est" /\ end'[k].finSent /\ end'[k].finRcvd /\ way'[k] = <<>>
      /\ end'[p].st = "est" /\ end'[p].finSent /\ end'[p].finRcvd /\ way'[p] = <<>>
  BY <1>0, <1>2, <1>8
<1>. QED  BY <1>5, <1>6, <1>9, EndFacts DEF Closed, Ends2

LEMMA PhaseOfForward ==
    ASSUME Tcp!TypeOK, TcpPhase, OrderlyEnds, NEW k \in Tcp!Ends, NEW p \in Tcp!Ends, p # k, Tcp!Forward(k)
    PROVE  TcpPhase'
<1>1. PICK m, x : Delivers(k, p, m, x)  BY Delivered, Zenon
<1>2. way[k] # <<>>  BY <1>1 DEF Delivers
<1>3. TcpPhase' <=> (\/ Idle0 \/ Calling \/ Called \/ Accepting \/ Talking
                     \/ Closes(k, p) \/ Closes(p, k) \/ Closed)'
  BY EndFacts DEF TcpPhase
<1>4. Idle0 \/ Calling \/ Called \/ Accepting \/ Talking \/ Closes(k, p) \/ Closes(p, k) \/ Closed
  BY EndFacts DEF TcpPhase
<1>5. ~Idle0 /\ ~Closed  BY <1>2, EndFacts DEF Idle0, Closed
<1>6. CASE Calling
  <2>1. k = "fwd" /\ p = "rev"  BY <1>2, <1>6, EndFacts DEF Calling
  <2>2. Delivers("fwd", "rev", m, x)  BY <1>1, <2>1
  <2>3. Called'  BY <1>6, <2>2, PhaseOfSyn, Zenon DEF OrderlyEnds
  <2>. QED  BY <1>3, <2>3
<1>7. CASE Called
  <2>1. k = "rev" /\ p = "fwd"  BY <1>2, <1>7, EndFacts DEF Called
  <2>2. Delivers("rev", "fwd", m, x)  BY <1>1, <2>1
  <2>3. Accepting'  BY <1>7, <2>2, PhaseOfSynAck, Zenon
  <2>. QED  BY <1>3, <2>3
<1>8. CASE Accepting
  <2>1. k = "fwd" /\ p = "rev"  BY <1>2, <1>8, EndFacts DEF Accepting
  <2>2. Delivers("fwd", "rev", m, x)  BY <1>1, <2>1
  <2>3. Talking'  BY <1>8, <2>2, PhaseOfAck, Zenon
  <2>. QED  BY <1>3, <2>3
<1>9. CASE Talking
  <2>1. Talking'  BY <1>1, <1>9, PhaseOfTalk, Zenon
  <2>. QED  BY <1>3, <2>1
<1>10. CASE Closing1(k, p)
  <2>1. HalfClosed(k, p)'  BY <1>1, <1>10, PhaseOfFin1, Zenon
  <2>. QED  BY <1>3, <2>1 DEF Closes
<1>11. CASE HalfClosed(p, k)
  <2>1. HalfClosed(p, k)'  BY <1>1, <1>11, PhaseOfFinAck, Zenon
  <2>. QED  BY <1>3, <2>1 DEF Closes
<1>12. CASE Closing2(p, k)
  <2>1. Acking(p, k)'  BY <1>1, <1>12, PhaseOfFin2, Zenon
  <2>. QED  BY <1>3, <2>1 DEF Closes
<1>13. CASE Acking(k, p)
  <2>1. Closed'  BY <1>1, <1>13, PhaseOfLast, Zenon
  <2>. QED  BY <1>3, <2>1
<1>14. ~HalfClosed(k, p) /\ ~Closing2(k, p) /\ ~Closing1(p, k) /\ ~Acking(p, k)
  BY <1>2 DEF HalfClosed, Closing2, Closing1, Acking
<1>. QED  BY <1>4, <1>5, <1>6, <1>7, <1>8, <1>9, <1>10, <1>11, <1>12, <1>13, <1>14 DEF Closes

LEMMA TcpPhaseNext == ASSUME Tcp!TypeOK, TcpPhase, OrderlyEnds, Tcp!Next PROVE TcpPhase'
<1>1. CASE Tcp!Connect  BY <1>1, PhaseOfConnect
<1>2. ASSUME NEW k \in Tcp!Ends, Tcp!SendData(k) \/ Tcp!Close(k) \/ Tcp!Forward(k) PROVE TcpPhase'
  <2>1. PICK p \in Tcp!Ends : p # k  BY EndFacts
  <2>2. CASE Tcp!SendData(k)  BY <2>2, PhaseOfData, Zenon
  <2>3. CASE Tcp!Close(k)  BY <2>1, <2>3, PhaseOfClose, Zenon
  <2>4. CASE Tcp!Forward(k)  BY <2>1, <2>4, PhaseOfForward, Zenon
  <2>. QED  BY <1>2, <2>2, <2>3, <2>4
<1>. QED  BY <1>1, <1>2 DEF Tcp!Next

LEMMA TcpPromises ==
    ASSUME Tcp!TypeOK, TcpPhase
    PROVE  Tcp!OpenIsTracked /\ Tcp!ClosedIsRemoved /\ Tcp!StaysTracked
<1>1. Tcp!Still <=> way["fwd"] = <<>> /\ way["rev"] = <<>>  BY EndFacts DEF Tcp!Still
<1>2. \A k : Tcp!Open(k) <=> end[k].st = "est" /\ ~end[k].finSent  BY DEF Tcp!Open
<1>3. \A n : <<n>> # <<>>  OBVIOUS
<1>4. Tcp!OpenIsTracked
  <2>1. SUFFICES ASSUME Tcp!Still, Tcp!Open("fwd"), Tcp!Open("rev")
                 PROVE  ct # NoEntry /\ ct.fast /\ ct.pi.state = "EST"
    BY EndFacts DEF Tcp!OpenIsTracked
  <2>2. ~Idle0 /\ ~Calling /\ ~Called /\ ~Accepting  BY <1>2, <2>1 DEF Idle0, Calling, Called, Accepting, Ends2
  <2>3. ~Closes("fwd", "rev") /\ ~Closes("rev", "fwd") /\ ~Closed
    BY <1>2, <2>1 DEF Closes, Closing1, HalfClosed, Closing2, Acking, Closed
  <2>4. TcpEntry(ct, "EST", TRUE)  BY <2>2, <2>3 DEF TcpPhase, Talking
  <2>. QED  BY <2>4, TcpEntryIs DEF TcpEntry
<1>5. Tcp!ClosedIsRemoved
  <2>1. SUFFICES ASSUME Tcp!Still, \A k \in Tcp!Ends : end[k].finSent /\ end[k].finRcvd
                 PROVE  ct = NoEntry
    BY DEF Tcp!ClosedIsRemoved
  <2>2. ~Called /\ ~Accepting /\ ~Talking  BY <2>1, EndFacts DEF Called, Accepting, Talking, Unclosed
  <2>3. \A k, p \in Tcp!Ends : ~Closing1(k, p) /\ ~HalfClosed(k, p) /\ ~Closing2(k, p)
    BY <2>1 DEF Closing1, HalfClosed, Closing2, Unclosed
  <2>4. ~Acking("fwd", "rev") /\ ~Acking("rev", "fwd")  BY <1>1, <1>3, <2>1, Zenon DEF Acking, Only
  <2>. QED  BY <2>2, <2>3, <2>4, EndFacts DEF TcpPhase, Closes, Idle0, Calling, Closed
<1>6. Tcp!StaysTracked
  <2>1. SUFFICES ASSUME ct = NoEntry, NEW k \in Tcp!Ends, Tcp!Open(k) PROVE FALSE
    BY DEF Tcp!StaysTracked
  <2>2. ~Idle0 /\ ~Calling /\ ~Closed  BY <1>2, <2>1, EndFacts DEF Idle0, Calling, Closed, Ends2
  <2>3. \A s, f : ~TcpEntry(ct, s, f)  BY <2>1, TcpEntryIs, Zenon
  <2>. QED
    BY <2>2, <2>3 DEF TcpPhase, Closes, Called, Accepting, Talking, Closing1, HalfClosed, Closing2, Acking
<1>. QED  BY <1>4, <1>5, <1>6

-----------------------------------------------------------------------------
(* The sessions of either protocol.                                        *)
sessionsVars == <<proto, ct, way, tcpVars, sctpVars>>
Phases == (proto = "TCP" => TcpPhase) /\ (proto = "SCTP" => SctpInv)

LEMMA SessionsStutter ==
    ASSUME UNCHANGED sessionsVars
    PROVE  (TypeOK => TypeOK') /\ (Phases => Phases')
<1>1. /\ proto' = proto /\ ct' = ct /\ way' = way /\ end' = end /\ wasFast' = wasFast
      /\ st' = st /\ sent' = sent /\ losses' = losses /\ dropped' = dropped
  BY DEF sessionsVars, tcpVars, sctpVars
<1>2. TypeOK => TypeOK'  BY <1>1, Zenon DEF TypeOK, Tcp!TypeOK, Sctp!TypeOK
<1>3. SctpInv => SctpInv'
  <2>1. \A s : SctpEntry(ct, s) => SctpEntry(ct', s)  BY <1>1
  <2>2. Inviting => Inviting'  BY <1>1, Zenon DEF Inviting, Init1, Init2
  <2>3. Echoing => Echoing'  BY <1>1, Zenon DEF Echoing, Cookie1
  <2>4. Answering => Answering'  BY <1>1, Zenon DEF Answering, Cookie2
  <2>. QED  BY <1>1, <2>2, <2>3, <2>4 DEF SctpInv, SctpPhase
<1>4. TcpPhase => TcpPhase'
  <2>1. (Idle0 => Idle0') /\ (Calling => Calling')
    BY <1>1, Zenon DEF Idle0, Calling, Ends2, Unclosed, Only
  <2>2. Called => Called'  BY <1>1, Zenon DEF Called, Ends2, Unclosed, Only
  <2>3. Accepting => Accepting'  BY <1>1, Zenon DEF Accepting, Ends2, Unclosed
  <2>4. Talking => Talking'  BY <1>1, Zenon DEF Talking, Ends2, Unclosed
  <2>5. \A k, p : Closes(k, p) => Closes(k, p)'
    <3>. TAKE k, p
    <3>1. Closing1(k, p) => Closing1(k, p)'  BY <1>1, Zenon DEF Closing1, Ends2, Unclosed, Only
    <3>2. HalfClosed(k, p) => HalfClosed(k, p)'  BY <1>1, Zenon DEF HalfClosed, Ends2, Only
    <3>3. Closing2(k, p) => Closing2(k, p)'  BY <1>1, Zenon DEF Closing2, Ends2, Only
    <3>4. Acking(k, p) => Acking(k, p)'  BY <1>1, Zenon DEF Acking, Ends2, Only
    <3>. QED  BY <3>1, <3>2, <3>3, <3>4 DEF Closes
  <2>6. Closed => Closed'  BY <1>1, Zenon DEF Closed, Ends2
  <2>. QED  BY <2>1, <2>2, <2>3, <2>4, <2>5, <2>6 DEF TcpPhase
<1>. QED  BY <1>1, <1>2, <1>3, <1>4 DEF Phases

LEMMA SessionsTypedNext == ASSUME TypeOK, [Next]_sessionsVars PROVE TypeOK'
<1>1. CASE UNCHANGED sessionsVars  BY <1>1, SessionsStutter
<1>2. CASE Next
  <2>1. CASE proto = "TCP" /\ Tcp!Next /\ proto' = proto
    <3>1. Tcp!TypeOK'  BY <2>1, TcpTypedNext DEF TypeOK
    <3>. QED  BY <2>1, <3>1 DEF TypeOK
  <2>2. CASE proto = "SCTP" /\ Sctp!Next /\ proto' = proto
    <3>1. Sctp!TypeOK'  BY <2>2, SctpTypedNext DEF TypeOK
    <3>. QED  BY <2>2, <3>1 DEF TypeOK
  <2>. QED  BY <1>2, <2>1, <2>2 DEF Next
<1>. QED  BY <1>1, <1>2

LEMMA SessionsPhaseNext ==
    ASSUME HandshakeLosses, OrderlyEnds, TypeOK, Phases, [Next]_sessionsVars
    PROVE  Phases'
<1>1. CASE UNCHANGED sessionsVars  BY <1>1, SessionsStutter
<1>2. CASE Next
  <2>1. CASE proto = "TCP" /\ Tcp!Next /\ proto' = proto
    <3>1. TcpPhase'  BY <2>1, TcpPhaseNext DEF TypeOK, Phases
    <3>. QED  BY <2>1, <3>1 DEF Phases
  <2>2. CASE proto = "SCTP" /\ Sctp!Next /\ proto' = proto
    <3>1. SctpInv'  BY <2>2, SctpPhaseNext DEF TypeOK, Phases
    <3>. QED  BY <2>2, <3>1 DEF Phases
  <2>. QED  BY <1>2, <2>1, <2>2 DEF Next
<1>. QED  BY <1>1, <1>2

(* Type correctness, with the tracker enabled for DSR or not and whatever  *)
(* is lost: the entries left in the map after dp_do_ctops are in no state  *)
(* of an error or of the end of their connection.                          *)
THEOREM SessionsTyped == Spec => []TypeOK
<1>1. Init => TypeOK  BY TcpTypedInit, SctpTypedInit DEF Init, TypeOK
<1>2. TypeOK /\ [Next]_sessionsVars => TypeOK'  BY SessionsTypedNext
<1>. QED  BY <1>1, <1>2, PTL DEF Spec, sessionsVars

LEMMA SessionsHavePhases == ASSUME HandshakeLosses, OrderlyEnds PROVE Spec => [](TypeOK /\ Phases)
<1>1. Init => TypeOK /\ Phases
  BY TcpTypedInit, SctpTypedInit, TcpPhaseInit, SctpPhaseInit DEF Init, TypeOK, Phases
<1>2. (TypeOK /\ Phases) /\ [Next]_sessionsVars => (TypeOK /\ Phases)'
  BY SessionsTypedNext, SessionsPhaseNext
<1>. QED  BY <1>1, <1>2, PTL DEF Spec, sessionsVars

(* A connection that both ends take to be open has entries that the        *)
(* tracker has marked established: dp_ct_tcp_sm and dp_ct_sctp_sm follow   *)
(* every handshake, for any sequence numbers and any amount of data, and   *)
(* however often INIT or INIT ACK is lost and repeated.                    *)
THEOREM OpenSessionsAreTracked == ASSUME HandshakeLosses, OrderlyEnds PROVE Spec => []OpenIsTracked
<1>1. TypeOK /\ Phases => OpenIsTracked  BY TcpPromises, SctpPromises DEF TypeOK, Phases, OpenIsTracked
<1>. QED  BY <1>1, SessionsHavePhases, PTL

(* The two FINs of a TCP connection and the ACK of the second one take its *)
(* entries out of ct_map, whichever end closes first, and nothing before   *)
(* them does: the acknowledgements match the numbers that dp_ct_tcp_sm     *)
(* recorded, also where sequence numbers wrap.                             *)
THEOREM TcpTrackedUntilClosed == ASSUME HandshakeLosses, OrderlyEnds PROVE Spec => []TrackedUntilClosed
<1>1. TypeOK /\ Phases => TrackedUntilClosed  BY TcpPromises DEF TypeOK, Phases, TrackedUntilClosed
<1>. QED  BY <1>1, SessionsHavePhases, PTL

(* dp_ct_sctp_sm drops no packet of such an association as too short, and  *)
(* takes none for an error, for which dp_ct_in would delete the entries.   *)
THEOREM SctpNothingDropped == ASSUME HandshakeLosses, OrderlyEnds PROVE Spec => []NothingDropped
<1>1. TypeOK /\ Phases => NothingDropped  BY SctpPromises DEF TypeOK, Phases, NothingDropped
<1>. QED  BY <1>1, SessionsHavePhases, PTL
=============================================================================
