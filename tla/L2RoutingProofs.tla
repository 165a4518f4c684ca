-------------------------- MODULE L2RoutingProofs --------------------------
(***************************************************************************)
(* Proofs about L2Routing for every network, every routing table and every *)
(* number of chunks, whatever is lost or arrives twice, and whatever the   *)
(* event loop reads where the timers' words were.                          *)
(***************************************************************************)
EXTENDS MCL2Routing, FiniteSetTheorems, WellFoundedInduction, TLAPS

\* Min() of a nonempty set of natural numbers is its least element.
LEMMA MinIsLeast ==
    ASSUME NEW S, S \subseteq Nat, S # {}
    PROVE  Min(S) \in S /\ \A y \in S : Min(S) <= y
<1>1. \E x \in S : \A y \in S : ~(<<y, x>> \in OpToRel(<, Nat))
    BY NatLessThanWellFounded, WFMin
<1>2. \A x, y \in S : ~(<<y, x>> \in OpToRel(<, Nat)) => x <= y
    BY DEF OpToRel
<1>3. \E x \in S : \A y \in S : x <= y
    BY <1>1, <1>2
<1> QED BY <1>3 DEF Min

\* Max() of two numbers.
LEMMA MaxOfTwo ==
    ASSUME NEW a \in Nat, NEW b \in Nat
    PROVE  Max({a, b}) \in {a, b} /\ Max({a, b}) >= a /\ Max({a, b}) >= b
<1>1. \E x \in {a, b} : \A y \in {a, b} : x >= y
    <2>1. CASE a >= b  BY <2>1
    <2>2. CASE ~(a >= b)  BY <2>2
    <2> QED BY <2>1, <2>2
<1> QED BY <1>1 DEF Max

LEMMA ChunksAreBytes ==
    /\ NUMBER_OF_CHUNKS \in Nat
    /\ Chunks \subseteq 0..127
    /\ \A c \in Chunks : c + 1 \in 0..255
BY ConstantsAssumption DEF Chunks

LEMMA HopsAreNodes == \A h \in Hops : h[1] \in Node /\ h[2] \in Node
BY DEF Hops

\* icn_send() puts packets on hops and nothing else.
LEMMA SendTypes ==
    ASSUME NEW n, NEW dst, NEW packet \in Packets, NEW frames \in [Hops -> Seq(Packets)]
    PROVE  icn_send(n, dst, packet, frames) \in [Hops -> Seq(Packets)]
<1>1. \A h \in Hops : frames[h] \in Seq(Packets) /\ Append(frames[h], packet) \in Seq(Packets)
    OBVIOUS
<1> QED BY <1>1 DEF icn_send

LEMMA SmallestMissing ==
    ASSUME TypeOK
    PROVE  _getSmallestMissing \in Chunks \cup {255}
<1>1. Missing \subseteq Nat /\ Missing \subseteq Chunks
    BY ChunksAreBytes DEF Missing, Chunks
<1>2. CASE Missing = {}  BY <1>2 DEF _getSmallestMissing
<1>3. CASE Missing # {}  BY <1>1, <1>3, MinIsLeast DEF _getSmallestMissing
<1> QED BY <1>2, <1>3

-----------------------------------------------------------------------------
\* The receive counter is at least every chunk that was received.
HighestCounts == \A c \in received : c <= receiveCounter

IInv == TypeOK /\ HighestCounts /\ KeepsTrying

LEMMA InitInv == Init => IInv
<1> SUFFICES ASSUME Init PROVE IInv
    OBVIOUS
<1>1. 0 \in Chunks /\ 0 \in 0..255 /\ 0 \in 0..MaxLoss
    BY ConstantsAssumption DEF Chunks
<1>2. <<>> \in Seq(Messages) /\ <<>> \in Seq(Packets)
    OBVIOUS
<1>3. TypeOK
    BY <1>1, <1>2 DEF Init, TypeOK, Messages
<1> QED BY <1>3 DEF Init, IInv, HighestCounts, KeepsTrying

\* A call of icn_initInterest() keeps the types, and leaves the retry timer set
\* while a chunk is missing.
LEMMA InterestTypes ==
    ASSUME TypeOK, NEW seq \in 0..255, icn_initInterest(seq)
    PROVE  /\ timers' \subseteq Messages
           /\ tmp1' \in Chunks \cup {255}
           /\ tmp2' \in 0..255
           /\ net' \in [Hops -> Seq(Packets)]
           /\ Missing # {} => timers' # {}
<1> DEFINE retry == IF Missing = {} THEN {} ELSE {"RESEND"}
<1>1. tmp1' \in Chunks \cup {255}
    BY SmallestMissing DEF icn_initInterest
<1>2. retry \subseteq Messages /\ timers \subseteq Messages /\ net \in [Hops -> Seq(Packets)]
    BY DEF TypeOK, Messages
<1>3. CASE Received(seq) \/ FlowControl(seq) \/ seq >= NUMBER_OF_CHUNKS
    <2>1. tmp2' = seq /\ timers' = timers \cup retry /\ net' = net
        BY <1>3 DEF icn_initInterest
    <2>2. Missing # {} => "RESEND" \in retry
        OBVIOUS
    <2> QED BY <1>1, <1>2, <2>1, <2>2
<1>4. CASE ~(Received(seq) \/ FlowControl(seq) \/ seq >= NUMBER_OF_CHUNKS)
    <2> DEFINE packet == [type |-> "INTEREST", seq |-> seq]
    <2>1. /\ tmp2' = seq + 1
          /\ timers' = (timers \ {"FIRST"}) \cup retry \cup {"SEND"}
          /\ net' = icn_send(Consumer, Store, packet, net)
        BY <1>4 DEF icn_initInterest
    <2>2. seq \in Chunks
        BY <1>4, ChunksAreBytes DEF Chunks
    <2>3. packet \in Packets
        BY <2>2 DEF Packets, Types
    <2>4. net' \in [Hops -> Seq(Packets)]
        BY <2>1, <2>3, <1>2, SendTypes
    <2>5. tmp2' \in 0..255
        BY <2>1, <2>2, ChunksAreBytes
    <2>6. timers' \subseteq Messages /\ timers' # {}
        BY <2>1, <1>2 DEF Messages
    <2> QED BY <1>1, <2>4, <2>5, <2>6
<1> QED BY <1>3, <1>4

\* A handled packet keeps the types; only an accepted chunk is received.
LEMMA RcvTypes ==
    ASSUME TypeOK, HighestCounts, NEW h \in Hops, NEW packet \in Packets,
           NEW frames \in [Hops -> Seq(Packets)], rcv(h, packet, frames)
    PROVE  /\ net' \in [Hops -> Seq(Packets)]
           /\ pitEntry' \in [Node -> Node \cup {Default}]
           /\ pitCtr' \in [Node -> Nat]
           /\ received \subseteq received' /\ received' \subseteq Chunks
           /\ receiveCounter' \in Chunks
           /\ HighestCounts'
           /\ UNCHANGED <<timers, queue, tmp1, tmp2>>
<1> DEFINE n == h[2]
<1>0. n \in Node /\ h[1] \in Node
    BY HopsAreNodes
<1>1. packet.type \in Types /\ packet.seq \in Chunks
    BY DEF Packets
<1>2. CASE packet.type = "INTEREST" /\ n = Store
    <2>1. icn_initContent(h[1], packet.seq, frames)
        BY <1>2 DEF rcv
    <2>2. [type |-> "CONTENT", seq |-> packet.seq] \in Packets
        BY <1>1 DEF Packets, Types
    <2>3. net' \in [Hops -> Seq(Packets)]
        BY <2>1, <2>2, SendTypes DEF icn_initContent
    <2> QED BY <2>1, <2>3 DEF icn_initContent, consumerVars, TypeOK, HighestCounts
<1>3. CASE packet.type = "INTEREST" /\ n # Store
    <2>1. ForwardInterest(n, h[1], packet, frames)
        BY <1>3 DEF rcv
    <2>2. net' \in [Hops -> Seq(Packets)]
        BY <2>1, SendTypes DEF ForwardInterest
    <2> QED BY <2>1, <2>2, <1>0 DEF ForwardInterest, consumerVars, TypeOK, HighestCounts
<1>4. CASE packet.type = "CONTENT" /\ pitCtr[n] > 0
    <2>1. ForwardContent(n, packet, frames)
        BY <1>4 DEF rcv
    <2>2. net' \in [Hops -> Seq(Packets)]
        BY <2>1, SendTypes DEF ForwardContent
    <2>3. pitCtr' \in [Node -> Nat]
        BY <2>1, <1>0, <1>4 DEF ForwardContent, TypeOK
    <2> QED BY <2>1, <2>2, <2>3 DEF ForwardContent, consumerVars, TypeOK, HighestCounts
<1>5. CASE packet.type = "CONTENT" /\ pitCtr[n] = 0 /\ n = Consumer
    <2>1. AcceptContent(packet.seq, frames)
        BY <1>5, <1>1 DEF rcv
    <2>2. receiveCounter \in Nat /\ packet.seq \in Nat
        BY <1>1 DEF TypeOK, Chunks
    <2>3. /\ receiveCounter' \in {receiveCounter, packet.seq}
          /\ receiveCounter' >= receiveCounter
          /\ receiveCounter' >= packet.seq
        BY <2>1, <2>2, MaxOfTwo DEF AcceptContent
    <2>4. \A c \in received : c \in Nat
        BY DEF TypeOK, Chunks
    <2>5. HighestCounts'
        BY <2>1, <2>2, <2>3, <2>4 DEF AcceptContent, HighestCounts
    <2> QED BY <2>1, <2>3, <2>5, <1>1 DEF AcceptContent, TypeOK
<1>6. CASE ~ \/ packet.type = "INTEREST"
             \/ packet.type = "CONTENT" /\ pitCtr[n] > 0
             \/ packet.type = "CONTENT" /\ pitCtr[n] = 0 /\ n = Consumer
    <2>1. net' = frames /\ UNCHANGED <<consumerVars, pitEntry, pitCtr>>
        BY <1>6 DEF rcv
    <2> QED BY <2>1 DEF consumerVars, TypeOK, HighestCounts
<1> QED BY <1>2, <1>3, <1>4, <1>5, <1>6

LEMMA StepInv == IInv /\ [Next]_vars => IInv'
<1> SUFFICES ASSUME IInv, [Next]_vars PROVE IInv'
    OBVIOUS
<1> USE DEF IInv
<1>1. CASE HandleTimer
    <2>1. PICK seq \in ReadAt(Head(queue)) : HandleMessage(seq)
        BY <1>1 DEF HandleTimer
    <2>2. /\ queue # <<>> /\ queue' = Tail(queue)
          /\ UNCHANGED <<received, receiveCounter, pitEntry, pitCtr, lost>>
          /\ icn_initInterest(seq)
        BY <1>1, <2>1 DEF HandleTimer, HandleMessage
    <2>3. Head(queue) \in Messages /\ Tail(queue) \in Seq(Messages)
        BY <2>2 DEF TypeOK
    <2>4. seq \in 0..255
        <3>1. seq \in {0, tmp1, tmp2} \cup Stale
            BY <2>1, <2>3 DEF ReadAt, Messages
        <3>2. tmp1 \in 0..255 /\ tmp2 \in 0..255
            BY ChunksAreBytes DEF TypeOK
        <3> QED BY <3>1, <3>2, ConstantsAssumption
    <2>5. Missing' = Missing
        BY <2>2 DEF Missing
    <2> QED BY <2>1, <2>2, <2>3, <2>4, <2>5, InterestTypes DEF TypeOK, HighestCounts, KeepsTrying
<1>2. ASSUME NEW t \in Messages, Fire(t) PROVE IInv'
    <2>1. queue' = Append(queue, t) /\ timers' = timers \ {t}
        BY <1>2 DEF Fire
    <2>2. queue' \in Seq(Messages) /\ queue' # <<>>
        BY <2>1 DEF TypeOK
    <2> QED BY <1>2, <2>1, <2>2 DEF Fire, TypeOK, HighestCounts, KeepsTrying
<1>3. ASSUME NEW h \in Hops, Receive(h) PROVE IInv'
    <2>1. net[h] \in Seq(Packets) /\ net[h] # <<>> /\ lost' = lost
        BY <1>3 DEF Receive, TypeOK
    <2>2. Head(net[h]) \in Packets /\ Tail(net[h]) \in Seq(Packets)
        BY <2>1
    <2>3. /\ [net EXCEPT ![h] = Tail(@)] \in [Hops -> Seq(Packets)]
          /\ net \in [Hops -> Seq(Packets)]
        BY <2>2 DEF TypeOK
    <2>4. PICK frames \in [Hops -> Seq(Packets)] : rcv(h, Head(net[h]), frames)
        BY <1>3, <2>3 DEF Receive, Take, Repeat
    <2>5. /\ net' \in [Hops -> Seq(Packets)]
          /\ pitEntry' \in [Node -> Node \cup {Default}]
          /\ pitCtr' \in [Node -> Nat]
          /\ received \subseteq received' /\ received' \subseteq Chunks
          /\ receiveCounter' \in Chunks
          /\ HighestCounts'
          /\ UNCHANGED <<timers, queue, tmp1, tmp2>>
        BY <2>2, <2>4, RcvTypes
    <2>6. TypeOK'
        BY <2>1, <2>5 DEF TypeOK
    <2> QED BY <2>5, <2>6 DEF KeepsTrying, Missing
<1>4. ASSUME NEW h \in Hops, Lose(h) PROVE IInv'
    <2>1. net[h] \in Seq(Packets) /\ net[h] # <<>>
        BY <1>4 DEF Lose, TypeOK
    <2>2. Tail(net[h]) \in Seq(Packets)
        BY <2>1
    <2>3. net' \in [Hops -> Seq(Packets)]
        BY <1>4, <2>2 DEF Lose, TypeOK
    <2>4. lost' \in 0..MaxLoss
        BY <1>4, ConstantsAssumption DEF Lose, TypeOK
    <2> QED BY <1>4, <2>3, <2>4
            DEF Lose, consumerVars, TypeOK, HighestCounts, KeepsTrying, Missing
<1>5. ASSUME NEW n \in Noisy, icn_initBackground(n) PROVE IInv'
    <2>1. [type |-> "BACKGROUND", seq |-> 0] \in Packets
        BY ConstantsAssumption DEF Packets, Types, Chunks
    <2>2. net \in [Hops -> Seq(Packets)]
        BY DEF TypeOK
    <2>3. net' \in [Hops -> Seq(Packets)]
        BY <1>5, <2>1, <2>2, SendTypes DEF icn_initBackground
    <2> QED BY <1>5, <2>3
            DEF icn_initBackground, consumerVars, TypeOK, HighestCounts, KeepsTrying, Missing
<1>6. CASE UNCHANGED vars
    BY <1>6 DEF vars, consumerVars, TypeOK, HighestCounts, KeepsTrying, Missing
<1> QED BY <1>1, <1>2, <1>3, <1>4, <1>5, <1>6 DEF Next

LEMMA AlwaysInv == Spec => []IInv
BY InitInv, StepInv, PTL DEF Spec

-----------------------------------------------------------------------------
\* The consumer's counters have their ranges: no chunk number that the event
\* loop reads from a dead word reaches the bit field of the received chunks.
THEOREM TypeCorrect == Spec => []TypeOK
<1>1. IInv => TypeOK
    BY DEF IInv
<1> QED BY <1>1, AlwaysInv, PTL

\* Flow control never holds back a retransmission of the smallest missing
\* chunk, for every threshold.
THEOREM RetransmissionsPass == Spec => []RetriesPass
<1>1. IInv => RetriesPass
    <2> SUFFICES ASSUME IInv, Missing # {}, Min(Missing) > receiveCounter + FLOW_THR
                 PROVE  FALSE
        BY DEF RetriesPass, FlowControl
    <2>1. Missing \subseteq Nat
        BY DEF Missing, Chunks
    <2>2. Min(Missing) \in Chunks /\ \A y \in Missing : Min(Missing) <= y
        BY <2>1, MinIsLeast DEF Missing
    <2>3. receiveCounter \in Nat /\ FLOW_THR \in Nat /\ FLOW_THR >= 1
        BY ConstantsAssumption DEF IInv, TypeOK, Chunks
    <2>4. receiveCounter + 1 \in Chunks
        BY <2>2, <2>3, ChunksAreBytes DEF Chunks
    <2>5. receiveCounter + 1 \in Missing
        BY <2>3, <2>4 DEF IInv, HighestCounts, Missing
    <2> QED BY <2>2, <2>3, <2>5 DEF Chunks
<1> QED BY <1>1, AlwaysInv, PTL

\* While a chunk is missing the consumer has a timer or a message to come.
THEOREM NeverSilent == Spec => []KeepsTrying
<1>1. IInv => KeepsTrying
    BY DEF IInv
<1> QED BY <1>1, AlwaysInv, PTL

-----------------------------------------------------------------------------
(***************************************************************************)
(* Answers find their requests pending, in any network in which the        *)
(* Interests of the consumer go to the store over a chain of nodes and the *)
(* answers back over the same.                                             *)
(***************************************************************************)

NextHops(n, dst) == IF _linkIsScheduled(n, dst) THEN {dst} ELSE _routeLookup(n, dst)

\* The places of the nodes that have a next one, and of those on the way.
Steps(path) == 1..(Len(path) - 1)
Inner(path) == 2..(Len(path) - 1)

\* A path without a fork, both ways.  ShippedChain: the shipped tables have one.
Chain(path) ==
    /\ path \in Seq(Node)
    /\ path # <<>> /\ path[1] = Consumer /\ path[Len(path)] = Store
    /\ \A i, j \in DOMAIN path : path[i] = path[j] => i = j
    /\ \A i \in Steps(path) : /\ NextHops(path[i], Store) = {path[i + 1]}
                             /\ NextHops(path[i + 1], path[i]) = {path[i]}

\* The i-th hop on the way to the store, and the hop back.
Up(path, i) == <<path[i], path[i + 1]>>
Down(path, i) == <<path[i + 1], path[i]>>

Kind(q, t) == {i \in DOMAIN q : q[i].type = t}
Count(q, t) == Cardinality(Kind(q, t))

\* Interests go up and content goes down.
OneWay(path) ==
    \A h \in Hops : \A k \in DOMAIN net[h] :
        /\ net[h][k].type = "INTEREST" => \E i \in Steps(path) : h = Up(path, i)
        /\ net[h][k].type = "CONTENT" => \E i \in Steps(path) : h = Down(path, i)

\* Whoever has a request pending has it from the node before it.
Remembered(path) ==
    \A n \in Node : pitCtr[n] > 0 =>
        \E i \in Inner(path) : n = path[i] /\ pitEntry[n] = path[i - 1]

\* What a node has pending covers what the next one has pending for it, its
\* Interests on the way there and the content on the way back.
Covered(path) ==
    \A i \in Inner(path) :
        Count(net[Down(path, i)], "CONTENT") + Count(net[Up(path, i)], "INTEREST")
            + pitCtr[path[i + 1]] <= pitCtr[path[i]]

InLine(path) == OneWay(path) /\ Remembered(path) /\ Covered(path)

-----------------------------------------------------------------------------
(***************************************************************************)
(* The packets of a kind on a hop.                                         *)
(***************************************************************************)

LEMMA KindIsFinite ==
    ASSUME NEW q \in Seq(Packets), NEW t
    PROVE  /\ IsFiniteSet(Kind(q, t)) /\ Count(q, t) \in Nat
           /\ Count(q, t) = 0 <=> \A k \in DOMAIN q : q[k].type # t
<1>1. DOMAIN q = 1..Len(q) /\ Len(q) \in Nat
  OBVIOUS
<1>2. IsFiniteSet(1..Len(q))
  BY <1>1, FS_Interval
<1>3. IsFiniteSet(Kind(q, t))
  BY <1>1, <1>2, FS_Subset DEF Kind
<1>4. Cardinality(Kind(q, t)) \in Nat /\ (Cardinality(Kind(q, t)) = 0 <=> Kind(q, t) = {})
  BY <1>3, FS_CardinalityType, FS_EmptySet
<1> QED
  BY <1>3, <1>4 DEF Count, Kind

\* A packet joins the hop as the last one.
LEMMA CountAppended ==
    ASSUME NEW q \in Seq(Packets), NEW p \in Packets, NEW t
    PROVE  Count(Append(q, p), t) = IF p.type = t THEN Count(q, t) + 1 ELSE Count(q, t)
<1>1. /\ Len(q) \in Nat /\ DOMAIN q = 1..Len(q) /\ DOMAIN Append(q, p) = 1..(Len(q) + 1)
      /\ Append(q, p)[Len(q) + 1] = p
      /\ \A i \in 1..Len(q) : Append(q, p)[i] = q[i]
  OBVIOUS
<1>2. 1..(Len(q) + 1) = (1..Len(q)) \cup {Len(q) + 1} /\ Len(q) + 1 \notin 1..Len(q)
  BY <1>1
<1>3. CASE p.type = t
  <2>1. Kind(Append(q, p), t) = Kind(q, t) \cup {Len(q) + 1} /\ Len(q) + 1 \notin Kind(q, t)
    BY <1>1, <1>2, <1>3 DEF Kind
  <2> QED
    BY <1>3, <2>1, KindIsFinite, FS_AddElement DEF Count
<1>4. CASE p.type # t
  <2>1. Kind(Append(q, p), t) = Kind(q, t)
    BY <1>1, <1>2, <1>4 DEF Kind
  <2> QED
    BY <1>4, <2>1 DEF Count
<1> QED
  BY <1>3, <1>4

\* The first packet leaves the hop.
LEMMA CountTail ==
    ASSUME NEW q \in Seq(Packets), q # <<>>, NEW t
    PROVE  Count(q, t) = IF Head(q).type = t THEN Count(Tail(q), t) + 1 ELSE Count(Tail(q), t)
<1>1. /\ Len(q) \in Nat /\ Len(q) > 0 /\ DOMAIN q = 1..Len(q) /\ Head(q) = q[1]
      /\ Tail(q) \in Seq(Packets) /\ DOMAIN Tail(q) = 1..(Len(q) - 1)
      /\ \A i \in 1..(Len(q) - 1) : Tail(q)[i] = q[i + 1] /\ i + 1 \in 2..Len(q)
  OBVIOUS
<1> DEFINE A == Kind(Tail(q), t)
           B == Kind(q, t) \ {1}
           f == [i \in A |-> i + 1]
<1>2. \A i : i \in A <=> i \in 1..(Len(q) - 1) /\ q[i + 1].type = t
  BY <1>1 DEF Kind
<1>3. \A i : i \in B <=> i \in 2..Len(q) /\ q[i].type = t
  BY <1>1 DEF Kind
<1> HIDE DEF A, B
<1>4. ExistsBijection(A, B)
  <2>1. f \in [A -> B]
    BY <1>1, <1>2, <1>3
  <2>2. \A i, j \in A : f[i] = f[j] => i = j
    BY <1>2
  <2>3. ASSUME NEW j \in B PROVE \E i \in A : f[i] = j
    <3>1. j \in 2..Len(q) /\ q[j].type = t
      BY <1>3
    <3>2. j - 1 \in 1..(Len(q) - 1) /\ (j - 1) + 1 = j
      BY <1>1, <3>1
    <3>3. j - 1 \in A
      BY <1>2, <3>1, <3>2
    <3> QED
      BY <3>2, <3>3
  <2>4. f \in Bijection(A, B)
    BY <2>1, <2>2, <2>3 DEF Bijection, Injection, Surjection, IsInjective
  <2> QED
    BY <2>4 DEF ExistsBijection
<1>5. Cardinality(B) = Cardinality(A) /\ IsFiniteSet(A)
  <2>1. IsFiniteSet(A)
    BY <1>1, KindIsFinite DEF A
  <2> QED
    BY <1>4, <2>1, FS_Bijection
<1>6. Cardinality(B) = IF 1 \in Kind(q, t) THEN Count(q, t) - 1 ELSE Count(q, t)
  BY KindIsFinite, FS_RemoveElement DEF B, Count
<1>7. 1 \in Kind(q, t) <=> Head(q).type = t
  BY <1>1 DEF Kind
<1>8. Count(q, t) \in Nat /\ Count(Tail(q), t) = Cardinality(A)
  BY KindIsFinite DEF A, Count
<1> QED
  BY <1>5, <1>6, <1>7, <1>8

\* What is in the rest of a queue, or in one with a packet more.
LEMMA TailAndAppend ==
    ASSUME NEW q \in Seq(Packets), NEW p \in Packets
    PROVE  /\ q # <<>> => /\ Head(q) = q[1] /\ 1 \in DOMAIN q
                          /\ Tail(q) \in Seq(Packets)
                          /\ \A k \in DOMAIN Tail(q) : \E j \in DOMAIN q : Tail(q)[k] = q[j]
           /\ Append(q, p) \in Seq(Packets)
           /\ \A k \in DOMAIN Append(q, p) :
                Append(q, p)[k] = p \/ \E j \in DOMAIN q : Append(q, p)[k] = q[j]
<1>1. /\ Len(q) \in Nat /\ DOMAIN q = 1..Len(q) /\ DOMAIN Append(q, p) = 1..(Len(q) + 1)
      /\ Append(q, p) \in Seq(Packets) /\ Append(q, p)[Len(q) + 1] = p
      /\ \A i \in 1..Len(q) : Append(q, p)[i] = q[i]
  OBVIOUS
<1>2. ASSUME q # <<>>
      PROVE  /\ Head(q) = q[1] /\ 1 \in DOMAIN q /\ Tail(q) \in Seq(Packets)
             /\ DOMAIN Tail(q) = 1..(Len(q) - 1)
             /\ \A i \in 1..(Len(q) - 1) : Tail(q)[i] = q[i + 1] /\ i + 1 \in DOMAIN q
  BY <1>2
<1>3. ASSUME q # <<>>, NEW k \in DOMAIN Tail(q) PROVE \E j \in DOMAIN q : Tail(q)[k] = q[j]
  BY <1>2, <1>3
<1>4. ASSUME NEW k \in DOMAIN Append(q, p)
      PROVE  Append(q, p)[k] = p \/ \E j \in DOMAIN q : Append(q, p)[k] = q[j]
  <2>1. k = Len(q) + 1 \/ k \in 1..Len(q)
    BY <1>1, <1>4
  <2> QED
    BY <1>1, <2>1
<1> QED
  BY <1>1, <1>2, <1>3, <1>4
-----------------------------------------------------------------------------
(***************************************************************************)
(* The path.                                                               *)
(***************************************************************************)

LEMMA MaxIsGreatest ==
    ASSUME NEW S, S \subseteq Nat, S # {}, NEW b \in Nat, \A y \in S : y <= b
    PROVE  Max(S) \in S
<1> DEFINE U == {u \in Nat : \A y \in S : y <= u}
<1>1. PICK m \in U : \A u \in U : m <= u
  <2>1. U \subseteq Nat /\ U # {}
    OBVIOUS
  <2> QED
    BY <2>1, MinIsLeast
<1>2. m \in S
  <2> SUFFICES ASSUME m \notin S PROVE FALSE
    OBVIOUS
  <2>1. PICK y \in S : TRUE
    OBVIOUS
  <2>2. m \in Nat /\ y \in Nat /\ y <= m /\ y # m
    BY <1>1, <2>1
  <2>3. m - 1 \in U
    <3>1. m - 1 \in Nat
      BY <2>2
    <3>2. ASSUME NEW x \in S PROVE x <= m - 1
      BY <1>1, <2>2
    <3> QED
      BY <3>1, <3>2
  <2> QED
    BY <1>1, <2>2, <2>3
<1>3. \A y \in S : m >= y
  BY <1>1
<1>4. \E x \in S : \A y \in S : x >= y
  BY <1>2, <1>3
<1> QED
  BY <1>4 DEF Max

\* Where icn_send() sends, frames can go.
LEMMA NextIsHop ==
    ASSUME NEW n \in Node, NEW dst \in Node, NEW m \in NextHops(n, dst)
    PROVE  <<n, m>> \in Hops
<1>1. CASE _linkIsScheduled(n, dst)
  BY <1>1 DEF NextHops, Hops
<1>2. CASE ~_linkIsScheduled(n, dst)
  <2> DEFINE to(d) == {i \in DOMAIN Routes : Routes[i].id = n /\ Routes[i].dst = d}
  <2>1. /\ Routes \in Seq([id : Node, dst : Node \cup {Default}, nextHop : Node])
        /\ Len(Routes) \in Nat /\ DOMAIN Routes = 1..Len(Routes)
    BY ConstantsAssumption
  <2>2. \A d : to(d) \subseteq Nat /\ \A y \in to(d) : y <= Len(Routes)
    BY <2>1
  <2>3. \A i \in DOMAIN Routes : Routes[i].id = n => <<n, Routes[i].nextHop>> \in Hops
    <3> SUFFICES ASSUME NEW i \in DOMAIN Routes, Routes[i].id = n
                 PROVE  <<n, Routes[i].nextHop>> \in Hops
      OBVIOUS
    <3> DEFINE R == [id : Node, dst : Node \cup {Default}, nextHop : Node]
    <3>1. Routes[i] \in R
      <4>1. Routes \in Seq(R) /\ i \in 1..Len(Routes)
        BY <2>1
      <4> HIDE DEF R, to
      <4> QED
        BY <4>1
    <3>2. Routes[i].nextHop \in Node
      BY <3>1
    <3> QED
      BY <3>2 DEF Hops
  <2>4. m \in _routeLookup(n, dst)
    BY <1>2 DEF NextHops
  <2>5. CASE to(dst) # {}
    <3>1. m = Routes[Min(to(dst))].nextHop
      BY <2>4, <2>5 DEF _routeLookup
    <3>2. Min(to(dst)) \in to(dst)
      BY <2>2, <2>5, MinIsLeast
    <3> QED
      BY <2>3, <3>1, <3>2
  <2>6. CASE to(dst) = {}
    <3>1. to(Default) # {} /\ m = Routes[Max(to(Default))].nextHop
      BY <2>4, <2>6 DEF _routeLookup
    <3>2. Max(to(Default)) \in to(Default)
      <4> HIDE DEF to
      <4> QED
        BY <2>1, <2>2, <3>1, MaxIsGreatest
    <3> QED
      BY <2>3, <3>1, <3>2
  <2> QED
    BY <2>5, <2>6
<1> QED
  BY <1>1, <1>2

LEMMA PathFacts ==
    ASSUME NEW path, Chain(path)
    PROVE  /\ Len(path) \in Nat /\ Len(path) >= 2 /\ DOMAIN path = 1..Len(path)
           /\ \A i \in 1..Len(path) : path[i] \in Node
           /\ \A i, j \in 1..Len(path) : path[i] = path[j] => i = j
           /\ path[1] = Consumer /\ path[Len(path)] = Store
           /\ Steps(path) \subseteq 1..Len(path) /\ \A i \in Steps(path) : i + 1 \in 1..Len(path)
<1>1. /\ Len(path) \in Nat /\ Len(path) > 0 /\ DOMAIN path = 1..Len(path)
      /\ \A i \in 1..Len(path) : path[i] \in Node
      /\ path[1] = Consumer /\ path[Len(path)] = Store
      /\ \A i, j \in 1..Len(path) : path[i] = path[j] => i = j
  BY DEF Chain
<1>2. Len(path) # 1
  BY <1>1, ConstantsAssumption
<1> QED
  BY <1>1, <1>2 DEF Steps

LEMMA PathHops ==
    ASSUME NEW path, Chain(path)
    PROVE  /\ \A i \in Steps(path) : Up(path, i) \in Hops /\ Down(path, i) \in Hops
           /\ \A i, j \in Steps(path) : /\ Up(path, i) = Up(path, j) => i = j
                                        /\ Down(path, i) = Down(path, j) => i = j
<1>1. ASSUME NEW i \in Steps(path) PROVE Up(path, i) \in Hops /\ Down(path, i) \in Hops
  <2>1. path[i] \in Node /\ path[i + 1] \in Node /\ Store \in Node
    BY PathFacts, ConstantsAssumption
  <2>2. path[i + 1] \in NextHops(path[i], Store) /\ path[i] \in NextHops(path[i + 1], path[i])
    BY DEF Chain
  <2> QED
    BY <2>1, <2>2, NextIsHop DEF Up, Down
<1>2. ASSUME NEW i \in Steps(path), NEW j \in Steps(path)
      PROVE  /\ Up(path, i) = Up(path, j) => i = j
             /\ Down(path, i) = Down(path, j) => i = j
  BY PathFacts DEF Up, Down
<1> QED
  BY <1>1, <1>2

\* What icn_send() does to a hop.
LEMMA SendAt ==
    ASSUME NEW n, NEW dst, NEW p, NEW frames, NEW g \in Hops
    PROVE  icn_send(n, dst, p, frames)[g] =
              IF g[1] = n /\ g[2] \in NextHops(n, dst) THEN Append(frames[g], p) ELSE frames[g]
BY DEF icn_send, NextHops
-----------------------------------------------------------------------------
(***************************************************************************)
(* The steps.                                                              *)
(***************************************************************************)

\* The frames after the first one of hop h was taken off.
Taken(h, frames) ==
    /\ frames \in [Hops -> Seq(Packets)]
    /\ \A g \in Hops, t \in Types :
          Count(net[g], t) = Count(frames[g], t)
                                + IF g = h /\ Head(net[h]).type = t THEN 1 ELSE 0
    /\ \A g \in Hops : \A k \in DOMAIN frames[g] : \E j \in DOMAIN net[g] : frames[g][k] = net[g][j]

LEMMA TakeOff ==
    ASSUME TypeOK, NEW h \in Hops, net[h] # <<>>,
           NEW frames, frames = [net EXCEPT ![h] = Tail(@)]
    PROVE  Taken(h, frames)
<1>1. /\ net \in [Hops -> Seq(Packets)] /\ Tail(net[h]) \in Seq(Packets)
      /\ frames[h] = Tail(net[h]) /\ \A g \in Hops \ {h} : frames[g] = net[g]
  <2>1. net \in [Hops -> Seq(Packets)] /\ net[h] \in Seq(Packets)
    BY DEF TypeOK
  <2> QED
    BY <2>1, TailAndAppend
<1>2. frames \in [Hops -> Seq(Packets)]
  BY <1>1
<1>3. ASSUME NEW g \in Hops, NEW t \in Types
      PROVE  Count(net[g], t) = Count(frames[g], t)
                                   + IF g = h /\ Head(net[h]).type = t THEN 1 ELSE 0
  <2>1. Count(frames[g], t) \in Nat
    BY <1>2, KindIsFinite
  <2>2. CASE g = h
    BY <1>1, <2>1, <2>2, CountTail
  <2>3. CASE g # h
    BY <1>1, <2>1, <2>3
  <2> QED
    BY <2>2, <2>3
<1>4. ASSUME NEW g \in Hops, NEW k \in DOMAIN frames[g]
      PROVE  \E j \in DOMAIN net[g] : frames[g][k] = net[g][j]
  <2>1. CASE g = h
    BY <1>1, <1>4, <2>1, TailAndAppend
  <2>2. CASE g # h
    BY <1>1, <1>4, <2>2
  <2> QED
    BY <2>1, <2>2
<1> QED
  BY <1>2, <1>3, <1>4 DEF Taken

\* Packet p joins hop h.
Joined(h, p, frames, now) ==
    /\ \A g \in Hops, t \in Types :
          Count(now[g], t) = Count(frames[g], t) + IF g = h /\ p.type = t THEN 1 ELSE 0
    /\ \A g \in Hops : \A k \in DOMAIN now[g] :
          (g = h /\ now[g][k] = p) \/ \E j \in DOMAIN frames[g] : now[g][k] = frames[g][j]

LEMMA PutOn ==
    ASSUME NEW n, NEW dst, NEW m, NextHops(n, dst) = {m}, NEW p \in Packets,
           NEW frames \in [Hops -> Seq(Packets)]
    PROVE  Joined(<<n, m>>, p, frames, icn_send(n, dst, p, frames))
<1> DEFINE now == icn_send(n, dst, p, frames)
<1>1. \A g \in Hops : now[g] = IF g = <<n, m>> THEN Append(frames[g], p) ELSE frames[g]
  <2> SUFFICES ASSUME NEW g \in Hops
               PROVE  now[g] = IF g = <<n, m>> THEN Append(frames[g], p) ELSE frames[g]
    OBVIOUS
  <2>1. now[g] = IF g[1] = n /\ g[2] \in NextHops(n, dst) THEN Append(frames[g], p)
                 ELSE frames[g]
    BY SendAt
  <2>2. g = <<n, m>> <=> g[1] = n /\ g[2] \in NextHops(n, dst)
    BY DEF Hops
  <2> QED
    BY <2>1, <2>2
<1> HIDE DEF now
<1>2. ASSUME NEW g \in Hops, NEW t \in Types
      PROVE  Count(now[g], t) = Count(frames[g], t)
                                    + IF g = <<n, m>> /\ p.type = t THEN 1 ELSE 0
  <2>1. Count(frames[g], t) \in Nat /\ frames[g] \in Seq(Packets)
    BY KindIsFinite
  <2>2. CASE g = <<n, m>>
    <3>1. now[g] = Append(frames[g], p)
      BY <1>1, <2>2
    <3> QED
      BY <2>1, <2>2, <3>1, CountAppended
  <2>3. CASE g # <<n, m>>
    BY <1>1, <2>1, <2>3
  <2> QED
    BY <2>2, <2>3
<1>3. ASSUME NEW g \in Hops, NEW k \in DOMAIN now[g]
      PROVE  \/ g = <<n, m>> /\ now[g][k] = p
             \/ \E j \in DOMAIN frames[g] : now[g][k] = frames[g][j]
  <2>1. CASE g = <<n, m>>
    <3>1. now[g] = Append(frames[g], p) /\ frames[g] \in Seq(Packets)
      BY <1>1, <2>1
    <3>2. \A l \in DOMAIN Append(frames[g], p) :
             Append(frames[g], p)[l] = p
                \/ \E j \in DOMAIN frames[g] : Append(frames[g], p)[l] = frames[g][j]
      BY <3>1, TailAndAppend
    <3>3. k \in DOMAIN Append(frames[g], p) /\ now[g][k] = Append(frames[g], p)[k]
      BY <1>3, <3>1
    <3>4. now[g][k] = p \/ \E j \in DOMAIN frames[g] : now[g][k] = frames[g][j]
      BY <3>2, <3>3
    <3> QED
      BY <2>1, <3>4
  <2>2. CASE g # <<n, m>>
    BY <1>1, <1>3, <2>2
  <2> QED
    BY <2>1, <2>2
<1>4. Joined(<<n, m>>, p, frames, now)
  BY <1>2, <1>3 DEF Joined
<1> QED
  BY <1>4 DEF now

\* The numbers that Covered adds up.
LEMMA Numbers ==
    ASSUME TypeOK, NEW path, Chain(path), NEW i \in Inner(path)
    PROVE  /\ i \in Nat /\ i \in Steps(path) /\ i - 1 \in Steps(path) /\ i + 1 \in 1..Len(path)
           /\ i \in 1..Len(path) /\ i - 1 \in 1..Len(path) /\ (i - 1) + 1 = i
           /\ path[i] \in Node \ {Consumer, Store} /\ path[i + 1] \in Node
           /\ pitCtr[path[i]] \in Nat /\ pitCtr[path[i + 1]] \in Nat
           /\ Up(path, i) \in Hops /\ Down(path, i) \in Hops
           /\ \A t : Count(net[Up(path, i)], t) \in Nat /\ Count(net[Down(path, i)], t) \in Nat
<1>1. /\ i \in Nat /\ i \in Steps(path) /\ i - 1 \in Steps(path) /\ i + 1 \in 1..Len(path)
      /\ i \in 1..Len(path) /\ i - 1 \in 1..Len(path) /\ (i - 1) + 1 = i
      /\ i # 1 /\ i # Len(path) /\ 1 \in 1..Len(path) /\ Len(path) \in 1..Len(path)
  BY PathFacts DEF Inner, Steps
<1>2. path[i] \in Node \ {Consumer, Store} /\ path[i + 1] \in Node
  BY <1>1, PathFacts
<1>3. pitCtr[path[i]] \in Nat /\ pitCtr[path[i + 1]] \in Nat
  BY <1>2 DEF TypeOK
<1>4. Up(path, i) \in Hops /\ Down(path, i) \in Hops
  BY <1>1, PathHops
<1>5. \A t : Count(net[Up(path, i)], t) \in Nat /\ Count(net[Down(path, i)], t) \in Nat
  BY <1>4, KindIsFinite DEF TypeOK
<1> QED
  BY <1>1, <1>2, <1>3, <1>4, <1>5

\* A packet that was not on a hop before is background, or goes the right way.
Joins(path) ==
    \A g \in Hops : \A k \in DOMAIN net'[g] :
        \/ \E j \in DOMAIN net[g] : net'[g][k] = net[g][j]
        \/ net'[g][k].type = "BACKGROUND"
        \/ net'[g][k].type = "INTEREST" /\ \E i \in Steps(path) : g = Up(path, i)
        \/ net'[g][k].type = "CONTENT" /\ \E i \in Steps(path) : g = Down(path, i)

LEMMA StaysOneWay ==
    ASSUME NEW path, OneWay(path), Joins(path)
    PROVE  OneWay(path)'
<1> SUFFICES ASSUME NEW g \in Hops, NEW k \in DOMAIN net'[g]
             PROVE  /\ net'[g][k].type = "INTEREST" => \E i \in Steps(path) : g = Up(path, i)
                    /\ net'[g][k].type = "CONTENT" => \E i \in Steps(path) : g = Down(path, i)
  BY DEF OneWay
<1>1. CASE \E j \in DOMAIN net[g] : net'[g][k] = net[g][j]
  BY <1>1 DEF OneWay
<1>2. CASE ~\E j \in DOMAIN net[g] : net'[g][k] = net[g][j]
  BY <1>2 DEF Joins
<1> QED
  BY <1>1, <1>2

\* A step that counts no request, and on the way puts neither an Interest nor
\* content on a hop.
LEMMA QuietStep ==
    ASSUME TypeOK, TypeOK', NEW path, Chain(path), InLine(path), Joins(path),
           UNCHANGED <<pitEntry, pitCtr>>,
           \A i \in Inner(path) :
              /\ Count(net'[Down(path, i)], "CONTENT") <= Count(net[Down(path, i)], "CONTENT")
              /\ Count(net'[Up(path, i)], "INTEREST") <= Count(net[Up(path, i)], "INTEREST")
    PROVE  InLine(path)'
<1>1. OneWay(path)'
  BY StaysOneWay DEF InLine
<1>2. Remembered(path)'
  BY DEF InLine, Remembered
<1>3. Covered(path)'
  <2> SUFFICES ASSUME NEW i \in Inner(path)
               PROVE  Count(net'[Down(path, i)], "CONTENT") + Count(net'[Up(path, i)], "INTEREST")
                         + pitCtr[path[i + 1]] <= pitCtr[path[i]]
    BY DEF Covered
  <2>1. Count(net[Down(path, i)], "CONTENT") + Count(net[Up(path, i)], "INTEREST")
           + pitCtr[path[i + 1]] <= pitCtr[path[i]]
    BY DEF InLine, Covered
  <2>2. /\ pitCtr[path[i]] \in Nat /\ pitCtr[path[i + 1]] \in Nat
        /\ Count(net[Down(path, i)], "CONTENT") \in Nat /\ Count(net[Up(path, i)], "INTEREST") \in Nat
        /\ Up(path, i) \in Hops /\ Down(path, i) \in Hops
    BY Numbers
  <2>3. /\ Count(net'[Down(path, i)], "CONTENT") \in Nat
        /\ Count(net'[Up(path, i)], "INTEREST") \in Nat
    BY <2>2, KindIsFinite DEF TypeOK
  <2>4. /\ Count(net'[Down(path, i)], "CONTENT") <= Count(net[Down(path, i)], "CONTENT")
        /\ Count(net'[Up(path, i)], "INTEREST") <= Count(net[Up(path, i)], "INTEREST")
    OBVIOUS
  <2> QED
    BY <2>1, <2>2, <2>3, <2>4
<1> QED
  BY <1>1, <1>2, <1>3 DEF InLine

\* The consumer's Interest is on no hop that is counted.
LEMMA TimerStep ==
    ASSUME TypeOK, TypeOK', NEW path, Chain(path), InLine(path), HandleTimer
    PROVE  InLine(path)'
<1>1. PICK seq \in ReadAt(Head(queue)) : HandleMessage(seq)
  BY DEF HandleTimer
<1>2. icn_initInterest(seq) /\ UNCHANGED <<pitEntry, pitCtr>> /\ net \in [Hops -> Seq(Packets)]
  BY <1>1 DEF HandleMessage, TypeOK
<1>3. CASE Received(seq) \/ FlowControl(seq) \/ seq >= NUMBER_OF_CHUNKS
  <2>1. net' = net
    BY <1>2, <1>3 DEF icn_initInterest
  <2>2. Joins(path)
    BY <2>1 DEF Joins
  <2>3. ASSUME NEW i \in Inner(path)
        PROVE  /\ Count(net'[Down(path, i)], "CONTENT") <= Count(net[Down(path, i)], "CONTENT")
               /\ Count(net'[Up(path, i)], "INTEREST") <= Count(net[Up(path, i)], "INTEREST")
    <3>1. /\ Count(net[Down(path, i)], "CONTENT") \in Nat
          /\ Count(net[Up(path, i)], "INTEREST") \in Nat
      BY Numbers
    <3> QED
      BY <2>1, <3>1
  <2> QED
    BY <1>2, <2>2, <2>3, QuietStep
<1>4. CASE ~(Received(seq) \/ FlowControl(seq) \/ seq >= NUMBER_OF_CHUNKS)
  <2> DEFINE p == [type |-> "INTEREST", seq |-> seq]
  <2>1. net' = icn_send(Consumer, Store, p, net)
    BY <1>2, <1>4 DEF icn_initInterest
  <2>2. p \in Packets
    <3>1. seq \in {0, tmp1, tmp2} \cup Stale
      BY DEF ReadAt, Messages, HandleTimer, TypeOK
    <3>2. seq \in Nat
      <4>1. tmp1 \in 0..255 /\ tmp2 \in 0..255
        BY ChunksAreBytes DEF TypeOK
      <4> QED
        BY <3>1, <4>1, ConstantsAssumption
    <3>3. seq \in Chunks
      BY <1>4, <3>2, ChunksAreBytes DEF Chunks
    <3> QED
      BY <3>3 DEF Packets, Types
  <2>3. /\ 1 \in Steps(path) /\ NextHops(Consumer, Store) = {path[2]}
        /\ <<Consumer, path[2]>> = Up(path, 1)
    <3>1. 1 \in Steps(path) /\ path[1] = Consumer /\ 1 + 1 = 2
      BY PathFacts DEF Steps
    <3>2. NextHops(path[1], Store) = {path[1 + 1]}
      BY <3>1 DEF Chain
    <3> QED
      BY <3>1, <3>2 DEF Up
  <2> HIDE DEF p
  <2>4. Joined(Up(path, 1), p, net, net')
    BY <1>2, <2>1, <2>2, <2>3, PutOn
  <2>5. p.type = "INTEREST"
    BY DEF p
  <2>6. Joins(path)
    BY <2>3, <2>4, <2>5 DEF Joined, Joins
  <2>7. ASSUME NEW i \in Inner(path)
        PROVE  /\ Count(net'[Down(path, i)], "CONTENT") <= Count(net[Down(path, i)], "CONTENT")
               /\ Count(net'[Up(path, i)], "INTEREST") <= Count(net[Up(path, i)], "INTEREST")
    <3>0. i # 1
      BY DEF Inner
    <3>1. /\ i \in Steps(path) /\ Up(path, i) \in Hops /\ Down(path, i) \in Hops /\ i # 1
          /\ Count(net[Down(path, i)], "CONTENT") \in Nat
          /\ Count(net[Up(path, i)], "INTEREST") \in Nat
      BY <3>0, Numbers
    <3>2. Up(path, i) # Up(path, 1)
      BY <2>3, <3>1, PathHops
    <3>3. Count(net'[Down(path, i)], "CONTENT") = Count(net[Down(path, i)], "CONTENT") + 0
      BY <2>4, <2>5, <3>1 DEF Types, Joined
    <3>4. Count(net'[Up(path, i)], "INTEREST") = Count(net[Up(path, i)], "INTEREST") + 0
      BY <2>4, <2>5, <3>1, <3>2 DEF Types, Joined
    <3> QED
      BY <3>1, <3>3, <3>4
  <2> QED
    BY <1>2, <2>6, <2>7, QuietStep
<1> QED
  BY <1>3, <1>4

\* Taking the first frame of a hop off, without more, adds nothing.
LEMMA DropStep ==
    ASSUME TypeOK, TypeOK', NEW path, Chain(path), InLine(path),
           NEW h \in Hops, net[h] # <<>>, net' = [net EXCEPT ![h] = Tail(@)],
           UNCHANGED <<pitEntry, pitCtr>>
    PROVE  InLine(path)'
<1>1. Taken(h, net')
  BY TakeOff
<1>2. Joins(path)
  BY <1>1 DEF Taken, Joins
<1>3. ASSUME NEW g \in Hops, NEW t \in Types
      PROVE  Count(net'[g], t) <= Count(net[g], t)
  <2>0. net'[g] \in Seq(Packets)
    BY DEF TypeOK
  <2>1. Count(net'[g], t) \in Nat
    BY <2>0, KindIsFinite
  <2>2. Count(net[g], t) = Count(net'[g], t) + IF g = h /\ Head(net[h]).type = t THEN 1 ELSE 0
    BY <1>1 DEF Taken
  <2> QED
    BY <2>1, <2>2
<1>4. \A i \in Inner(path) : Up(path, i) \in Hops /\ Down(path, i) \in Hops
  BY Numbers
<1> QED
  BY <1>2, <1>3, <1>4, QuietStep DEF Types

\* Background traffic is not counted.
LEMMA BackgroundStep ==
    ASSUME TypeOK, TypeOK', NEW path, Chain(path), InLine(path),
           NEW n, icn_initBackground(n)
    PROVE  InLine(path)'
<1> DEFINE p == [type |-> "BACKGROUND", seq |-> 0]
<1>1. net' = icn_send(n, Store, p, net) /\ UNCHANGED <<pitEntry, pitCtr>>
  BY DEF icn_initBackground
<1>2. p \in Packets /\ p.type = "BACKGROUND"
  BY ConstantsAssumption DEF Packets, Types, Chunks
<1> HIDE DEF p
<1>3. ASSUME NEW g \in Hops
      PROVE  net'[g] = Append(net[g], p) \/ net'[g] = net[g]
  <2>1. net'[g] = icn_send(n, Store, p, net)[g]
    BY <1>1
  <2>2. icn_send(n, Store, p, net)[g] =
           IF g[1] = n /\ g[2] \in NextHops(n, Store) THEN Append(net[g], p) ELSE net[g]
    BY SendAt
  <2> QED
    BY <2>1, <2>2
<1>4. \A g \in Hops : net[g] \in Seq(Packets)
  BY DEF TypeOK
<1>5. Joins(path)
  <2> SUFFICES ASSUME NEW g \in Hops, NEW k \in DOMAIN net'[g]
               PROVE  \/ \E j \in DOMAIN net[g] : net'[g][k] = net[g][j]
                      \/ net'[g][k].type = "BACKGROUND"
    BY DEF Joins
  <2>1. CASE net'[g] = net[g]
    BY <2>1
  <2>2. CASE net'[g] = Append(net[g], p)
    <3>1. \A l \in DOMAIN Append(net[g], p) :
             Append(net[g], p)[l] = p \/ \E j \in DOMAIN net[g] : Append(net[g], p)[l] = net[g][j]
      BY <1>2, <1>4, TailAndAppend
    <3> QED
      BY <1>2, <2>2, <3>1
  <2> QED
    BY <1>3, <2>1, <2>2
<1>6. ASSUME NEW g \in Hops, NEW t \in {"INTEREST", "CONTENT"}
      PROVE  Count(net'[g], t) = Count(net[g], t)
  <2>1. CASE net'[g] = net[g]
    BY <2>1
  <2>2. CASE net'[g] = Append(net[g], p)
    <3>1. p.type # t
      BY <1>2
    <3> QED
      BY <1>2, <1>4, <2>2, <3>1, CountAppended
  <2> QED
    BY <1>3, <2>1, <2>2
<1>7. ASSUME NEW i \in Inner(path)
      PROVE  /\ Count(net'[Down(path, i)], "CONTENT") <= Count(net[Down(path, i)], "CONTENT")
             /\ Count(net'[Up(path, i)], "INTEREST") <= Count(net[Up(path, i)], "INTEREST")
  <2>1. /\ Down(path, i) \in Hops /\ Up(path, i) \in Hops
        /\ Count(net[Down(path, i)], "CONTENT") \in Nat
        /\ Count(net[Up(path, i)], "INTEREST") \in Nat
    BY Numbers
  <2>2. /\ Count(net'[Down(path, i)], "CONTENT") = Count(net[Down(path, i)], "CONTENT")
        /\ Count(net'[Up(path, i)], "INTEREST") = Count(net[Up(path, i)], "INTEREST")
    BY <1>6, <2>1
  <2> QED
    BY <2>1, <2>2
<1> QED
  BY <1>1, <1>5, <1>7, QuietStep

\* A packet of type t leaves hop h, and packet p joins hop g.
Moves(h, t, g, p) ==
    /\ \A x \in Hops, y \in Types :
          Count(net'[x], y) + (IF x = h /\ t = y THEN 1 ELSE 0)
             = Count(net[x], y) + (IF x = g /\ p.type = y THEN 1 ELSE 0)
    /\ \A x \in Hops : \A k \in DOMAIN net'[x] :
          (x = g /\ net'[x][k] = p) \/ \E j \in DOMAIN net[x] : net'[x][k] = net[x][j]

LEMMA Moved ==
    ASSUME NEW h \in Hops, NEW frames, Taken(h, frames), NEW g, NEW p, Joined(g, p, frames, net')
    PROVE  Moves(h, Head(net[h]).type, g, p)
<1>1. ASSUME NEW x \in Hops, NEW y \in Types
      PROVE  Count(net'[x], y) + (IF x = h /\ Head(net[h]).type = y THEN 1 ELSE 0)
                = Count(net[x], y) + (IF x = g /\ p.type = y THEN 1 ELSE 0)
  <2> DEFINE out == IF x = h /\ Head(net[h]).type = y THEN 1 ELSE 0
             in == IF x = g /\ p.type = y THEN 1 ELSE 0
             c == Count(frames[x], y)
  <2>1. c \in Nat
    <3>1. frames[x] \in Seq(Packets)
      BY DEF Taken
    <3> QED
      BY <3>1, KindIsFinite
  <2>2. out \in Nat /\ in \in Nat
    OBVIOUS
  <2>3. Count(net[x], y) = c + out
    BY DEF Taken
  <2>4. Count(net'[x], y) = c + in
    BY DEF Joined
  <2> HIDE DEF out, in, c
  <2>5. Count(net'[x], y) + out = Count(net[x], y) + in
    BY <2>1, <2>2, <2>3, <2>4
  <2> QED
    BY <2>5 DEF out, in
<1>2. ASSUME NEW x \in Hops, NEW k \in DOMAIN net'[x]
      PROVE  (x = g /\ net'[x][k] = p) \/ \E j \in DOMAIN net[x] : net'[x][k] = net[x][j]
  <2>1. CASE x = g /\ net'[x][k] = p
    BY <2>1
  <2>2. CASE \E j \in DOMAIN frames[x] : net'[x][k] = frames[x][j]
    BY <2>2 DEF Taken
  <2> QED
    BY <2>1, <2>2 DEF Joined
<1> QED
  BY <1>1, <1>2 DEF Moves

\* A packet goes from one hop on the way to another.
LEMMA Forwarded ==
    ASSUME TypeOK, NEW h \in Hops, net[h] # <<>>, NEW n, NEW dst, NEW m, NextHops(n, dst) = {m},
           NEW p \in Packets, net' = icn_send(n, dst, p, [net EXCEPT ![h] = Tail(@)])
    PROVE  Moves(h, Head(net[h]).type, <<n, m>>, p)
<1>1. PICK frames : frames = [net EXCEPT ![h] = Tail(@)]
  OBVIOUS
<1>2. Taken(h, frames)
  BY <1>1, TakeOff
<1>3. frames \in [Hops -> Seq(Packets)]
  BY <1>2 DEF Taken
<1>4. Joined(<<n, m>>, p, frames, icn_send(n, dst, p, frames))
  BY <1>3, PutOn
<1>5. net' = icn_send(n, dst, p, frames)
  BY <1>1
<1> QED
  BY <1>2, <1>4, <1>5, Moved

\* The Interests and the content between a node on the way and the next one,
\* before and after a step that moves a packet.
LEMMA Balance ==
    ASSUME TypeOK, TypeOK', NEW path, Chain(path), NEW i \in Inner(path), NEW h, NEW t, NEW g,
           NEW p, Moves(h, t, g, p)
    PROVE  /\ Count(net'[Up(path, i)], "INTEREST") \in Nat
           /\ Count(net'[Down(path, i)], "CONTENT") \in Nat
           /\ Count(net'[Up(path, i)], "INTEREST")
                 + (IF Up(path, i) = h /\ t = "INTEREST" THEN 1 ELSE 0)
              = Count(net[Up(path, i)], "INTEREST")
                 + (IF Up(path, i) = g /\ p.type = "INTEREST" THEN 1 ELSE 0)
           /\ Count(net'[Down(path, i)], "CONTENT")
                 + (IF Down(path, i) = h /\ t = "CONTENT" THEN 1 ELSE 0)
              = Count(net[Down(path, i)], "CONTENT")
                 + (IF Down(path, i) = g /\ p.type = "CONTENT" THEN 1 ELSE 0)
<1>1. Up(path, i) \in Hops /\ Down(path, i) \in Hops
  BY Numbers
<1>2. net'[Up(path, i)] \in Seq(Packets) /\ net'[Down(path, i)] \in Seq(Packets)
  BY <1>1 DEF TypeOK
<1>3. Count(net'[Up(path, i)], "INTEREST") \in Nat /\ Count(net'[Down(path, i)], "CONTENT") \in Nat
  BY <1>2, KindIsFinite
<1>4. "INTEREST" \in Types /\ "CONTENT" \in Types
  BY DEF Types
<1> QED
  BY <1>1, <1>3, <1>4 DEF Moves

\* The store answers an Interest: content joins the hop back to the last node.
LEMMA AnswerStep ==
    ASSUME TypeOK, TypeOK', NEW path, Chain(path), InLine(path), NEW i \in Steps(path),
           NEW p, p.type = "CONTENT", Moves(Up(path, i), "INTEREST", Down(path, i), p),
           UNCHANGED <<pitEntry, pitCtr>>
    PROVE  InLine(path)'
<1>1. Joins(path)
  BY DEF Moves, Joins
<1>2. OneWay(path)' /\ Remembered(path)'
  BY <1>1, StaysOneWay DEF InLine, Remembered
<1>3. ASSUME NEW j \in Inner(path)
      PROVE  Count(net'[Down(path, j)], "CONTENT") + Count(net'[Up(path, j)], "INTEREST")
                + pitCtr'[path[j + 1]] <= pitCtr'[path[j]]
  <2> DEFINE C == Count(net[Down(path, j)], "CONTENT")
             I == Count(net[Up(path, j)], "INTEREST")
             CC == Count(net'[Down(path, j)], "CONTENT")
             II == Count(net'[Up(path, j)], "INTEREST")
             a == pitCtr[path[j]]
             b == pitCtr[path[j + 1]]
  <2>1. a \in Nat /\ b \in Nat /\ C \in Nat /\ I \in Nat /\ j \in Steps(path)
    BY Numbers
  <2>2. C + I + b <= a
    BY DEF InLine, Covered
  <2>3. /\ CC \in Nat /\ II \in Nat
        /\ II + (IF Up(path, j) = Up(path, i) THEN 1 ELSE 0) = I + 0
        /\ CC + 0 = C + (IF Down(path, j) = Down(path, i) THEN 1 ELSE 0)
    BY Balance
  <2>4. (Up(path, j) = Up(path, i) <=> j = i) /\ (Down(path, j) = Down(path, i) <=> j = i)
    BY <2>1, PathHops
  <2> HIDE DEF CC, II, C, I, a, b
  <2>5. CC + II + b <= a
    BY <2>1, <2>2, <2>3, <2>4
  <2> QED
    BY <2>5 DEF CC, II, a, b
<1> QED
  BY <1>2, <1>3 DEF InLine, Covered

\* A node on the way counts a request and passes the Interest on.
LEMMA RequestStep ==
    ASSUME TypeOK, TypeOK', NEW path, Chain(path), InLine(path), NEW i \in Steps(path),
           i + 1 \in Inner(path),
           NEW p, p.type = "INTEREST", Moves(Up(path, i), "INTEREST", Up(path, i + 1), p),
           pitEntry' = [pitEntry EXCEPT ![path[i + 1]] = path[i]],
           pitCtr' = [pitCtr EXCEPT ![path[i + 1]] = @ + 1]
    PROVE  InLine(path)'
<1>0. /\ i \in Nat /\ i + 1 \in Steps(path) /\ (i + 1) - 1 = i
      /\ path[i + 1] \in Node /\ pitCtr[path[i + 1]] \in Nat
  BY PathFacts, Numbers DEF Steps
<1>1. Joins(path)
  BY <1>0 DEF Moves, Joins
<1>2. OneWay(path)'
  BY <1>1, StaysOneWay DEF InLine
<1>3. /\ pitCtr'[path[i + 1]] = pitCtr[path[i + 1]] + 1 /\ pitEntry'[path[i + 1]] = path[i]
      /\ \A n \in Node \ {path[i + 1]} : pitCtr'[n] = pitCtr[n] /\ pitEntry'[n] = pitEntry[n]
  BY <1>0 DEF TypeOK
<1>4. Remembered(path)'
  <2> SUFFICES ASSUME NEW n \in Node, pitCtr'[n] > 0
               PROVE  \E j \in Inner(path) : n = path[j] /\ pitEntry'[n] = path[j - 1]
    BY DEF Remembered
  <2>1. CASE n = path[i + 1]
    BY <1>0, <1>3, <2>1
  <2>2. CASE n # path[i + 1]
    BY <1>3, <2>2 DEF InLine, Remembered
  <2> QED
    BY <2>1, <2>2
<1>5. ASSUME NEW j \in Inner(path)
      PROVE  Count(net'[Down(path, j)], "CONTENT") + Count(net'[Up(path, j)], "INTEREST")
                + pitCtr'[path[j + 1]] <= pitCtr'[path[j]]
  <2> DEFINE C == Count(net[Down(path, j)], "CONTENT")
             I == Count(net[Up(path, j)], "INTEREST")
             CC == Count(net'[Down(path, j)], "CONTENT")
             II == Count(net'[Up(path, j)], "INTEREST")
             a == pitCtr[path[j]]
             b == pitCtr[path[j + 1]]
             aa == pitCtr'[path[j]]
             bb == pitCtr'[path[j + 1]]
  <2>1. /\ a \in Nat /\ b \in Nat /\ C \in Nat /\ I \in Nat /\ j \in Steps(path) /\ j \in Nat
        /\ j \in 1..Len(path) /\ j + 1 \in 1..Len(path)
        /\ path[j] \in Node /\ path[j + 1] \in Node
    BY Numbers
  <2>2. C + I + b <= a
    BY DEF InLine, Covered
  <2>3. /\ CC \in Nat /\ II \in Nat
        /\ II + (IF Up(path, j) = Up(path, i) THEN 1 ELSE 0)
              = I + (IF Up(path, j) = Up(path, i + 1) THEN 1 ELSE 0)
        /\ CC + 0 = C + 0
    BY Balance
  <2>4. (Up(path, j) = Up(path, i) <=> j = i) /\ (Up(path, j) = Up(path, i + 1) <=> j = i + 1)
    BY <1>0, <2>1, PathHops
  <2>5. (path[j] = path[i + 1] <=> j = i + 1) /\ (path[j + 1] = path[i + 1] <=> j = i)
    <3>1. i + 1 \in 1..Len(path)
      BY PathFacts
    <3>2. path[j + 1] = path[i + 1] => j + 1 = i + 1
      BY <2>1, <3>1, PathFacts
    <3>3. path[j] = path[i + 1] => j = i + 1
      BY <2>1, <3>1, PathFacts
    <3> QED
      BY <1>0, <2>1, <3>2, <3>3
  <2>6. (j = i + 1 => aa = a + 1) /\ (j # i + 1 => aa = a)
    BY <1>3, <2>1, <2>5
  <2>7. (j = i => bb = b + 1) /\ (j # i => bb = b)
    BY <1>3, <2>1, <2>5
  <2> HIDE DEF CC, II, C, I, a, b, aa, bb
  <2>8. CC + II + bb <= aa
    BY <1>0, <2>1, <2>2, <2>3, <2>4, <2>6, <2>7
  <2> QED
    BY <2>8 DEF CC, II, aa, bb
<1> QED
  BY <1>2, <1>4, <1>5 DEF InLine, Covered

\* A node on the way passes content on to the one it has the request from.
LEMMA ContentStep ==
    ASSUME TypeOK, TypeOK', NEW path, Chain(path), InLine(path), NEW i \in Inner(path),
           NEW p, p.type = "CONTENT", Moves(Down(path, i), "CONTENT", Down(path, i - 1), p),
           pitCtr[path[i]] > 0, UNCHANGED pitEntry, pitCtr' = [pitCtr EXCEPT ![path[i]] = @ - 1]
    PROVE  InLine(path)'
<1>0. /\ i \in Nat /\ i \in Steps(path) /\ i - 1 \in Steps(path) /\ (i - 1) + 1 = i
      /\ i \in 1..Len(path) /\ path[i] \in Node /\ pitCtr[path[i]] \in Nat
  BY Numbers
<1>1. Joins(path)
  BY <1>0 DEF Moves, Joins
<1>2. OneWay(path)'
  BY <1>1, StaysOneWay DEF InLine
<1>3. /\ pitCtr'[path[i]] = pitCtr[path[i]] - 1
      /\ \A n \in Node \ {path[i]} : pitCtr'[n] = pitCtr[n]
  BY <1>0 DEF TypeOK
<1>4. Remembered(path)'
  <2> SUFFICES ASSUME NEW n \in Node, pitCtr'[n] > 0
               PROVE  \E j \in Inner(path) : n = path[j] /\ pitEntry'[n] = path[j - 1]
    BY DEF Remembered
  <2>1. pitCtr[n] > 0
    BY <1>3
  <2> QED
    BY <2>1 DEF InLine, Remembered
<1>5. ASSUME NEW j \in Inner(path)
      PROVE  Count(net'[Down(path, j)], "CONTENT") + Count(net'[Up(path, j)], "INTEREST")
                + pitCtr'[path[j + 1]] <= pitCtr'[path[j]]
  <2> DEFINE C == Count(net[Down(path, j)], "CONTENT")
             I == Count(net[Up(path, j)], "INTEREST")
             CC == Count(net'[Down(path, j)], "CONTENT")
             II == Count(net'[Up(path, j)], "INTEREST")
             a == pitCtr[path[j]]
             b == pitCtr[path[j + 1]]
             aa == pitCtr'[path[j]]
             bb == pitCtr'[path[j + 1]]
  <2>1. /\ a \in Nat /\ b \in Nat /\ C \in Nat /\ I \in Nat /\ j \in Steps(path) /\ j \in Nat
        /\ j \in 1..Len(path) /\ j + 1 \in 1..Len(path)
        /\ path[j] \in Node /\ path[j + 1] \in Node
    BY Numbers
  <2>2. C + I + b <= a
    BY DEF InLine, Covered
  <2>3. /\ CC \in Nat /\ II \in Nat
        /\ II + 0 = I + 0
        /\ CC + (IF Down(path, j) = Down(path, i) THEN 1 ELSE 0)
              = C + (IF Down(path, j) = Down(path, i - 1) THEN 1 ELSE 0)
    BY Balance
  <2>4. /\ Down(path, j) = Down(path, i) <=> j = i
        /\ Down(path, j) = Down(path, i - 1) <=> j = i - 1
    BY <1>0, <2>1, PathHops
  <2>5. (path[j] = path[i] <=> j = i) /\ (path[j + 1] = path[i] <=> j = i - 1)
    <3>1. path[j + 1] = path[i] => j + 1 = i
      BY <1>0, <2>1, PathFacts
    <3>2. path[j] = path[i] => j = i
      BY <1>0, <2>1, PathFacts
    <3>3. j = i - 1 => j + 1 = i
      BY <1>0, <2>1
    <3>4. j + 1 = i => j = i - 1
      BY <1>0, <2>1
    <3> QED
      BY <3>1, <3>2, <3>3, <3>4
  <2>6. (j = i => aa = a - 1) /\ (j # i => aa = a)
    BY <1>3, <2>1, <2>5
  <2>7. (j = i - 1 => bb = b - 1) /\ (j # i - 1 => bb = b)
    BY <1>3, <2>1, <2>5
  <2> HIDE DEF CC, II, C, I, a, b, aa, bb
  <2>8. CC + II + bb <= aa
    BY <1>0, <2>1, <2>2, <2>3, <2>4, <2>6, <2>7
  <2> QED
    BY <2>8 DEF CC, II, aa, bb
<1> QED
  BY <1>2, <1>4, <1>5 DEF InLine, Covered

\* A frame that arrives once: an Interest at the store or at a node on the way,
\* content at a node on the way or at the consumer, or background.
LEMMA TakeStep ==
    ASSUME TypeOK, TypeOK', NEW path, Chain(path), InLine(path),
           NEW h \in Hops, net[h] # <<>>, Take(h)
    PROVE  InLine(path)'
<1> DEFINE p == Head(net[h])
           frames == [net EXCEPT ![h] = Tail(@)]
<1>1. /\ rcv(h, p, frames) /\ net[h] \in Seq(Packets)
      /\ p \in Packets /\ p = net[h][1] /\ 1 \in DOMAIN net[h]
  BY DEF Take, TypeOK
<1>2. p.type \in Types /\ p.seq \in Chunks
  BY <1>1 DEF Packets
<1>3. /\ p.type = "INTEREST" => \E i \in Steps(path) : h = Up(path, i)
      /\ p.type = "CONTENT" => \E i \in Steps(path) : h = Down(path, i)
  BY <1>1 DEF InLine, OneWay
<1>4. CASE p.type = "INTEREST"
  <2>1. PICK i \in Steps(path) : h = Up(path, i)
    BY <1>3, <1>4
  <2>2. /\ h[1] = path[i] /\ h[2] = path[i + 1]
        /\ path[i] \in Node /\ path[i + 1] \in Node
        /\ i \in 1..Len(path) /\ i + 1 \in 1..Len(path)
    BY <2>1, PathFacts DEF Up
  <2>3. CASE h[2] = Store
    <3> DEFINE q == [type |-> "CONTENT", seq |-> p.seq]
               n == path[i + 1]
               m == path[i]
    <3>1. icn_initContent(h[1], p.seq, frames)
      BY <1>1, <1>4, <2>3 DEF rcv
    <3>2. net' = icn_send(n, m, q, [net EXCEPT ![h] = Tail(@)]) /\ UNCHANGED <<pitEntry, pitCtr>>
      BY <2>2, <2>3, <3>1 DEF icn_initContent
    <3>3. q \in Packets /\ q.type = "CONTENT"
      BY <1>2 DEF Packets, Types
    <3>4. NextHops(n, m) = {m} /\ Down(path, i) = <<n, m>>
      BY DEF Chain, Down
    <3> HIDE DEF q, n, m
    <3>5. Moves(h, p.type, <<n, m>>, q)
      BY <3>2, <3>3, <3>4, Forwarded
    <3>6. Moves(Up(path, i), "INTEREST", Down(path, i), q)
      BY <1>4, <2>1, <3>4, <3>5
    <3> QED
      BY <3>2, <3>3, <3>6, AnswerStep
  <2>4. CASE h[2] # Store
    <3> DEFINE n == path[i + 1]
               m == path[(i + 1) + 1]
    <3>1. ForwardInterest(h[2], h[1], p, frames)
      BY <1>1, <1>4, <2>4 DEF rcv
    <3>2. /\ net' = icn_send(n, Store, p, [net EXCEPT ![h] = Tail(@)])
          /\ pitEntry' = [pitEntry EXCEPT ![path[i + 1]] = path[i]]
          /\ pitCtr' = [pitCtr EXCEPT ![path[i + 1]] = @ + 1]
      BY <2>2, <3>1 DEF ForwardInterest
    <3>3. i + 1 \in Inner(path) /\ i + 1 \in Steps(path)
      <4>1. i + 1 # Len(path) /\ Len(path) \in Nat /\ i \in Nat /\ i >= 1
        BY <2>2, <2>4, PathFacts
      <4> QED
        BY <2>2, <4>1 DEF Inner, Steps
    <3>4. NextHops(n, Store) = {m} /\ Up(path, i + 1) = <<n, m>>
      BY <3>3 DEF Chain, Up
    <3> HIDE DEF n, m, p
    <3>5. Moves(h, Head(net[h]).type, <<n, m>>, p)
      BY <1>1, <3>2, <3>4, Forwarded
    <3>6. Moves(Up(path, i), "INTEREST", Up(path, i + 1), p)
      BY <1>4, <2>1, <3>4, <3>5 DEF p
    <3> QED
      BY <1>4, <3>2, <3>3, <3>6, RequestStep
  <2> QED
    BY <2>3, <2>4
<1>5. CASE p.type = "CONTENT" /\ pitCtr[h[2]] > 0
  <2>1. PICK i \in Steps(path) : h = Down(path, i)
    BY <1>3, <1>5
  <2>2. h[2] = path[i] /\ path[i] \in Node /\ i \in 1..Len(path)
    BY <2>1, PathFacts DEF Down
  <2>3. i \in Inner(path) /\ pitEntry[path[i]] = path[i - 1]
    <3>1. PICK j \in Inner(path) : path[i] = path[j] /\ pitEntry[path[i]] = path[j - 1]
      BY <1>5, <2>2 DEF InLine, Remembered
    <3>2. j \in 1..Len(path)
      BY Numbers
    <3>3. i = j
      BY <2>2, <3>1, <3>2, PathFacts
    <3> QED
      BY <3>1, <3>3
  <2> DEFINE n == path[i]
             m == path[i - 1]
  <2>4. ForwardContent(h[2], p, frames)
    BY <1>1, <1>5 DEF rcv
  <2>5. /\ net' = icn_send(n, m, p, [net EXCEPT ![h] = Tail(@)]) /\ UNCHANGED pitEntry
        /\ pitCtr' = [pitCtr EXCEPT ![path[i]] = @ - 1]
    BY <2>2, <2>3, <2>4 DEF ForwardContent
  <2>6. NextHops(n, m) = {m} /\ Down(path, i - 1) = <<n, m>>
    <3>1. i - 1 \in Steps(path) /\ (i - 1) + 1 = i
      BY <2>3, Numbers
    <3>2. NextHops(path[(i - 1) + 1], path[i - 1]) = {path[i - 1]}
      BY <3>1 DEF Chain
    <3> QED
      BY <3>1, <3>2 DEF Down
  <2> HIDE DEF n, m, p
  <2>7. Moves(h, Head(net[h]).type, <<n, m>>, p)
    BY <1>1, <2>5, <2>6, Forwarded
  <2>8. Moves(Down(path, i), "CONTENT", Down(path, i - 1), p) /\ pitCtr[path[i]] > 0
    BY <1>5, <2>1, <2>2, <2>6, <2>7 DEF p
  <2> QED
    BY <1>5, <2>3, <2>5, <2>8, ContentStep
<1>6. CASE p.type # "INTEREST" /\ ~(p.type = "CONTENT" /\ pitCtr[h[2]] > 0)
  <2>1. net' = frames /\ UNCHANGED <<pitEntry, pitCtr>>
    BY <1>1, <1>6 DEF rcv, AcceptContent
  <2> QED
    BY <2>1, DropStep
<1> QED
  BY <1>4, <1>5, <1>6

LEMMA LineStep ==
    ASSUME TypeOK, TypeOK', NEW path, Chain(path), InLine(path), [Next]_vars,
           UNCHANGED vars \/ Single
    PROVE  InLine(path)'
<1>1. CASE HandleTimer
  BY <1>1, TimerStep
<1>2. ASSUME NEW t \in Messages, Fire(t) PROVE InLine(path)'
  BY <1>2 DEF Fire, InLine, OneWay, Remembered, Covered
<1>3. ASSUME NEW h \in Hops, Receive(h), Single PROVE InLine(path)'
  <2>1. net[h] # <<>> /\ (Take(h) \/ Repeat(h)) /\ ~Repeat(h)
    BY <1>3 DEF Receive, Single
  <2> QED
    BY <2>1, TakeStep
<1>4. ASSUME NEW h \in Hops, Lose(h) PROVE InLine(path)'
  BY <1>4, DropStep DEF Lose
<1>5. ASSUME NEW n \in Noisy, icn_initBackground(n) PROVE InLine(path)'
  BY <1>5, BackgroundStep
<1>6. CASE UNCHANGED vars
  BY <1>6 DEF vars, InLine, OneWay, Remembered, Covered
<1> QED
  BY <1>1, <1>2, <1>3, <1>4, <1>5, <1>6 DEF Next

LEMMA InLineAtFirst ==
    ASSUME Init, NEW path, Chain(path)
    PROVE  InLine(path)
<1>1. /\ \A h \in Hops : net[h] = <<>> /\ DOMAIN net[h] = {}
      /\ \A n \in Node : pitCtr[n] = 0
  BY DEF Init
<1>2. OneWay(path) /\ Remembered(path)
  BY <1>1 DEF OneWay, Remembered
<1>3. ASSUME NEW i \in Inner(path)
      PROVE  Count(net[Down(path, i)], "CONTENT") + Count(net[Up(path, i)], "INTEREST")
                + pitCtr[path[i + 1]] <= pitCtr[path[i]]
  <2>1. TypeOK
    BY InitInv DEF IInv
  <2>2. /\ Up(path, i) \in Hops /\ Down(path, i) \in Hops
        /\ path[i] \in Node /\ path[i + 1] \in Node
    BY <2>1, Numbers
  <2>3. \A t : Count(<<>>, t) = 0
    BY FS_EmptySet DEF Count, Kind
  <2> QED
    BY <1>1, <2>2, <2>3
<1> QED
  BY <1>2, <1>3 DEF InLine, Covered

\* All content for a node on the way comes over one hop.
LEMMA LineCovers ==
    ASSUME TypeOK, NEW path, Chain(path), InLine(path), NEW n \in Node \ {Consumer}
    PROVE  ContentsTo(n) <= pitCtr[n]
<1> DEFINE U == UNION {{h} \X Contents(h) : h \in {g \in Hops : g[2] = n}}
<1>1. pitCtr[n] \in Nat
  BY DEF TypeOK
<1>2. ASSUME NEW h \in Hops, h[2] = n, NEW k \in Contents(h)
      PROVE  \E i \in Inner(path) : n = path[i] /\ h = Down(path, i)
  <2>1. PICK i \in Steps(path) : h = Down(path, i)
    BY <1>2 DEF Contents, InLine, OneWay
  <2>2. n = path[i]
    BY <1>2, <2>1 DEF Down
  <2>3. i # 1
    BY <2>2, PathFacts
  <2>4. i \in Inner(path)
    BY <2>3, PathFacts DEF Inner, Steps
  <2> QED
    BY <2>1, <2>2, <2>4
<1>3. CASE \A h \in Hops : h[2] = n => Contents(h) = {}
  <2>1. U = {}
    BY <1>3
  <2> QED
    BY <1>1, <2>1, FS_EmptySet DEF ContentsTo
<1>4. CASE \E h \in Hops : h[2] = n /\ Contents(h) # {}
  <2>1. PICK i \in Inner(path) : n = path[i]
    BY <1>2, <1>4
  <2> DEFINE d == Down(path, i)
             K == Contents(d)
             f == [k \in K |-> <<d, k>>]
  <2>2. d \in Hops /\ d[2] = n
    BY <2>1, Numbers DEF Down
  <2>3. ASSUME NEW h \in Hops, h[2] = n, NEW k \in Contents(h) PROVE h = d
    <3>1. PICK j \in Inner(path) : n = path[j] /\ h = Down(path, j)
      BY <1>2, <2>3
    <3>2. i \in 1..Len(path) /\ j \in 1..Len(path)
      BY Numbers
    <3>3. i = j
      BY <2>1, <3>1, <3>2, PathFacts
    <3> QED
      BY <3>1, <3>3
  <2> HIDE DEF d
  <2>4. U = {d} \X K
    BY <2>2, <2>3
  <2>5. Cardinality(K) = Count(net[d], "CONTENT") /\ IsFiniteSet(K)
    <3>1. K = Kind(net[d], "CONTENT") /\ net[d] \in Seq(Packets)
      BY <2>2 DEF Contents, Kind, TypeOK
    <3> QED
      BY <3>1, KindIsFinite DEF Count
  <2>6. ExistsBijection(K, {d} \X K)
    <3> HIDE DEF K
    <3>0. /\ f \in [K -> {d} \X K]
          /\ \A k, l \in K : f[k] = f[l] => k = l
          /\ \A x \in {d} \X K : \E k \in K : f[k] = x
      OBVIOUS
    <3> HIDE DEF f
    <3>1. f \in Bijection(K, {d} \X K)
      BY <3>0 DEF Bijection, Injection, Surjection, IsInjective
    <3> QED
      BY <3>1 DEF ExistsBijection
  <2>7. ContentsTo(n) = Count(net[d], "CONTENT")
    BY <2>4, <2>5, <2>6, FS_Bijection DEF ContentsTo
  <2>8. Count(net[d], "CONTENT") <= pitCtr[n]
    <3> DEFINE C == Count(net[Down(path, i)], "CONTENT")
               I == Count(net[Up(path, i)], "INTEREST")
               a == pitCtr[path[i]]
               b == pitCtr[path[i + 1]]
    <3>1. a \in Nat /\ b \in Nat /\ C \in Nat /\ I \in Nat
      BY Numbers
    <3>2. C + I + b <= a
      BY DEF InLine, Covered
    <3>3. C = Count(net[d], "CONTENT") /\ a = pitCtr[n]
      BY <2>1 DEF d
    <3> HIDE DEF C, I, a, b
    <3>4. C <= a
      BY <3>1, <3>2
    <3> QED
      BY <3>3, <3>4
  <2> QED
    BY <2>7, <2>8
<1> QED
  BY <1>3, <1>4

-----------------------------------------------------------------------------
\* The shipped tables: the links of the schedule and the routes.
ShippedLinks ==
    {<<8, 10>>, <<5, 7>>, <<4, 5>>, <<4, 6>>, <<3, 10>>, <<3, 5>>, <<3, 7>>, <<3, 9>>, <<2, 3>>,
     <<2, 4>>, <<2, 5>>, <<2, 6>>, <<2, 7>>, <<1, 2>>, <<1, 4>>, <<1, 6>>, <<1, 7>>}
Route(n, d, m) == [id |-> n, dst |-> d, nextHop |-> m]
ShippedRoutes ==
    <<Route(2, Default, 1), Route(3, Default, 2), Route(4, Default, 1), Route(5, Default, 2),
      Route(6, Default, 1), Route(7, Default, 1), Route(8, Default, 10), Route(9, Default, 3),
      Route(10, Default, 3), Route(1, 3, 2), Route(1, 5, 2)>>

\* They have such a path from the consumer NODE_08.
LEMMA ShippedChain ==
    ASSUME Node = 1..10, Links = ShippedLinks, Routes = ShippedRoutes, Consumer = 8, Store = 1
    PROVE  Chain(<<8, 10, 3, 2, 1>>)
<1> DEFINE path == <<8, 10, 3, 2, 1>>
           to(n, d) == {i \in DOMAIN Routes : Routes[i].id = n /\ Routes[i].dst = d}
<1>1. Default \notin 1..10
  BY ConstantsAssumption
<1>2. /\ _linkIsScheduled(2, 1) /\ _linkIsScheduled(1, 2) /\ _linkIsScheduled(2, 3)
      /\ _linkIsScheduled(3, 10) /\ _linkIsScheduled(10, 8)
      /\ ~_linkIsScheduled(8, 1) /\ ~_linkIsScheduled(10, 1) /\ ~_linkIsScheduled(3, 1)
  BY DEF _linkIsScheduled, ShippedLinks
<1>3. /\ DOMAIN Routes = 1..11
      /\ Routes[1] = Route(2, Default, 1) /\ Routes[2] = Route(3, Default, 2)
      /\ Routes[3] = Route(4, Default, 1) /\ Routes[4] = Route(5, Default, 2)
      /\ Routes[5] = Route(6, Default, 1) /\ Routes[6] = Route(7, Default, 1)
      /\ Routes[7] = Route(8, Default, 10) /\ Routes[8] = Route(9, Default, 3)
      /\ Routes[9] = Route(10, Default, 3) /\ Routes[10] = Route(1, 3, 2)
      /\ Routes[11] = Route(1, 5, 2)
  BY DEF ShippedRoutes
<1>4. \A i \in 1..11 : i \in {1, 2, 3, 4, 5, 6, 7, 8, 9, 10, 11}
  OBVIOUS
<1>5. /\ to(8, 1) = {} /\ to(10, 1) = {} /\ to(3, 1) = {}
      /\ to(8, Default) = {7} /\ to(10, Default) = {9} /\ to(3, Default) = {2}
  BY <1>1, <1>3, <1>4 DEF Route
<1>6. ASSUME NEW k \in Nat PROVE Max({k}) = k
  <2>1. {k} = {k, k} /\ Max({k, k}) \in {k, k}
    BY MaxOfTwo
  <2> QED
    BY <2>1
<1>7. _routeLookup(8, 1) = {10} /\ _routeLookup(10, 1) = {3} /\ _routeLookup(3, 1) = {2}
  BY <1>3, <1>5, <1>6 DEF _routeLookup, Route
<1>8. /\ NextHops(8, 1) = {10} /\ NextHops(10, 1) = {3} /\ NextHops(3, 1) = {2}
      /\ NextHops(2, 1) = {1}
      /\ NextHops(10, 8) = {8} /\ NextHops(3, 10) = {10} /\ NextHops(2, 3) = {3}
      /\ NextHops(1, 2) = {2}
  BY <1>2, <1>7 DEF NextHops, _linkIsScheduled
<1>9. /\ path \in Seq(Node) /\ path # <<>> /\ Len(path) = 5 /\ DOMAIN path = 1..5
      /\ path[1] = 8 /\ path[2] = 10 /\ path[3] = 3 /\ path[4] = 2 /\ path[5] = 1
  OBVIOUS
<1> HIDE DEF path
<1>10. \A i, j \in DOMAIN path : path[i] = path[j] => i = j
  <2>1. \A i \in 1..5 : i \in {1, 2, 3, 4, 5}
    OBVIOUS
  <2> QED
    BY <1>9, <2>1
<1>11. ASSUME NEW i \in Steps(path)
       PROVE  NextHops(path[i], 1) = {path[i + 1]} /\ NextHops(path[i + 1], path[i]) = {path[i]}
  <2>1. i \in {1, 2, 3, 4}
    BY <1>9 DEF Steps
  <2> QED
    BY <1>8, <1>9, <2>1
<1>12. Chain(path)
  BY <1>9, <1>10, <1>11 DEF Chain
<1> QED
  BY <1>12 DEF path

-----------------------------------------------------------------------------
\* Content that reaches a node finds its request pending, on a path of any
\* length, whatever else the network has and does, while no frame is handled
\* twice.
THEOREM AnswersFound ==
    ASSUME NEW path, Chain(path)
    PROVE  MCSpec => []AnswersArePending
<1> DEFINE LInv == IInv /\ (single => InLine(path))
<1>1. MCInit => LInv
  BY InitInv, InLineAtFirst DEF MCInit
<1>2. LInv /\ [MCNext]_MCVars => LInv'
  <2> SUFFICES ASSUME LInv, [MCNext]_MCVars PROVE LInv'
    OBVIOUS
  <2>1. [Next]_vars
    BY DEF MCNext, MCVars
  <2>2. IInv'
    BY <2>1, StepInv
  <2>3. ASSUME single' PROVE InLine(path)'
    <3>1. single /\ (UNCHANGED vars \/ Single)
      BY <2>3 DEF MCNext, MCVars, Track
    <3>2. InLine(path) /\ TypeOK /\ TypeOK'
      BY <2>2, <3>1 DEF IInv
    <3> QED
      BY <2>1, <3>1, <3>2, LineStep
  <2> QED
    BY <2>2, <2>3
<1>3. LInv => AnswersArePending
  BY LineCovers DEF IInv, AnswersArePending
<1> QED
  BY <1>1, <1>2, <1>3, PTL DEF MCSpec

=============================================================================
