----------------------------- MODULE L2Routing -----------------------------
(***************************************************************************)
(* The application l2_routing (src/l2_routing): one node fetches the       *)
(* chunks of a content from another one, hop by hop along static routes.   *)
(* Each node remembers one requester and a counter of pending requests.    *)
(* The consumer asks for the next chunk from a periodic timer, until flow  *)
(* control stops it, and for the smallest missing one from a retry timer.  *)
(*                                                                         *)
(* A handler of the event loop does not block: it is one action.  Frames   *)
(* of one hop stay in order; each may be lost, and may arrive twice when   *)
(* its acknowledgement was lost.  The consumer's timer messages wait in    *)
(* the queue of the loop; packets go to it straight from the link.         *)
(*                                                                         *)
(* The messages of the two timers carry the addresses of tmp1 and tmp2,    *)
(* local variables of icn_initInterest() that are dead when the message is *)
(* read, one byte of each.  The variables below are those two words: each  *)
(* call writes them, and Stale has the other values that may be found      *)
(* where the stack was used in between.                                    *)
(***************************************************************************)
EXTENDS Integers, Sequences, FiniteSets, FiniteSetsExt

CONSTANTS
    Node,              \* node_ids
    Links,             \* ssf_int: pairs <<sender, receiver>>
    Routes,            \* routing_table: a sequence of [id, dst, nextHop]
    Default,           \* the NULL of a default route
    Store,             \* CONTENT_STORE
    Consumer,          \* the node of WANT_CONTENT
    Noisy,             \* the nodes of BACKGROUND_NODE
    NUMBER_OF_CHUNKS,
    FLOW_THR,
    Stale,             \* what else may be read where tmp1 and tmp2 were
    Duplicates,        \* may a frame arrive twice?
    MaxLoss,           \* bound: the frames that are lost
    MaxFlight,         \* bound: the frames on their way when one is added
    MaxQueue           \* bound: the timer messages that wait

Chunks == 0..(NUMBER_OF_CHUNKS - 1)

ASSUME ConstantsAssumption ==
    /\ IsFiniteSet(Node)
    /\ Links \subseteq Node \X Node
    /\ Default \notin Node
    /\ Routes \in Seq([id : Node, dst : Node \cup {Default}, nextHop : Node])
    /\ Store \in Node
    /\ Consumer \in Node \ {Store}
    /\ Noisy \subseteq Node \ {Consumer, Store}
    /\ NUMBER_OF_CHUNKS \in 1..128
    /\ FLOW_THR \in Nat \ {0}
    /\ Stale \subseteq 0..255
    /\ Duplicates \in BOOLEAN
    /\ {MaxLoss, MaxFlight, MaxQueue} \subseteq Nat

VARIABLES
    received,         \* received_chunks of the consumer
    receiveCounter,   \* receive_counter of the consumer
    timers,           \* periodic_vt and retry_vt, named by their messages
    queue,            \* the timer messages in the consumer's queue
    tmp1, tmp2,       \* the words the messages RESEND and SEND point to
    pitEntry,         \* pit_entry of every node
    pitCtr,           \* pit_ctr of every node
    net,              \* the frames on each hop, the first to arrive first
    lost              \* the frames lost so far

consumerVars == <<received, receiveCounter, timers, queue, tmp1, tmp2>>
vars == <<consumerVars, pitEntry, pitCtr, net, lost>>

Types == {"INTEREST", "CONTENT", "BACKGROUND"}
Packets == [type : Types, seq : Chunks]
Messages == {"FIRST", "SEND", "RESEND"}

-----------------------------------------------------------------------------
(***************************************************************************)
(* Routes.                                                                 *)
(***************************************************************************)

_linkIsScheduled(n, dst) == <<n, dst>> \in Links \/ <<dst, n>> \in Links

\* The next hop of n towards dst, if there is a route: the first dedicated one,
\* or else the last default one.  Comparing dst with the NULL of a default
\* route reads address 0, where no node's ID is.
_routeLookup(n, dst) ==
    LET to(d) == {i \in DOMAIN Routes : Routes[i].id = n /\ Routes[i].dst = d}
    IN  IF to(dst) # {} THEN {Routes[Min(to(dst))].nextHop}
        ELSE IF to(Default) # {} THEN {Routes[Max(to(Default))].nextHop}
        ELSE {}

\* The hops a frame can take.
Hops == {h \in Node \X Node : \/ _linkIsScheduled(h[1], h[2])
                              \/ \E i \in DOMAIN Routes :
                                    Routes[i].id = h[1] /\ Routes[i].nextHop = h[2]}

\* icn_send() of node n: the frames on the hops, given those before.
icn_send(n, dst, packet, frames) ==
    LET next == IF _linkIsScheduled(n, dst) THEN {dst} ELSE _routeLookup(n, dst)
    IN  [h \in Hops |-> IF h[1] = n /\ h[2] \in next THEN Append(frames[h], packet)
                        ELSE frames[h]]

InFlight == SumFunction([h \in Hops |-> Len(net[h])])

TypeOK ==
    /\ received \subseteq Chunks
    /\ receiveCounter \in Chunks
    /\ timers \subseteq Messages
    /\ queue \in Seq(Messages)
    /\ tmp1 \in Chunks \cup {255}
    /\ tmp2 \in 0..255
    /\ pitEntry \in [Node -> Node \cup {Default}]
    /\ pitCtr \in [Node -> Nat]
    /\ net \in [Hops -> Seq(Packets)]
    /\ lost \in 0..MaxLoss

-----------------------------------------------------------------------------
\* The consumer's first request is due five seconds after the start.
Init ==
    /\ received = {}
    /\ receiveCounter = 0
    /\ timers = {"FIRST"}
    /\ queue = <<>>
    /\ tmp1 = 0
    /\ tmp2 = 0
    /\ pitEntry = [n \in Node |-> Default]
    /\ pitCtr = [n \in Node |-> 0]
    /\ net = [h \in Hops |-> <<>>]
    /\ lost = 0

Missing == Chunks \ received

\* _getSmallestMissing(), as the byte that is read of it: -1 ends in 255.
_getSmallestMissing == IF Missing = {} THEN 255 ELSE Min(Missing)

\* The reasons why no Interest for seq is sent.
Received(seq) == seq \in received
FlowControl(seq) == seq > receiveCounter + FLOW_THR

\* Plausible bug: the retry is scheduled only with an Interest that is sent.
icn_initInterest_NoRetry(seq) ==
    LET retry == IF Missing = {} THEN {} ELSE {"RESEND"}
    IN  /\ tmp1' = _getSmallestMissing
        /\ IF Received(seq) \/ FlowControl(seq) \/ seq >= NUMBER_OF_CHUNKS
           THEN /\ tmp2' = seq
                /\ UNCHANGED <<timers, net>>
           ELSE /\ tmp2' = seq + 1
                /\ timers' = (timers \ {"FIRST"}) \cup retry \cup {"SEND"}
                /\ net' = icn_send(Consumer, Store, [type |-> "INTEREST", seq |-> seq], net)

\* icn_initInterest(): the retry timer is set again while a chunk is missing,
\* whatever follows; the periodic one only after an Interest was sent.
icn_initInterest(seq) ==
    LET retry == IF Missing = {} THEN {} ELSE {"RESEND"}
    IN  /\ tmp1' = _getSmallestMissing
        /\ IF Received(seq) \/ FlowControl(seq) \/ seq >= NUMBER_OF_CHUNKS
           THEN /\ tmp2' = seq
                /\ timers' = timers \cup retry
                /\ UNCHANGED net
           ELSE /\ tmp2' = seq + 1
                /\ timers' = (timers \ {"FIRST"}) \cup retry \cup {"SEND"}
                /\ net' = icn_send(Consumer, Store, [type |-> "INTEREST", seq |-> seq], net)

\* The sequence numbers that message m of a timer may be read as.
ReadAt(m) ==
    CASE m = "FIRST"  -> {0}
      [] m = "SEND"   -> {tmp2} \cup Stale
      [] m = "RESEND" -> {tmp1} \cup Stale

\* The event loop handles the message of a timer, as one for chunk seq.
HandleMessage(seq) ==
    /\ InFlight < MaxFlight
    /\ icn_initInterest(seq)
    /\ queue' = Tail(queue)
    /\ UNCHANGED <<received, receiveCounter, pitEntry, pitCtr, lost>>

HandleTimer == queue # <<>> /\ \E seq \in ReadAt(Head(queue)) : HandleMessage(seq)

\* Timer t sends its message.
Fire(t) ==
    /\ t \in timers
    /\ Len(queue) < MaxQueue
    /\ timers' = timers \ {t}
    /\ queue' = Append(queue, t)
    /\ UNCHANGED <<received, receiveCounter, tmp1, tmp2, pitEntry, pitCtr, net, lost>>

\* The content node answers an Interest.
icn_initContent(src, seq, frames) ==
    /\ net' = icn_send(Store, src, [type |-> "CONTENT", seq |-> seq], frames)
    /\ UNCHANGED <<consumerVars, pitEntry, pitCtr>>

\* Plausible bug: a request by the node that asked last is not counted.
ForwardInterest_Aggregates(n, src, packet, frames) ==
    /\ pitEntry' = [pitEntry EXCEPT ![n] = src]
    /\ pitCtr' = [pitCtr EXCEPT ![n] = IF pitCtr[n] > 0 /\ pitEntry[n] = src THEN @ ELSE @ + 1]
    /\ net' = icn_send(n, Store, packet, frames)
    /\ UNCHANGED consumerVars

ForwardInterest(n, src, packet, frames) ==
    /\ pitEntry' = [pitEntry EXCEPT ![n] = src]
    /\ pitCtr' = [pitCtr EXCEPT ![n] = @ + 1]
    /\ net' = icn_send(n, Store, packet, frames)
    /\ UNCHANGED consumerVars

ForwardContent(n, packet, frames) ==
    /\ pitCtr' = [pitCtr EXCEPT ![n] = @ - 1]
    /\ net' = icn_send(n, pitEntry[n], packet, frames)
    /\ UNCHANGED <<consumerVars, pitEntry>>

\* Plausible bug: the counter follows the last chunk instead of the highest.
AcceptContent_Last(seq, frames) ==
    /\ received' = received \cup {seq}
    /\ receiveCounter' = seq
    /\ net' = frames
    /\ UNCHANGED <<timers, queue, tmp1, tmp2, pitEntry, pitCtr>>

\* The consumer takes a chunk.
AcceptContent(seq, frames) ==
    /\ received' = received \cup {seq}
    /\ receiveCounter' = Max({receiveCounter, seq})
    /\ net' = frames
    /\ UNCHANGED <<timers, queue, tmp1, tmp2, pitEntry, pitCtr>>

\* rcv(): node h[2] handles the packet that comes first on hop h.
rcv(h, packet, frames) ==
    LET n == h[2]
    IN  CASE packet.type = "INTEREST" /\ n = Store -> icn_initContent(h[1], packet.seq, frames)
          [] packet.type = "INTEREST" /\ n # Store -> ForwardInterest(n, h[1], packet, frames)
          [] packet.type = "CONTENT" /\ pitCtr[n] > 0 -> ForwardContent(n, packet, frames)
          [] packet.type = "CONTENT" /\ pitCtr[n] = 0 /\ n = Consumer ->
                AcceptContent(packet.seq, frames)
          [] OTHER -> net' = frames /\ UNCHANGED <<consumerVars, pitEntry, pitCtr>>

\* A frame arrives for the last time, or may arrive once more.
Take(h) == rcv(h, Head(net[h]), [net EXCEPT ![h] = Tail(@)])
Repeat(h) == Duplicates /\ InFlight < MaxFlight /\ rcv(h, Head(net[h]), net)

Receive(h) ==
    /\ net[h] # <<>>
    /\ Take(h) \/ Repeat(h)
    /\ UNCHANGED lost

\* A frame is lost.
Lose(h) ==
    /\ net[h] # <<>>
    /\ lost < MaxLoss
    /\ net' = [net EXCEPT ![h] = Tail(@)]
    /\ lost' = lost + 1
    /\ UNCHANGED <<consumerVars, pitEntry, pitCtr>>

\* Background traffic, again and again.
icn_initBackground(n) ==
    /\ InFlight < MaxFlight
    /\ net' = icn_send(n, Store, [type |-> "BACKGROUND", seq |-> 0], net)
    /\ UNCHANGED <<consumerVars, pitEntry, pitCtr, lost>>

Next ==
    \/ HandleTimer
    \/ \E t \in Messages : Fire(t)
    \/ \E h \in Hops : Receive(h) \/ Lose(h)
    \/ \E n \in Noisy : icn_initBackground(n)

Spec == Init /\ [][Next]_vars

-----------------------------------------------------------------------------
(***************************************************************************)
(* Properties.                                                             *)
(***************************************************************************)

\* Flow control never holds back a retransmission: the smallest missing chunk
\* is within the threshold of the receive counter, in whatever order chunks
\* arrive.
RetriesPass == Missing # {} => ~FlowControl(Min(Missing))

\* The consumer does not fall silent: while a chunk is missing, a timer runs or
\* its message waits, although flow control and chunks received already end
\* the periodic chain.
KeepsTrying == Missing # {} => timers # {} \/ queue # <<>>

=============================================================================
