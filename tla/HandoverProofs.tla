--------------------------- MODULE HandoverProofs ---------------------------
(***************************************************************************)
(* The safety properties of Handover for any number of nodes, any sizes of *)
(* stores and queues, any losses, late answers and overlapping takeovers.  *)
(* And, for takeovers that do not overlap and answers that are not late,   *)
(* that Handover implements Deputy.                                        *)
(*                                                                         *)
(* The inductive invariant of the first part adds to the properties the    *)
(* order of the messages that wait: a request to go to rest is handled     *)
(* before the rest's alarm can be due, and the news of a chunk before the  *)
(* request to go to rest.  That of the second part, RInv, says where the   *)
(* exchange between the deputy and the node it relieves is.                *)
(***************************************************************************)
EXTENDS Handover, FiniteSetTheorems, TLAPS

-----------------------------------------------------------------------------
(***************************************************************************)
(* Messages in a queue.                                                    *)
(***************************************************************************)

\* Every RECEIVED waits ahead of every INACTIVE.
NewsFirst(q) ==
    \A i, j \in DOMAIN q : q[i] = "INACTIVE" /\ q[j] = "RECEIVED" => j < i

\* What it means to receive the first message.
LEMMA TailQueue ==
    ASSUME NEW q \in Seq(Messages), q # <<>>
    PROVE  /\ Tail(q) \in Seq(Messages)
           /\ Head(q) \in Messages
           /\ Queued(q, Head(q))
           /\ \A m \in Messages : /\ Queued(Tail(q), m) => Queued(q, m)
                                  /\ m # Head(q) => (Queued(q, m) <=> Queued(Tail(q), m))
                                  /\ Once(q, m) => Once(Tail(q), m)
                                  /\ Once(q, m) /\ m = Head(q) => ~Queued(Tail(q), m)
           /\ NewsFirst(q) => NewsFirst(Tail(q))
           /\ NewsFirst(q) /\ Head(q) = "INACTIVE" => ~Queued(Tail(q), "RECEIVED")
<1>1. /\ Len(q) \in Nat /\ Len(q) > 0 /\ DOMAIN q = 1..Len(q)
      /\ Tail(q) \in Seq(Messages) /\ Len(Tail(q)) = Len(q) - 1
      /\ DOMAIN Tail(q) = 1..(Len(q) - 1)
      /\ \A i \in 1..(Len(q) - 1) : Tail(q)[i] = q[i + 1] /\ i + 1 \in DOMAIN q
      /\ Head(q) = q[1] /\ 1 \in DOMAIN q
      /\ Head(q) \in Messages
  OBVIOUS
<1>2. ASSUME NEW m, m # Head(q), Queued(q, m)
      PROVE  Queued(Tail(q), m)
  <2>1. PICK i \in 1..Len(q) : q[i] = m
    BY <1>1, <1>2 DEF Queued
  <2>2. i # 1
    BY <2>1, <1>1, <1>2
  <2>3. i - 1 \in 1..(Len(q) - 1) /\ Tail(q)[i - 1] = m
    BY <2>1, <2>2, <1>1
  <2> QED
    BY <2>3, <1>1 DEF Queued
<1>3. ASSUME NEW m, Queued(Tail(q), m)
      PROVE  Queued(q, m)
  BY <1>1, <1>3 DEF Queued
<1>4. ASSUME NEW m, Once(q, m)
      PROVE  Once(Tail(q), m) /\ (m = Head(q) => ~Queued(Tail(q), m))
  <2>1. Once(Tail(q), m)
    <3> SUFFICES ASSUME NEW i \in 1..(Len(q) - 1), NEW j \in 1..(Len(q) - 1),
                        Tail(q)[i] = m, Tail(q)[j] = m
                 PROVE  i = j
      BY <1>1 DEF Once
    <3>1. i + 1 = j + 1
      BY <1>1, <1>4 DEF Once
    <3> QED
      BY <3>1
  <2>2. ASSUME m = Head(q), NEW i \in 1..(Len(q) - 1), Tail(q)[i] = m
        PROVE  FALSE
    <3>1. i + 1 = 1
      BY <1>1, <1>4, <2>2 DEF Once
    <3> QED
      BY <3>1
  <2> QED
    BY <1>1, <2>1, <2>2 DEF Queued
<1>5. ASSUME NewsFirst(q)
      PROVE  NewsFirst(Tail(q)) /\ (Head(q) = "INACTIVE" => ~Queued(Tail(q), "RECEIVED"))
  <2>1. NewsFirst(Tail(q))
    <3> SUFFICES ASSUME NEW i \in 1..(Len(q) - 1), NEW j \in 1..(Len(q) - 1),
                        Tail(q)[i] = "INACTIVE", Tail(q)[j] = "RECEIVED"
                 PROVE  j < i
      BY <1>1 DEF NewsFirst
    <3>1. j + 1 < i + 1
      BY <1>1, <1>5 DEF NewsFirst
    <3> QED
      BY <3>1
  <2>2. ASSUME Head(q) = "INACTIVE", NEW i \in 1..(Len(q) - 1), Tail(q)[i] = "RECEIVED"
        PROVE  FALSE
    <3>1. i + 1 < 1
      BY <1>1, <1>5, <2>2 DEF NewsFirst
    <3> QED
      BY <3>1
  <2> QED
    BY <1>1, <2>1, <2>2 DEF Queued
<1>6. Queued(q, Head(q))
  BY <1>1 DEF Queued
<1> QED
  BY <1>1, <1>2, <1>3, <1>4, <1>5, <1>6

\* What it means to send a message.
LEMMA AppendQueue ==
    ASSUME NEW q \in Seq(Messages), NEW t \in Messages
    PROVE  /\ Append(q, t) \in Seq(Messages)
           /\ \A m \in Messages : /\ Queued(Append(q, t), m) <=> (Queued(q, m) \/ m = t)
                                  /\ Once(q, m) /\ (m = t => ~Queued(q, m)) => Once(Append(q, t), m)
           /\ NewsFirst(q) /\ (t = "RECEIVED" => ~Queued(q, "INACTIVE")) => NewsFirst(Append(q, t))
<1>1. /\ Len(q) \in Nat /\ DOMAIN q = 1..Len(q)
      /\ Append(q, t) \in Seq(Messages) /\ Len(Append(q, t)) = Len(q) + 1
      /\ DOMAIN Append(q, t) = 1..(Len(q) + 1)
      /\ \A i \in 1..Len(q) : Append(q, t)[i] = q[i]
      /\ Append(q, t)[Len(q) + 1] = t
  OBVIOUS
<1>2. ASSUME NEW m PROVE Queued(Append(q, t), m) <=> (Queued(q, m) \/ m = t)
  BY <1>1 DEF Queued
<1>3. ASSUME NEW m, Once(q, m), m = t => ~Queued(q, m) PROVE Once(Append(q, t), m)
  BY <1>1, <1>3 DEF Queued, Once
<1>4. ASSUME NewsFirst(q), t = "RECEIVED" => ~Queued(q, "INACTIVE") PROVE NewsFirst(Append(q, t))
  <2> SUFFICES ASSUME NEW i \in 1..(Len(q) + 1), NEW j \in 1..(Len(q) + 1),
                      Append(q, t)[i] = "INACTIVE", Append(q, t)[j] = "RECEIVED"
               PROVE  j < i
    BY <1>1 DEF NewsFirst
  <2>1. CASE j = Len(q) + 1
    <3>1. t = "RECEIVED" /\ i # Len(q) + 1
      BY <1>1, <2>1
    <3>2. i \in 1..Len(q) /\ q[i] = "INACTIVE"
      BY <1>1, <3>1
    <3> QED
      BY <1>1, <1>4, <3>1, <3>2 DEF Queued
  <2>2. CASE j # Len(q) + 1
    <3>1. j \in 1..Len(q) /\ q[j] = "RECEIVED"
      BY <1>1, <2>2
    <3>2. CASE i = Len(q) + 1
      BY <3>1, <3>2, <1>1
    <3>3. CASE i # Len(q) + 1
      BY <1>1, <1>4, <3>1, <3>3 DEF NewsFirst
    <3> QED
      BY <3>2, <3>3
  <2> QED
    BY <2>1, <2>2
<1> QED
  BY <1>1, <1>2, <1>3, <1>4

-----------------------------------------------------------------------------
(***************************************************************************)
(* Frames, and the types of what the shared operations write.              *)
(***************************************************************************)

LEMMA TailOf ==
    ASSUME NEW S, NEW q \in Seq(S), q # <<>>
    PROVE  Tail(q) \in Seq(S) /\ Head(q) \in S
OBVIOUS

LEMMA AppendTo ==
    ASSUME NEW S, NEW q \in Seq(S), NEW x \in S
    PROVE  Append(q, x) \in Seq(S)
OBVIOUS

LEMMA FramesBuilt ==
    /\ \A n \in Node, c \in 0..(Cap + 1) : [type |-> "int", from |-> n, num |-> c] \in Frames
    /\ \A d \in Datum : /\ [type |-> "chunk", datum |-> d] \in Frames
                        /\ [type |-> "own", datum |-> d] \in Frames
    /\ [type |-> "ack"] \in Frames
BY DEF Frames

LEMMA FramesRead ==
    ASSUME NEW f \in Frames
    PROVE  /\ f.type = "int" => f.from \in Node /\ f.num \in 0..(Cap + 1)
           /\ f.type \in {"chunk", "own"} => f.datum \in Datum
BY DEF Frames

\* The manager of node n goes on to pc, all others stay where they are.
Moves(n, pcs) ==
    /\ mgr' \in [Node -> Managers]
    /\ mgr'[n].pc \in pcs
    /\ \A m \in Node \ {n} : mgr'[m] = mgr[m]

LEMMA MoveTo ==
    ASSUME TypeOK, NEW n \in Node, NEW r \in Managers, mgr' = [mgr EXCEPT ![n] = r]
    PROVE  Moves(n, {r.pc})
BY DEF TypeOK, Moves

LEMMA Manages ==
    ASSUME NEW p \in {"loop", "chunk", "interest"}, NEW c \in 0..(Cap + 1),
           NEW k \in 0..Retries, NEW w \in BOOLEAN
    PROVE  [pc |-> p, cn |-> c, cnt |-> k, wait |-> w] \in Managers
BY DEF Managers

LEMMA AskType ==
    ASSUME TypeOK, NEW n \in Node, NEW c \in 0..(Cap + 1), NEW k \in 0..Retries, Ask(n, c, k)
    PROVE  Moves(n, {"chunk"}) /\ inbox' \in [Node -> Seq(Frames)]
<1> DEFINE r == [pc |-> "chunk", cn |-> c, cnt |-> k, wait |-> TRUE]
           f == [type |-> "int", from |-> n, num |-> c]
<1>1. r \in Managers /\ r.pc = "chunk" /\ f \in Frames
  BY Manages, FramesBuilt
<1>2. mgr' = [mgr EXCEPT ![n] = r]
  BY DEF Ask
<1>3. inbox' = [m \in Node |-> IF m # n /\ Awake(m) THEN Append(inbox[m], f) ELSE inbox[m]]
  BY DEF Ask
<1> HIDE DEF r, f
<1>4. Moves(n, {"chunk"})
  BY <1>1, <1>2, MoveTo
<1>5. \A m \in Node : inbox[m] \in Seq(Frames) /\ Append(inbox[m], f) \in Seq(Frames)
  BY <1>1, AppendTo DEF TypeOK
<1> QED
  BY <1>3, <1>4, <1>5

LEMMA AnnounceType ==
    ASSUME TypeOK, NEW n \in Node, NEW k \in 0..Retries, Announce(n, k)
    PROVE  Moves(n, {"interest"}) /\ inbox' = inbox
<1> DEFINE r == [pc |-> "interest", cn |-> 0, cnt |-> k, wait |-> TRUE]
<1>1. r \in Managers /\ r.pc = "interest"
  <2>1. 0 \in 0..(Cap + 1)
    BY ConstantsAssumption
  <2> QED
    BY <2>1, Manages
<1>2. mgr' = [mgr EXCEPT ![n] = r] /\ inbox' = inbox
  BY DEF Announce
<1> HIDE DEF r
<1> QED
  BY <1>1, <1>2, MoveTo

LEMMA ReturnType ==
    ASSUME TypeOK, NEW n \in Node, NEW w \in BOOLEAN, Return(n, w)
    PROVE  Moves(n, {"loop"}) /\ inbox' = inbox
<1> DEFINE r == [mgr[n] EXCEPT !.pc = "loop", !.wait = w]
<1>1. r \in Managers /\ r.pc = "loop"
  BY DEF TypeOK, Managers
<1>2. mgr' = [mgr EXCEPT ![n] = r] /\ inbox' = inbox
  BY DEF Return
<1> HIDE DEF r
<1> QED
  BY <1>1, <1>2, MoveTo

LEMMA NextChunkType ==
    ASSUME TypeOK, NEW n \in Node, NEW w \in BOOLEAN, NextChunk(n, w)
    PROVE  Moves(n, {"chunk", "loop"}) /\ inbox' \in [Node -> Seq(Frames)]
<1>1. mgr \in [Node -> Managers] /\ mgr[n].cn \in 0..(Cap + 1) /\ mgr[n].cnt \in 0..Retries
  BY DEF TypeOK, Managers
<1>2. CASE mgr[n].cn <= Cap
  <2>1. mgr[n].cn + 1 \in 0..(Cap + 1) /\ 1 \in 0..Retries
    BY <1>1, <1>2, ConstantsAssumption
  <2>2. Ask(n, mgr[n].cn + 1, 1)
    BY <1>2 DEF NextChunk
  <2> QED
    BY <2>1, <2>2, AskType DEF Moves
<1>3. CASE ~(mgr[n].cn <= Cap)
  <2>1. Return(n, w)
    BY <1>3 DEF NextChunk
  <2> QED
    BY <2>1, ReturnType DEF TypeOK, Moves
<1> QED
  BY <1>2, <1>3

LEMMA TimedOutType ==
    ASSUME TypeOK, NEW n \in Node, TimedOut(n)
    PROVE  Moves(n, {"chunk", "loop"}) /\ inbox' \in [Node -> Seq(Frames)]
<1>1. /\ mgr[n].cn \in 0..(Cap + 1) /\ mgr[n].cnt \in 0..Retries
      /\ mgr[n].wait \in BOOLEAN
  BY DEF TypeOK, Managers
<1>2. CASE mgr[n].cnt < Retries
  <2>1. mgr[n].cnt + 1 \in 0..Retries
    BY <1>1, <1>2, ConstantsAssumption
  <2>2. Ask(n, mgr[n].cn, mgr[n].cnt + 1)
    BY <1>2 DEF TimedOut
  <2> QED
    BY <1>1, <2>1, <2>2, AskType DEF Moves
<1>3. CASE ~(mgr[n].cnt < Retries)
  BY <1>1, <1>3, NextChunkType DEF TimedOut
<1> QED
  BY <1>2, <1>3

-----------------------------------------------------------------------------
(***************************************************************************)
(* The inductive invariant.                                                *)
(***************************************************************************)

NodeInv(n) ==
    /\ Once(queue[n], "SECOND")
    /\ alarm[n] => ~Queued(queue[n], "SECOND")
    /\ alarm[n] \/ Queued(queue[n], "SECOND") <=> ~Awake(n)
    /\ mgr[n].pc # "loop" => Awake(n)
    /\ Queued(queue[n], "INACTIVE") =>
          /\ state[n] # "DEPUTY"
          /\ ~Queued(queue[n], "SECOND")
          /\ ~(alarm[n] /\ rest[n] = 0)
    /\ Queued(queue[n], "RECEIVED") => Awake(n)
    /\ NewsFirst(queue[n])

IInv == TypeOK /\ \A n \in Node : NodeInv(n)

LEMMA RestLengths ==
    /\ Longest \in Nat \ {0}
    /\ \A n \in Node : n * Period \in 0..Longest
<1>1. Size - 1 \in Nat \ {0} /\ Period \in Nat \ {0}
  BY ConstantsAssumption
<1>2. ASSUME NEW a \in Nat, NEW c \in Nat
      PROVE  a * Period \in Nat /\ (a + c) * Period = a * Period + c * Period /\ c * Period \in Nat
  BY <1>1
<1>3. ASSUME NEW n \in Node
      PROVE  n * Period \in 0..Longest
  <2> DEFINE c == Size - 1 - n
  <2>1. n \in Nat /\ c \in Nat /\ n + c = Size - 1
    BY ConstantsAssumption DEF Node
  <2> HIDE DEF c
  <2>2. n * Period \in Nat /\ c * Period \in Nat /\ (n + c) * Period = n * Period + c * Period
    BY <2>1, <1>2
  <2>3. Longest = n * Period + c * Period
    BY <2>1, <2>2 DEF Longest
  <2> DEFINE x == n * Period
             y == c * Period
  <2>4. x \in Nat /\ y \in Nat /\ Longest = x + y
    BY <2>2, <2>3
  <2> HIDE DEF x, y
  <2>5. x \in 0..Longest
    BY <2>4
  <2> QED
    BY <2>5 DEF x
<1>4. Longest \in Nat \ {0}
  <2> DEFINE c == Size - 2
             y == c * Period
  <2>1. c \in Nat /\ Size - 1 = 1 + c
    BY ConstantsAssumption
  <2>2. 1 * Period = Period
    BY <1>1
  <2> HIDE DEF c
  <2>3. y \in Nat /\ (1 + c) * Period = 1 * Period + y
    BY <2>1, <1>2
  <2> HIDE DEF y
  <2>4. Longest = Period + y
    BY <2>1, <2>2, <2>3 DEF Longest
  <2> QED
    BY <1>1, <2>3, <2>4
<1> QED
  BY <1>3, <1>4

LEMMA InitInv == Init => IInv
<1> SUFFICES ASSUME Init PROVE IInv
  OBVIOUS
<1>1. TypeOK
  <2>1. /\ state \in [Node -> {"DEPUTY", "HANDOVER", "INACTIVE"}]
        /\ alarm \in [Node -> BOOLEAN]
    BY DEF Init
  <2>7. rest \in [Node -> 0..Longest] /\ told \in [Node -> 0..Longest]
    BY RestLengths DEF Init
  <2>8. since \in [Node -> 0..Longest]
    BY RestLengths DEF Init
  <2>2. 0 \in 0..(Cap + 1) /\ 0 \in 0..Retries /\ 0 \in 0..MaxLoss
    BY ConstantsAssumption
  <2>3. [pc |-> "loop", cn |-> 0, cnt |-> 0, wait |-> FALSE] \in Managers
    BY <2>2, Manages
  <2>4. mgr \in [Node -> Managers]
    BY <2>3 DEF Init
  <2>5. /\ queue \in [Node -> Seq(Messages)] /\ contents \in [Node -> Seq(Datum)]
        /\ inbox \in [Node -> Seq(Frames)]
    BY DEF Init
  <2>6. fresh \subseteq Datum /\ lost \in 0..MaxLoss
    BY <2>2 DEF Init
  <2> QED
    BY <2>1, <2>4, <2>5, <2>6, <2>7, <2>8 DEF TypeOK
<1>2. ASSUME NEW n \in Node PROVE NodeInv(n)
  <2>1. queue[n] = <<>> /\ mgr[n].pc = "loop"
    BY DEF Init
  <2>2. alarm[n] <=> ~Awake(n)
    BY DEF Init, Awake
  <2>3. DOMAIN queue[n] = {}
    BY <2>1
  <2> QED
    BY <2>1, <2>2, <2>3 DEF NodeInv, Once, Queued, NewsFirst
<1> QED
  BY <1>1, <1>2 DEF IInv

\* A step leaves alone what it does not touch.
LEMMA Elsewhere ==
    ASSUME NEW k \in Node, NodeInv(k), queue'[k] = queue[k], state'[k] = state[k],
           alarm'[k] = alarm[k], rest'[k] = rest[k], mgr'[k].pc = mgr[k].pc
    PROVE  NodeInv(k)'
BY DEF NodeInv, Awake

\* The queues after msg_receive().
LEMMA ReceiveQueue ==
    ASSUME TypeOK, NEW n \in Node, NEW pc, NEW m \in Messages, Receive(n, pc, m)
    PROVE  /\ mgr[n].pc = pc
           /\ queue' \in [Node -> Seq(Messages)]
           /\ \A k \in Node \ {n} : queue'[k] = queue[k]
           /\ Queued(queue[n], m)
           /\ \A k \in Messages :
                 /\ Queued(queue'[n], k) => Queued(queue[n], k)
                 /\ k # m => (Queued(queue[n], k) <=> Queued(queue'[n], k))
                 /\ Once(queue[n], k) => Once(queue'[n], k)
                 /\ Once(queue[n], k) /\ k = m => ~Queued(queue'[n], k)
           /\ NewsFirst(queue[n]) => NewsFirst(queue'[n])
           /\ NewsFirst(queue[n]) /\ m = "INACTIVE" => ~Queued(queue'[n], "RECEIVED")
<1>1. /\ mgr[n].pc = pc /\ queue[n] \in Seq(Messages) /\ queue[n] # <<>>
      /\ Head(queue[n]) = m /\ queue' = [queue EXCEPT ![n] = Tail(queue[n])]
  BY DEF Receive, TypeOK
<1>2. queue'[n] = Tail(queue[n]) /\ \A k \in Node \ {n} : queue'[k] = queue[k]
  BY <1>1 DEF TypeOK
<1>3. queue' \in [Node -> Seq(Messages)]
  BY <1>1, TailQueue DEF TypeOK
<1> QED
  BY <1>1, <1>2, <1>3, TailQueue

\* The queues after a message is sent to node n.
LEMMA SendQueue ==
    ASSUME TypeOK, NEW n \in Node, NEW t \in Messages,
           queue' = [queue EXCEPT ![n] = Append(@, t)]
    PROVE  /\ queue' \in [Node -> Seq(Messages)]
           /\ \A k \in Node \ {n} : queue'[k] = queue[k]
           /\ \A k \in Messages :
                 /\ Queued(queue'[n], k) <=> (Queued(queue[n], k) \/ k = t)
                 /\ Once(queue[n], k) /\ (k = t => ~Queued(queue[n], k)) => Once(queue'[n], k)
           /\ NewsFirst(queue[n]) /\ (t = "RECEIVED" => ~Queued(queue[n], "INACTIVE"))
                 => NewsFirst(queue'[n])
<1>1. queue[n] \in Seq(Messages) /\ queue'[n] = Append(queue[n], t)
      /\ \A k \in Node \ {n} : queue'[k] = queue[k]
  BY DEF TypeOK
<1>2. queue' \in [Node -> Seq(Messages)]
  BY <1>1, AppendQueue DEF TypeOK
<1> QED
  BY <1>1, <1>2, AppendQueue

\* Only SECOND and INACTIVE make the manager change its state.
LEMMA ReceptionKeeps ==
    ASSUME IInv, NEW n \in Node, NEW pc, NEW m \in Messages \ {"SECOND"}, Receive(n, pc, m),
           NEW pcs, Moves(n, pcs), pcs = {"loop"} \/ Awake(n), UNCHANGED <<state, restVars>>
    PROVE  queue' \in [Node -> Seq(Messages)] /\ \A k \in Node : NodeInv(k)'
<1>1. /\ queue' \in [Node -> Seq(Messages)]
      /\ \A k \in Node \ {n} : queue'[k] = queue[k]
      /\ \A k \in Messages :
            /\ Queued(queue'[n], k) => Queued(queue[n], k)
            /\ k # m => (Queued(queue[n], k) <=> Queued(queue'[n], k))
            /\ Once(queue[n], k) => Once(queue'[n], k)
      /\ NewsFirst(queue[n]) => NewsFirst(queue'[n])
  BY ReceiveQueue DEF IInv
<1>2. state' = state /\ alarm' = alarm /\ rest' = rest
  BY DEF restVars
<1>3. ASSUME NEW k \in Node \ {n} PROVE NodeInv(k)'
  BY <1>1, <1>2, Elsewhere DEF IInv, Moves
<1>4. NodeInv(n)'
  <2>1. NodeInv(n) /\ mgr'[n].pc \in pcs
    BY DEF IInv, Moves
  <2>2. {"SECOND", "INACTIVE", "RECEIVED"} \subseteq Messages
    BY DEF Messages
  <2> QED
    BY <1>1, <1>2, <2>1, <2>2 DEF NodeInv, Awake
<1> QED
  BY <1>1, <1>3, <1>4

-----------------------------------------------------------------------------
(***************************************************************************)
(* The steps of the manager.                                               *)
(***************************************************************************)

\* No request to go to rest and no news of a chunk waits behind the alarm.
LEMMA TakeoverStep ==
    ASSUME IInv, NEW n \in Node, dow_takeover(n)
    PROVE  IInv'
<1>1. /\ Receive(n, "loop", "SECOND") /\ state' = [state EXCEPT ![n] = "DEPUTY"] /\ Ask(n, 0, 1)
      /\ alarm' = alarm /\ rest' = rest /\ UNCHANGED <<told, contents, fresh, lost>>
      /\ since' = [since EXCEPT ![n] = 0]
  BY DEF dow_takeover
<1>2. {"SECOND", "INACTIVE", "RECEIVED"} \subseteq Messages
  BY DEF Messages
<1>3. 0 \in 0..(Cap + 1) /\ 1 \in 0..Retries
  BY ConstantsAssumption
<1>4. Moves(n, {"chunk"}) /\ inbox' \in [Node -> Seq(Frames)]
  BY <1>1, <1>3, AskType DEF IInv
<1>5. /\ queue' \in [Node -> Seq(Messages)]
      /\ \A k \in Node \ {n} : queue'[k] = queue[k]
      /\ Queued(queue[n], "SECOND")
      /\ \A k \in Messages :
            /\ Queued(queue'[n], k) => Queued(queue[n], k)
            /\ Once(queue[n], k) => Once(queue'[n], k)
            /\ Once(queue[n], k) /\ k = "SECOND" => ~Queued(queue'[n], k)
      /\ NewsFirst(queue[n]) => NewsFirst(queue'[n])
  BY <1>1, <1>2, ReceiveQueue DEF IInv
<1>6. TypeOK'
  <2>1. since' \in [Node -> 0..Longest]
    BY <1>1, RestLengths DEF IInv, TypeOK
  <2> QED
    BY <1>1, <1>4, <1>5, <2>1 DEF IInv, TypeOK, Moves
<1>7. ASSUME NEW k \in Node \ {n} PROVE NodeInv(k)'
  <2>1. state'[k] = state[k] /\ mgr'[k] = mgr[k] /\ NodeInv(k)
    BY <1>1, <1>4 DEF IInv, TypeOK, Moves
  <2> QED
    BY <1>1, <1>5, <2>1, Elsewhere
<1>8. NodeInv(n)'
  <2>1. state'[n] = "DEPUTY" /\ NodeInv(n)
    BY <1>1 DEF IInv, TypeOK
  <2> QED
    BY <1>1, <1>2, <1>5, <2>1 DEF NodeInv, Awake
<1> QED
  BY <1>6, <1>7, <1>8 DEF IInv

\* What else waits behind the request to go to rest cannot start anything.
LEMMA SleepStep ==
    ASSUME IInv, NEW n \in Node, dow_sleep(n)
    PROVE  IInv'
<1>1. /\ Receive(n, "loop", "INACTIVE") /\ state' = [state EXCEPT ![n] = "INACTIVE"]
      /\ alarm' = [alarm EXCEPT ![n] = TRUE] /\ rest' = [rest EXCEPT ![n] = Longest]
      /\ told' = [told EXCEPT ![n] = Longest]
      /\ UNCHANGED <<mgr, since, contents, inbox, fresh, lost>>
  BY DEF dow_sleep
<1>2. {"SECOND", "INACTIVE", "RECEIVED"} \subseteq Messages
  BY DEF Messages
<1>3. /\ mgr[n].pc = "loop"
      /\ queue' \in [Node -> Seq(Messages)]
      /\ \A k \in Node \ {n} : queue'[k] = queue[k]
      /\ Queued(queue[n], "INACTIVE")
      /\ \A k \in Messages :
            /\ Queued(queue'[n], k) => Queued(queue[n], k)
            /\ Once(queue[n], k) => Once(queue'[n], k)
      /\ NewsFirst(queue[n]) => NewsFirst(queue'[n])
      /\ NewsFirst(queue[n]) => ~Queued(queue'[n], "RECEIVED")
  BY <1>1, <1>2, ReceiveQueue DEF IInv
<1>4. Longest \in 0..Longest /\ Longest # 0
  BY RestLengths
<1>5. TypeOK'
  BY <1>1, <1>3, <1>4 DEF IInv, TypeOK
<1>6. ASSUME NEW k \in Node \ {n} PROVE NodeInv(k)'
  <2>1. /\ state'[k] = state[k] /\ alarm'[k] = alarm[k] /\ rest'[k] = rest[k]
        /\ mgr'[k] = mgr[k] /\ NodeInv(k)
    BY <1>1 DEF IInv, TypeOK
  <2> QED
    BY <1>3, <2>1, Elsewhere
<1>7. NodeInv(n)'
  <2>1. /\ state'[n] = "INACTIVE" /\ alarm'[n] = TRUE /\ rest'[n] # 0
        /\ mgr'[n].pc = "loop" /\ NodeInv(n)
    BY <1>1, <1>3, <1>4 DEF IInv, TypeOK
  <2> QED
    BY <1>2, <1>3, <2>1 DEF NodeInv, Awake
<1> QED
  BY <1>5, <1>6, <1>7 DEF IInv

\* The other messages in the loop.
LEMMA LoopStep ==
    ASSUME IInv, NEW n \in Node, Disregard(n) \/ _populate_data(n)
    PROVE  IInv'
<1>1. PICK m \in Messages \ {"SECOND"} : Receive(n, "loop", m) /\ (_populate_data(n) => m = "RECEIVED")
  BY DEF Disregard, _populate_data, Messages
<1>2. UNCHANGED <<state, restVars, contents, fresh, lost>>
  BY DEF Disregard, _populate_data
<1>3. CASE Disregard(n)
  <2>1. mgr' = mgr /\ inbox' = inbox /\ mgr[n].pc = "loop" /\ mgr \in [Node -> Managers]
    BY <1>3, <1>1 DEF Disregard, Receive, IInv, TypeOK
  <2>2. Moves(n, {"loop"})
    BY <2>1 DEF Moves
  <2>3. queue' \in [Node -> Seq(Messages)] /\ \A k \in Node : NodeInv(k)'
    BY <1>1, <1>2, <2>2, ReceptionKeeps
  <2> QED
    BY <1>2, <2>1, <2>3 DEF IInv, TypeOK, restVars
<1>4. CASE _populate_data(n)
  <2>1. Announce(n, 1)
    BY <1>4 DEF _populate_data
  <2>2. 1 \in 0..Retries
    BY ConstantsAssumption
  <2>3. Moves(n, {"interest"}) /\ inbox' = inbox
    BY <2>1, <2>2, AnnounceType DEF IInv
  <2>4. Awake(n)
    <3>1. Queued(queue[n], "RECEIVED")
      BY <1>1, <1>4, ReceiveQueue DEF IInv
    <3> QED
      BY <3>1 DEF IInv, NodeInv
  <2>5. queue' \in [Node -> Seq(Messages)] /\ \A k \in Node : NodeInv(k)'
    BY <1>1, <1>2, <2>3, <2>4, ReceptionKeeps
  <2> QED
    BY <1>2, <2>3, <2>5 DEF IInv, TypeOK, restVars, Moves
<1> QED
  BY <1>3, <1>4

\* The messages in _wait_for_chunk().
LEMMA WaitStep ==
    ASSUME IInv, NEW n \in Node, GotAnswer(n) \/ GotTimeout(n) \/ GotOther(n) \/ AwaitInterest(n)
    PROVE  IInv'
<1>1. PICK pc \in {"chunk", "interest"}, m \in Messages \ {"SECOND"} : Receive(n, pc, m)
  BY DEF GotAnswer, GotTimeout, GotOther, AwaitInterest, Messages
<1>2. UNCHANGED <<state, restVars, contents, fresh, lost>>
  BY DEF GotAnswer, GotTimeout, GotOther, AwaitInterest
<1>3. mgr[n] \in Managers /\ mgr[n].pc = pc /\ inbox \in [Node -> Seq(Frames)]
  BY <1>1 DEF Receive, IInv, TypeOK
<1>4. Moves(n, {"loop", "chunk", "interest"}) /\ inbox' \in [Node -> Seq(Frames)]
  <2>1. CASE GotAnswer(n)
    <3>1. CASE NextChunk(n, FALSE)
      BY <3>1, NextChunkType DEF IInv, Moves
    <3>2. CASE Return(n, FALSE)
      BY <1>3, <3>2, ReturnType DEF IInv, Moves
    <3> QED
      BY <2>1, <3>1, <3>2 DEF GotAnswer
  <2>2. CASE TimedOut(n)
    BY <2>2, TimedOutType DEF IInv, Moves
  <2>3. CASE KeepWaiting(n)
    <3> DEFINE r == [mgr[n] EXCEPT !.wait = TRUE]
    <3>1. r \in Managers /\ r.pc = pc
      BY <1>3 DEF Managers
    <3>2. mgr' = [mgr EXCEPT ![n] = r] /\ inbox' = inbox
      BY <2>3 DEF KeepWaiting
    <3> HIDE DEF r
    <3>3. Moves(n, {pc})
      BY <3>1, <3>2, MoveTo DEF IInv
    <3> QED
      BY <1>3, <3>2, <3>3 DEF Moves
  <2>4. CASE AnnounceAgain(n)
    <3>1. mgr[n].cnt \in 0..Retries /\ mgr[n].wait \in BOOLEAN
      BY <1>3 DEF Managers
    <3>2. CASE mgr[n].cnt < Retries
      <4>1. mgr[n].cnt + 1 \in 0..Retries
        BY <3>1, <3>2, ConstantsAssumption
      <4> QED
        BY <1>3, <2>4, <3>2, <4>1, AnnounceType DEF AnnounceAgain, IInv, Moves
    <3>3. CASE ~(mgr[n].cnt < Retries)
      BY <1>3, <2>4, <3>1, <3>3, ReturnType DEF AnnounceAgain, IInv, Moves
    <3> QED
      BY <3>2, <3>3
  <2> QED
    BY <2>1, <2>2, <2>3, <2>4 DEF GotTimeout, GotOther, AwaitInterest
<1>5. Awake(n)
  BY <1>3 DEF IInv, NodeInv
<1>6. queue' \in [Node -> Seq(Messages)] /\ \A k \in Node : NodeInv(k)'
  BY <1>1, <1>2, <1>4, <1>5, ReceptionKeeps
<1> QED
  BY <1>2, <1>4, <1>6 DEF IInv, TypeOK, restVars, Moves

\* A datum of its own; the manager's part of the state stays as it is.
LEMMA NewDataStep ==
    ASSUME IInv, NEW n \in Node, dow_new_data(n)
    PROVE  IInv'
<1>1. PICK d \in fresh : /\ fresh' = fresh \ {d}
                         /\ inbox' = [inbox EXCEPT ![n] = Append(@, [type |-> "own", datum |-> d])]
  BY DEF dow_new_data
<1>2. UNCHANGED <<nodeVars, lost>>
  BY DEF dow_new_data
<1>3. [type |-> "own", datum |-> d] \in Frames
  BY <1>1, FramesBuilt DEF IInv, TypeOK
<1>4. inbox' \in [Node -> Seq(Frames)]
  BY <1>1, <1>3, AppendTo DEF IInv, TypeOK
<1>5. TypeOK'
  BY <1>1, <1>2, <1>4 DEF IInv, TypeOK, nodeVars, restVars
<1>6. \A k \in Node : NodeInv(k)'
  BY <1>2, Elsewhere DEF IInv, nodeVars, restVars
<1> QED
  BY <1>5, <1>6 DEF IInv

-----------------------------------------------------------------------------
(***************************************************************************)
(* The steps of CCN-lite's thread, the timers and the link.                *)
(***************************************************************************)

LEMMA IncomingFrame ==
    ASSUME TypeOK, NEW n \in Node, NEW ts, Incoming(n, ts)
    PROVE  /\ inbox[n] \in Seq(Frames) /\ inbox[n] # <<>>
           /\ Head(inbox[n]) \in Frames /\ Head(inbox[n]).type \in ts
           /\ Tail(inbox[n]) \in Seq(Frames)
<1>1. inbox[n] \in Seq(Frames) /\ inbox[n] # <<>> /\ Head(inbox[n]).type \in ts
  BY DEF Incoming, TypeOK
<1> QED
  BY <1>1, TailOf

LEMMA AnswerType ==
    ASSUME TypeOK, NEW n \in Node, Incoming(n, {"int"}), NEW f \in Frames, Answer(n, f)
    PROVE  inbox' \in [Node -> Seq(Frames)]
<1> DEFINE left(m) == IF m = n THEN Tail(inbox[m]) ELSE inbox[m]
<1>1. ASSUME NEW m \in Node PROVE left(m) \in Seq(Frames)
  BY IncomingFrame DEF TypeOK
<1>2. inbox' = [m \in Node |-> IF m = Head(inbox[n]).from /\ Awake(m)
                               THEN Append(left(m), f) ELSE left(m)]
  BY DEF Answer
<1> HIDE DEF left
<1>3. ASSUME NEW m \in Node PROVE Append(left(m), f) \in Seq(Frames)
  BY <1>1, AppendTo
<1> QED
  BY <1>1, <1>2, <1>3

\* Whoever sends itself the request to go to rest is awake: its alarm is not set.
LEMMA ProducerStep ==
    ASSUME IInv, NEW n \in Node, ccnlriot_producer(n)
    PROVE  IInv'
<1> DEFINE num == Head(inbox[n]).num
<1>1. /\ Incoming(n, {"int"}) /\ Awake(n) /\ state' = [state EXCEPT ![n] = "HANDOVER"]
      /\ UNCHANGED <<mgr, restVars, contents, fresh, lost>>
  BY DEF ccnlriot_producer
<1>2. {"SECOND", "INACTIVE", "RECEIVED"} \subseteq Messages
  BY DEF Messages
<1>3. num \in 0..(Cap + 1) /\ contents[n] \in Seq(Datum)
  <2>1. Head(inbox[n]) \in Frames /\ Head(inbox[n]).type = "int"
    BY <1>1, IncomingFrame DEF IInv
  <2> QED
    BY <2>1, FramesRead DEF IInv, TypeOK
<1>4. /\ inbox' \in [Node -> Seq(Frames)]
      /\ queue' = queue \/ queue' = [queue EXCEPT ![n] = Append(@, "INACTIVE")]
  <2>1. CASE num < Len(contents[n]) /\ num < Cap
    <3>1. num + 1 \in 1..Len(contents[n])
      BY <1>3, <2>1, ConstantsAssumption
    <3>2. contents[n][num + 1] \in Datum
      BY <1>3, <3>1
    <3>3. [type |-> "chunk", datum |-> contents[n][num + 1]] \in Frames
      BY <3>2, FramesBuilt
    <3>4. Answer(n, [type |-> "chunk", datum |-> contents[n][num + 1]]) /\ queue' = queue
      BY <2>1 DEF ccnlriot_producer
    <3> QED
      BY <1>1, <3>3, <3>4, AnswerType DEF IInv
  <2>2. CASE ~(num < Len(contents[n]) /\ num < Cap)
    <3>1. /\ Answer(n, [type |-> "ack"])
          /\ queue' = [queue EXCEPT ![n] = Append(@, "INACTIVE")]
      BY <2>2 DEF ccnlriot_producer
    <3> QED
      BY <1>1, <3>1, FramesBuilt, AnswerType DEF IInv
  <2> QED
    BY <2>1, <2>2
<1>5. /\ queue' \in [Node -> Seq(Messages)]
      /\ \A k \in Node \ {n} : queue'[k] = queue[k]
      /\ \A k \in Messages :
            /\ k # "INACTIVE" => (Queued(queue'[n], k) <=> Queued(queue[n], k))
            /\ k # "INACTIVE" /\ Once(queue[n], k) => Once(queue'[n], k)
      /\ NewsFirst(queue[n]) => NewsFirst(queue'[n])
  BY <1>2, <1>4, SendQueue DEF IInv, TypeOK
<1>6. TypeOK'
  BY <1>1, <1>4, <1>5 DEF IInv, TypeOK, restVars
<1>7. ASSUME NEW k \in Node \ {n} PROVE NodeInv(k)'
  <2>1. /\ state'[k] = state[k] /\ mgr' = mgr /\ alarm' = alarm /\ rest' = rest
        /\ NodeInv(k)
    BY <1>1 DEF IInv, TypeOK, restVars
  <2> QED
    BY <1>5, <2>1, Elsewhere
<1>8. NodeInv(n)'
  <2>1. /\ state'[n] = "HANDOVER" /\ mgr' = mgr /\ alarm' = alarm /\ rest' = rest
        /\ NodeInv(n)
    BY <1>1 DEF IInv, TypeOK, restVars
  <2> QED
    BY <1>1, <1>2, <1>5, <2>1 DEF NodeInv, Awake
<1> QED
  BY <1>6, <1>7, <1>8 DEF IInv

\* The news of a chunk is sent by a deputy, for which no INACTIVE waits.
LEMMA ChunkStep ==
    ASSUME IInv, NEW n \in Node, StoreChunk(n)
    PROVE  IInv'
<1> DEFINE f == Head(inbox[n])
<1>1. /\ Incoming(n, {"chunk", "own"}) /\ state[n] = "DEPUTY"
      /\ \/ contents' = contents
         \/ contents' = [contents EXCEPT ![n] = <<f.datum>> \o contents[n]]
      /\ queue' = queue \/ queue' = [queue EXCEPT ![n] = Append(@, "RECEIVED")]
      /\ inbox' = [inbox EXCEPT ![n] = Tail(inbox[n])]
      /\ UNCHANGED <<state, mgr, restVars, fresh, lost>>
  BY DEF StoreChunk
<1>2. {"SECOND", "INACTIVE", "RECEIVED"} \subseteq Messages
  BY DEF Messages
<1>3. f.datum \in Datum /\ Tail(inbox[n]) \in Seq(Frames)
  BY <1>1, IncomingFrame, FramesRead DEF IInv
<1> HIDE DEF f
<1>4. <<f.datum>> \o contents[n] \in Seq(Datum)
  BY <1>3 DEF IInv, TypeOK
<1>5. NodeInv(n) /\ ~Queued(queue[n], "INACTIVE") /\ Awake(n)
  BY <1>1 DEF IInv, NodeInv, Awake
<1>6. /\ queue' \in [Node -> Seq(Messages)]
      /\ \A k \in Node \ {n} : queue'[k] = queue[k]
      /\ \A k \in Messages :
            /\ k # "RECEIVED" => (Queued(queue'[n], k) <=> Queued(queue[n], k))
            /\ k # "RECEIVED" /\ Once(queue[n], k) => Once(queue'[n], k)
      /\ NewsFirst(queue'[n])
  BY <1>1, <1>2, <1>5, SendQueue DEF IInv, TypeOK, NodeInv
<1>7. TypeOK'
  <2>1. contents' \in [Node -> Seq(Datum)]
    BY <1>1, <1>4 DEF f, IInv, TypeOK
  <2>2. inbox' \in [Node -> Seq(Frames)]
    BY <1>1, <1>3 DEF IInv, TypeOK
  <2> QED
    BY <1>1, <1>6, <2>1, <2>2 DEF IInv, TypeOK, restVars
<1>8. state' = state /\ mgr' = mgr /\ alarm' = alarm /\ rest' = rest
  BY <1>1 DEF restVars
<1>9. ASSUME NEW k \in Node \ {n} PROVE NodeInv(k)'
  BY <1>6, <1>8, Elsewhere DEF IInv
<1>10. NodeInv(n)'
  BY <1>2, <1>5, <1>6, <1>8 DEF NodeInv, Awake
<1> QED
  BY <1>7, <1>9, <1>10 DEF IInv

LEMMA AckStep ==
    ASSUME IInv, NEW n \in Node, StoreAck(n)
    PROVE  IInv'
<1>1. /\ Incoming(n, {"ack"}) /\ queue' = [queue EXCEPT ![n] = Append(@, "RECEIVED_ACK")]
      /\ inbox' = [inbox EXCEPT ![n] = Tail(inbox[n])]
      /\ state' = state /\ mgr' = mgr /\ alarm' = alarm /\ rest' = rest
      /\ UNCHANGED <<told, since, contents, fresh, lost>>
  BY DEF StoreAck, restVars
<1>2. {"SECOND", "INACTIVE", "RECEIVED", "RECEIVED_ACK"} \subseteq Messages
  BY DEF Messages
<1>3. Tail(inbox[n]) \in Seq(Frames)
  BY <1>1, IncomingFrame DEF IInv
<1>4. /\ queue' \in [Node -> Seq(Messages)]
      /\ \A k \in Node \ {n} : queue'[k] = queue[k]
      /\ \A k \in Messages :
            /\ k # "RECEIVED_ACK" => (Queued(queue'[n], k) <=> Queued(queue[n], k))
            /\ k # "RECEIVED_ACK" /\ Once(queue[n], k) => Once(queue'[n], k)
      /\ NewsFirst(queue[n]) => NewsFirst(queue'[n])
  BY <1>1, <1>2, SendQueue DEF IInv
<1>5. TypeOK'
  BY <1>1, <1>3, <1>4 DEF IInv, TypeOK
<1>6. ASSUME NEW k \in Node \ {n} PROVE NodeInv(k)'
  BY <1>1, <1>4, Elsewhere DEF IInv
<1>7. NodeInv(n)'
  BY <1>1, <1>2, <1>4 DEF IInv, NodeInv, Awake
<1> QED
  BY <1>5, <1>6, <1>7 DEF IInv

\* A frame is dropped or lost.
LEMMA DropStep ==
    ASSUME IInv, NEW n \in Node, Drop(n) \/ Lose(n)
    PROVE  IInv'
<1>1. inbox[n] # <<>> /\ inbox' = [inbox EXCEPT ![n] = Tail(inbox[n])]
  BY DEF Drop, Lose, Incoming
<1>2. UNCHANGED <<nodeVars, fresh>> /\ lost' \in 0..MaxLoss
  BY ConstantsAssumption DEF Drop, Lose, IInv, TypeOK
<1>3. inbox' \in [Node -> Seq(Frames)]
  BY <1>1, TailOf DEF IInv, TypeOK
<1>4. TypeOK'
  BY <1>2, <1>3 DEF IInv, TypeOK, nodeVars, restVars
<1>5. \A k \in Node : NodeInv(k)'
  BY <1>2, Elsewhere DEF IInv, nodeVars, restVars
<1> QED
  BY <1>4, <1>5 DEF IInv

\* Before time passes every message has been handled.
LEMMA TickStep ==
    ASSUME IInv, Tick
    PROVE  IInv'
<1>1. /\ \A n \in Node : queue[n] = <<>>
      /\ \A n \in Node : alarm[n] => rest[n] > 0
      /\ rest' = [n \in Node |-> IF alarm[n] THEN RestLeft(n) ELSE rest[n]]
      /\ since' = [n \in Node |-> IF since[n] < Longest THEN since[n] + 1 ELSE since[n]]
      /\ UNCHANGED <<state, mgr, alarm, told, queue, contents, inbox, fresh, lost>>
  BY DEF Tick, Idle
<1>2. ASSUME NEW n \in Node PROVE rest'[n] \in 0..Longest /\ since'[n] \in 0..Longest
  <2>1. /\ rest[n] \in 0..Longest /\ since[n] \in 0..Longest
        /\ rest'[n] = IF alarm[n] THEN RestLeft(n) ELSE rest[n]
        /\ since'[n] = IF since[n] < Longest THEN since[n] + 1 ELSE since[n]
    BY <1>1 DEF IInv, TypeOK
  <2>2. alarm[n] => rest[n] > 0
    BY <1>1
  <2>3. Longest \in Nat
    BY RestLengths
  <2> HIDE DEF Longest
  <2>4. rest'[n] \in 0..Longest
    BY <2>1, <2>2, <2>3 DEF RestLeft
  <2>5. since'[n] \in 0..Longest
    BY <2>1, <2>3
  <2> QED
    BY <2>4, <2>5
<1>3. TypeOK'
  BY <1>1, <1>2 DEF IInv, TypeOK
<1>4. ASSUME NEW n \in Node PROVE NodeInv(n)'
  <2>1. ~Queued(queue[n], "INACTIVE") /\ queue' = queue /\ alarm' = alarm /\ state' = state /\ mgr' = mgr
    BY <1>1 DEF Queued
  <2> QED
    BY <2>1 DEF IInv, NodeInv, Awake
<1> QED
  BY <1>3, <1>4 DEF IInv

\* The alarm that is due waits instead.
LEMMA AlarmStep ==
    ASSUME IInv, NEW n \in Node, Alarm(n)
    PROVE  IInv'
<1>1. /\ alarm[n] /\ rest[n] = 0 /\ alarm' = [alarm EXCEPT ![n] = FALSE]
      /\ queue' = [queue EXCEPT ![n] = Append(@, "SECOND")]
      /\ UNCHANGED <<state, mgr, rest, told, since, contents, inbox, fresh, lost>>
  BY DEF Alarm
<1>2. {"SECOND", "INACTIVE", "RECEIVED"} \subseteq Messages
  BY DEF Messages
<1>3. /\ queue' \in [Node -> Seq(Messages)]
      /\ \A k \in Node \ {n} : queue'[k] = queue[k]
      /\ \A k \in Messages :
            /\ Queued(queue'[n], k) <=> (Queued(queue[n], k) \/ k = "SECOND")
            /\ Once(queue[n], k) /\ (k = "SECOND" => ~Queued(queue[n], k)) => Once(queue'[n], k)
      /\ NewsFirst(queue[n]) => NewsFirst(queue'[n])
  BY <1>1, <1>2, SendQueue DEF IInv
<1>4. TypeOK'
  BY <1>1, <1>3 DEF IInv, TypeOK
<1>5. ASSUME NEW k \in Node \ {n} PROVE NodeInv(k)'
  <2>1. alarm'[k] = alarm[k] /\ state' = state /\ mgr' = mgr /\ rest' = rest /\ NodeInv(k)
    BY <1>1 DEF IInv, TypeOK
  <2> QED
    BY <1>3, <2>1, Elsewhere
<1>6. NodeInv(n)'
  <2>1. alarm'[n] = FALSE /\ state' = state /\ mgr' = mgr /\ rest' = rest /\ NodeInv(n)
    BY <1>1 DEF IInv, TypeOK
  <2> QED
    BY <1>1, <1>2, <1>3, <2>1 DEF NodeInv, Awake
<1> QED
  BY <1>4, <1>5, <1>6 DEF IInv

LEMMA TimerStep ==
    ASSUME IInv, NEW n \in Node, WaitTimer(n)
    PROVE  IInv'
<1>1. /\ mgr' = [mgr EXCEPT ![n].wait = FALSE]
      /\ queue' = [queue EXCEPT ![n] = Append(@, "TIMEOUT")]
      /\ state' = state /\ alarm' = alarm /\ rest' = rest
      /\ UNCHANGED <<told, since, contents, inbox, fresh, lost>>
  BY DEF WaitTimer, restVars
<1>2. {"SECOND", "INACTIVE", "RECEIVED", "TIMEOUT"} \subseteq Messages
  BY DEF Messages
<1> DEFINE r == [mgr[n] EXCEPT !.wait = FALSE]
<1>3. r \in Managers /\ r.pc = mgr[n].pc /\ mgr' = [mgr EXCEPT ![n] = r]
  BY <1>1 DEF IInv, TypeOK, Managers
<1> HIDE DEF r
<1>4. mgr' \in [Node -> Managers] /\ \A k \in Node : mgr'[k].pc = mgr[k].pc
  BY <1>3 DEF IInv, TypeOK
<1>5. /\ queue' \in [Node -> Seq(Messages)]
      /\ \A k \in Node \ {n} : queue'[k] = queue[k]
      /\ \A k \in Messages :
            /\ k # "TIMEOUT" => (Queued(queue'[n], k) <=> Queued(queue[n], k))
            /\ k # "TIMEOUT" /\ Once(queue[n], k) => Once(queue'[n], k)
      /\ NewsFirst(queue[n]) => NewsFirst(queue'[n])
  BY <1>1, <1>2, SendQueue DEF IInv
<1>6. TypeOK'
  BY <1>1, <1>4, <1>5 DEF IInv, TypeOK
<1>7. ASSUME NEW k \in Node \ {n} PROVE NodeInv(k)'
  BY <1>1, <1>4, <1>5, Elsewhere DEF IInv
<1>8. NodeInv(n)'
  BY <1>1, <1>2, <1>4, <1>5 DEF IInv, NodeInv, Awake
<1> QED
  BY <1>6, <1>7, <1>8 DEF IInv

-----------------------------------------------------------------------------
(***************************************************************************)
(* The theorems.                                                           *)
(***************************************************************************)

LEMMA NextInv == IInv /\ [Next]_vars => IInv'
<1> SUFFICES ASSUME IInv, [Next]_vars PROVE IInv'
  OBVIOUS
<1>1. CASE Tick
  BY <1>1, TickStep
<1>2. ASSUME NEW n \in Node, Manager(n) PROVE IInv'
  BY <1>2, TakeoverStep, SleepStep, LoopStep, WaitStep DEF Manager
<1>3. ASSUME NEW n \in Node, dow_new_data(n) PROVE IInv'
  BY <1>3, NewDataStep
<1>4. ASSUME NEW n \in Node, Ccnl(n) PROVE IInv'
  BY <1>4, ProducerStep, ChunkStep, AckStep, DropStep DEF Ccnl
<1>5. ASSUME NEW n \in Node, Alarm(n) \/ WaitTimer(n) \/ Lose(n) PROVE IInv'
  BY <1>5, AlarmStep, TimerStep, DropStep
<1>6. CASE UNCHANGED vars
  <2>1. TypeOK'
    BY <1>6 DEF IInv, TypeOK, vars, nodeVars, restVars
  <2>2. \A k \in Node : NodeInv(k)'
    BY <1>6, Elsewhere DEF IInv, vars, nodeVars, restVars
  <2> QED
    BY <2>1, <2>2 DEF IInv
<1> QED
  BY <1>1, <1>2, <1>3, <1>4, <1>5, <1>6 DEF Next

\* The messages that wait, the alarms and the states of the nodes stay in step.
THEOREM Invariance == Spec => []IInv
<1> QED
  BY InitInv, NextInv, PTL DEF Spec

\* Whatever is lost, late or repeated, the chunk numbers and attempts of the
\* takeover's loops stay within what dow.c and ccnl_helper.c allow.
THEOREM TypeCorrect == Spec => []TypeOK
<1>1. IInv => TypeOK
  BY DEF IInv
<1> QED
  BY <1>1, Invariance, PTL

\* dow_sleep(), the only one to set the timer, and dow_takeover(), the only one to
\* use its message, alternate at each node.
THEOREM AlarmsAreSetOnce == Spec => []OneAlarm
<1>1. IInv => OneAlarm
  BY DEF IInv, NodeInv, OneAlarm
<1> QED
  BY <1>1, Invariance, PTL

\* _wait_for_chunk() runs only at a node whose radio is on, since it does not act
\* on INACTIVE, and a node at rest has no news of chunks left.
THEOREM WaitersHear == Spec => []WaitersAreAwake
<1>1. IInv => WaitersAreAwake
  BY DEF IInv, NodeInv, WaitersAreAwake
<1> QED
  BY <1>1, Invariance, PTL

\* A deputy goes to rest for a request of its own shift only.
THEOREM ReliefIsFresh == Spec => []NoStaleRelief
<1>1. IInv => NoStaleRelief
  BY DEF IInv, NodeInv, NoStaleRelief
<1> QED
  BY <1>1, Invariance, PTL

-----------------------------------------------------------------------------
(***************************************************************************)
(* Handover implements Deputy.                                             *)
(*                                                                         *)
(* What the invariant says: there is one deputy d, and beside it either    *)
(* only nodes at rest, or one node g that d relieves.  The exchange of     *)
(* Interests and answers is at one of few places, a chunk that is asked    *)
(* for comes after those that d has, and the rests end one by one.         *)
(***************************************************************************)

\* What the refinement rests on: takeovers are shorter than a unit of time, a wait
\* outlasts the answer, fewer frames are lost than there are attempts, and a shift
\* is longer than one unit.
Regular == ~Overlap /\ ~Late /\ MaxLoss < Retries /\ Period > 1

\* The units of time until n's rest ends, or would end if it began now.
Due(n) ==
    IF Awake(n) THEN IF since[n] < Longest THEN Longest - since[n] ELSE 1
    ELSE IF rest[n] = 0 THEN 0
    ELSE IF rest[n] + since[n] <= told[n] THEN rest[n]
    ELSE IF since[n] < told[n] THEN told[n] - since[n] ELSE 1

\* No two rests end together, and d's, if it ever begins, ends after all of them.
Spread(d) ==
    \A n \in Node \ {d} :
        /\ Due(n) + since[d] \in 1..(Longest - 1)
        /\ \A m \in Node \ {d, n} : Due(m) # Due(n)

\* How long d will rest if it is relieved w units from now.
Back(d, w) == IF since[d] + w < Longest THEN Longest - (since[d] + w) ELSE 1

\* Until the first takeover: the node that is first to take over comes alone, and
\* d, which may have been deputy for long, will not come back together with another.
Opening(d) ==
    /\ since[d] >= 1
    /\ \A n \in Node \ {d} : \A m \in Node \ {d, n} : Due(m) # Due(n)
    /\ \E f \in Node \ {d} : \A n \in Node \ {d, f} :
          /\ Due(n) \in (Due(f) + 1)..(Due(f) + Longest - 1)
          /\ Due(n) # Due(f) + Back(d, Due(f))

\* The node of position 0 was switched on at such a time before the others' rests
\* began that its first rest does not end together with one of theirs.
ComesBackAlone == \A n \in 2..(Size - 1) : (n - 1) * Period # Back(0, Period)

Owned(q) == \A i \in DOMAIN q : q[i].type = "own"

Resting(n) ==
    /\ ~Awake(n) /\ inbox[n] = <<>> /\ mgr[n].pc = "loop" /\ ~mgr[n].wait
    /\ \/ alarm[n] /\ queue[n] = <<>>
       \/ ~alarm[n] /\ queue[n] = <<"SECOND">> /\ rest[n] = 0

\* Where the deputy is in its exchange.
Working(d) == mgr[d].pc = "loop" /\ ~mgr[d].wait /\ queue[d] = <<>> /\ Owned(inbox[d])
Asking(d, in, q) == mgr[d].pc = "chunk" /\ mgr[d].wait /\ inbox[d] = in /\ queue[d] = q
Missed(d) ==
    mgr[d].pc = "chunk" /\ ~mgr[d].wait /\ inbox[d] = <<>> /\ queue[d] = <<"TIMEOUT">>

Silent(d) == Asking(d, <<>>, <<>>)
Finishing(d) ==
    Asking(d, <<[type |-> "ack"]>>, <<>>) \/ Asking(d, <<>>, <<"RECEIVED_ACK">>) \/ Silent(d)

Alone(d) ==
    /\ state[d] = "DEPUTY" /\ ~alarm[d]
    /\ \A n \in Node \ {d} : Resting(n) /\ (rest[n] = 0 => mgr[d].pc = "loop")
    /\ Working(d) \/ Finishing(d) \/ Missed(d)
    /\ Spread(d) \/ (Opening(d) /\ mgr[d].pc = "loop")

\* d's Interest waits at g, among own data.
Holds(q, f) == \E i \in DOMAIN q : q[i] = f /\ \A j \in DOMAIN q \ {i} : q[j].type = "own"
Asked(d, g) == Holds(inbox[g], [type |-> "int", from |-> d, num |-> mgr[d].cn])

\* g has more than d has got.
Giving(d, g) ==
    /\ queue[g] = <<>>
    /\ mgr[d].cn <= Len(contents[g])
    /\ \A i \in 1..mgr[d].cn : contents[g][i] \in Stored(d)
    /\ state[g] = "DEPUTY" => mgr[d].cn = 0
    /\ \/ Silent(d) /\ Asked(d, g) /\ mgr[d].cnt <= lost + 1
       \/ (Silent(d) \/ Missed(d)) /\ Owned(inbox[g]) /\ mgr[d].cnt <= lost
       \/ /\ state[g] = "HANDOVER" /\ Owned(inbox[g]) /\ mgr[d].cnt <= lost + 1
          /\ mgr[d].cn < Len(contents[g])
          /\ \/ Asking(d, <<[type |-> "chunk", datum |-> contents[g][mgr[d].cn + 1]]>>, <<>>)
             \/ Asking(d, <<>>, <<"RECEIVED">>) /\ contents[g][mgr[d].cn + 1] \in Stored(d)

\* g has told its manager to go to rest.
Relieved(d, g) ==
    /\ queue[g] = <<"INACTIVE">> /\ state[g] = "HANDOVER" /\ Owned(inbox[g])
    /\ Stored(g) \subseteq Stored(d)
    /\ Working(d) \/ Finishing(d)

Pair(d, g) ==
    /\ state[d] = "DEPUTY" /\ state[g] # "INACTIVE" /\ ~alarm[d] /\ ~alarm[g]
    /\ mgr[g].pc = "loop" /\ ~mgr[g].wait
    /\ since[d] = 0
    /\ \A n \in Node \ {d, g} : Resting(n)
    /\ Spread(d)
    /\ Giving(d, g) \/ Relieved(d, g)

Distinct(s) == \A i, j \in DOMAIN s : s[i] = s[j] => i = j

InPhase == \E d \in Node : Alone(d) \/ \E g \in Node \ {d} : Pair(d, g)

\* No datum is stored twice at a node, and what a node at rest has, one that is
\* awake has too.
Kept == \A n \in Node : Distinct(contents[n]) /\ Stored(n) \subseteq cache

RInv == TypeOK /\ InPhase /\ Kept

-----------------------------------------------------------------------------
(***************************************************************************)
(* When rests end.                                                         *)
(***************************************************************************)

\* A rest is longer than one unit.
LEMMA LongRest ==
    ASSUME Period > 1
    PROVE  Longest \in Nat /\ Longest > 1 /\ Period \in Nat /\ Period <= Longest
<1>1. Size - 1 \in Nat \ {0} /\ Period \in Nat \ {0, 1}
  BY ConstantsAssumption
<1> DEFINE c == Size - 2
           y == c * Period
<1>2. c \in Nat /\ Size - 1 = 1 + c
  BY ConstantsAssumption
<1> HIDE DEF c
<1>3. y \in Nat /\ (1 + c) * Period = Period + y
  BY <1>1, <1>2
<1> HIDE DEF y
<1>4. Longest = Period + y
  BY <1>2, <1>3 DEF Longest
<1> QED
  BY <1>1, <1>3, <1>4

\* The range of Due.
LEMMA DueType ==
    ASSUME TypeOK, Period > 1, NEW n \in Node
    PROVE  Due(n) \in 0..Longest /\ since[n] \in 0..Longest
<1>1. /\ rest[n] \in 0..Longest /\ since[n] \in 0..Longest /\ told[n] \in 0..Longest
      /\ Longest \in Nat /\ Longest > 1
  BY LongRest DEF TypeOK
<1> HIDE DEF Longest
<1> QED
  BY <1>1 DEF Due

\* A unit of time brings the end of each rest, and of d's, one unit nearer.
LEMMA TickDue ==
    ASSUME TypeOK, Period > 1, Tick, NEW n \in Node, alarm[n], ~Awake(n)
    PROVE  Due(n) \in 1..Longest /\ Due(n)' = Due(n) - 1
<1>1. /\ rest[n] \in 1..Longest /\ since[n] \in 0..Longest /\ told[n] \in 0..Longest
      /\ Longest \in Nat /\ Longest > 1
  BY LongRest DEF TypeOK, Tick
<1>2. /\ rest'[n] = IF since[n] + 1 >= told[n] THEN 0 ELSE rest[n] - 1
      /\ since'[n] = IF since[n] < Longest THEN since[n] + 1 ELSE since[n]
      /\ told'[n] = told[n] /\ ~Awake(n)'
  BY DEF Tick, RestLeft, TypeOK, Awake
<1> HIDE DEF Longest
<1> QED
  BY <1>1, <1>2 DEF Due

\* A unit of time keeps the rests apart.
LEMMA TickSpread ==
    ASSUME TypeOK, Period > 1, Tick, NEW d \in Node,
           \A n \in Node \ {d} : alarm[n] /\ ~Awake(n)
    PROVE  (Spread(d) => Spread(d)') /\ (Opening(d) => Opening(d)')
<1>1. /\ Longest \in Nat /\ Longest > 1 /\ since[d] \in 0..Longest
      /\ since'[d] = IF since[d] < Longest THEN since[d] + 1 ELSE since[d]
  BY LongRest DEF TypeOK, Tick
<1>2. \A n \in Node \ {d} : Due(n) \in 1..Longest /\ Due(n)' = Due(n) - 1
  BY TickDue
<1> HIDE DEF Longest
<1>3. ASSUME Spread(d) PROVE Spread(d)'
  <2> SUFFICES ASSUME NEW n \in Node \ {d}
               PROVE  /\ Due(n)' + since'[d] \in 1..(Longest - 1)
                      /\ \A m \in Node \ {d, n} : Due(m)' # Due(n)'
    BY DEF Spread
  <2>1. Due(n) + since[d] \in 1..(Longest - 1) /\ Due(n) \in 1..Longest /\ Due(n)' = Due(n) - 1
    BY <1>2, <1>3 DEF Spread
  <2>2. Due(n)' + since'[d] \in 1..(Longest - 1)
    BY <1>1, <2>1
  <2>3. ASSUME NEW m \in Node \ {d, n} PROVE Due(m)' # Due(n)'
    <3>1. Due(m) # Due(n) /\ Due(m) \in 1..Longest /\ Due(m)' = Due(m) - 1
      BY <1>2, <1>3 DEF Spread
    <3> QED
      BY <1>1, <2>1, <3>1
  <2> QED
    BY <2>2, <2>3
<1>4. ASSUME Opening(d) PROVE Opening(d)'
  <2>1. PICK f \in Node \ {d} : \A n \in Node \ {d, f} :
          /\ Due(n) \in (Due(f) + 1)..(Due(f) + Longest - 1)
          /\ Due(n) # Due(f) + Back(d, Due(f))
    BY <1>4 DEF Opening
  <2>2. Due(f) \in 1..Longest /\ Due(f)' = Due(f) - 1
    BY <1>2
  <2>3. since'[d] >= 1
    BY <1>1, <1>4 DEF Opening
  <2>4. Back(d, Due(f)) \in 1..Longest /\ Back(d, Due(f))' = Back(d, Due(f))
    BY <1>1, <1>4, <2>2 DEF Back, Opening
  <2>5. ASSUME NEW n \in Node \ {d, f}
        PROVE  /\ Due(n)' \in (Due(f)' + 1)..(Due(f)' + Longest - 1)
               /\ Due(n)' # Due(f)' + Back(d, Due(f))'
    <3>1. /\ Due(n) \in 1..Longest /\ Due(n)' = Due(n) - 1
          /\ Due(n) \in (Due(f) + 1)..(Due(f) + Longest - 1)
          /\ Due(n) # Due(f) + Back(d, Due(f))
      BY <1>2, <2>1
    <3> QED
      BY <1>1, <2>2, <2>4, <3>1
  <2>6. ASSUME NEW n \in Node \ {d}, NEW m \in Node \ {d, n} PROVE Due(m)' # Due(n)'
    <3>1. /\ Due(m) # Due(n) /\ Due(m) \in 1..Longest /\ Due(n) \in 1..Longest
          /\ Due(m)' = Due(m) - 1 /\ Due(n)' = Due(n) - 1
      BY <1>2, <1>4 DEF Opening
    <3> QED
      BY <1>1, <3>1
  <2> QED
    BY <2>3, <2>5, <2>6 DEF Opening
<1> QED
  BY <1>3, <1>4

\* Who takes over comes alone: its rest has ended, and that of no other.
LEMMA TakeoverSpread ==
    ASSUME TypeOK, Period > 1, NEW d \in Node, NEW t \in Node \ {d},
           Awake(d), ~Awake(t), rest[t] = 0, Spread(d) \/ Opening(d),
           state' = [state EXCEPT ![t] = "DEPUTY"], since' = [since EXCEPT ![t] = 0],
           rest' = rest, told' = told
    PROVE  Spread(t)'
<1>1. /\ Longest \in Nat /\ Longest > 1 /\ since[d] \in 0..Longest /\ since'[t] = 0
      /\ Due(t) = 0 /\ \A n \in Node : Due(n) \in 0..Longest
  BY LongRest, DueType DEF TypeOK, Due
<1>2. \A n \in Node \ {t} : since'[n] = since[n] /\ (Awake(n)' <=> Awake(n)) /\ Due(n)' = Due(n)
  BY DEF TypeOK, Awake, Due
<1>3. Due(d)' = IF since[d] < Longest THEN Longest - since[d] ELSE 1
  BY <1>2 DEF Due
<1> HIDE DEF Longest
<1>4. /\ since[d] >= 1
      /\ \A n \in Node \ {d, t} : /\ Due(n) \in 1..(Longest - 1)
                                  /\ Due(n) # Due(d)'
                                  /\ \A m \in Node \ {d, t, n} : Due(m) # Due(n)
  <2>1. CASE Spread(d)
    <3>1. since[d] >= 1
      BY <1>1, <2>1 DEF Spread
    <3>2. ASSUME NEW n \in Node \ {d, t}
          PROVE  /\ Due(n) \in 1..(Longest - 1)
                 /\ Due(n) # Due(d)'
                 /\ \A m \in Node \ {d, t, n} : Due(m) # Due(n)
      <4>1. /\ Due(n) + since[d] \in 1..(Longest - 1) /\ Due(n) \in 0..Longest /\ Due(t) # Due(n)
            /\ \A m \in Node \ {d, t, n} : Due(m) # Due(n)
        BY <1>1, <2>1 DEF Spread
      <4> QED
        BY <1>1, <1>3, <4>1
    <3> QED
      BY <3>1, <3>2
  <2>2. CASE Opening(d)
    <3>1. PICK f \in Node \ {d} : \A n \in Node \ {d, f} :
            /\ Due(n) \in (Due(f) + 1)..(Due(f) + Longest - 1)
            /\ Due(n) # Due(f) + Back(d, Due(f))
      BY <2>2 DEF Opening
    <3>2. f = t
      <4> SUFFICES ASSUME f # t PROVE FALSE
        OBVIOUS
      <4>1. Due(t) \in (Due(f) + 1)..(Due(f) + Longest - 1) /\ Due(f) \in 0..Longest
        BY <1>1, <3>1
      <4> QED
        BY <1>1, <4>1
    <3>3. since[d] >= 1 /\ Back(d, 0) = Due(d)'
      BY <1>1, <1>3, <2>2 DEF Opening, Back
    <3>4. Back(d, 0) \in Nat
      BY <1>1 DEF Back
    <3>5. ASSUME NEW n \in Node \ {d, t} PROVE Due(n) \in 1..(Longest - 1) /\ Due(n) # Due(d)'
      BY <1>1, <3>1, <3>2, <3>3, <3>4
    <3> QED
      BY <2>2, <3>3, <3>5 DEF Opening
  <2> QED
    BY <2>1, <2>2
<1>5. ASSUME NEW n \in Node \ {t} PROVE Due(n)' + since'[t] \in 1..(Longest - 1)
  <2>1. CASE n = d
    BY <1>1, <1>3, <1>4, <2>1
  <2>2. CASE n # d
    <3>1. Due(n) \in 1..(Longest - 1) /\ Due(n)' = Due(n)
      BY <1>2, <1>4, <2>2
    <3> QED
      BY <1>1, <3>1
  <2> QED
    BY <2>1, <2>2
<1>6. ASSUME NEW n \in Node \ {t}, NEW m \in Node \ {t, n} PROVE Due(m)' # Due(n)'
  BY <1>2, <1>4
<1> QED
  BY <1>5, <1>6 DEF Spread

\* Going to rest changes nothing of this.
LEMMA SleepSpread ==
    ASSUME TypeOK, Period > 1, NEW d \in Node, NEW g \in Node \ {d}, Awake(g), Spread(d),
           state' = [state EXCEPT ![g] = "INACTIVE"], rest' = [rest EXCEPT ![g] = Longest],
           told' = [told EXCEPT ![g] = Longest], since' = since
    PROVE  Spread(d)' /\ rest'[g] # 0
<1>1. /\ Longest \in Nat /\ Longest > 1 /\ since[g] \in 0..Longest
      /\ rest'[g] = Longest /\ told'[g] = Longest /\ ~Awake(g)'
  BY LongRest DEF TypeOK, Awake
<1> HIDE DEF Longest
<1>2. Due(g)' = Due(g)
  BY <1>1 DEF Due
<1>3. \A n \in Node \ {g} : Due(n)' = Due(n)
  BY DEF TypeOK, Awake, Due
<1> QED
  BY <1>1, <1>2, <1>3 DEF Spread

-----------------------------------------------------------------------------
(***************************************************************************)
(* What waits, and what is stored.                                         *)
(***************************************************************************)

\* A queue of own data, and an Interest put behind them.
LEMMA OwnedQueue ==
    ASSUME NEW q \in Seq(Frames), NEW f \in Frames, Owned(q)
    PROVE  /\ f.type = "own" => Owned(Append(q, f))
           /\ f.type = "int" => Holds(Append(q, f), f)
           /\ q # <<>> => Owned(Tail(q)) /\ Head(q).type = "own"
<1>1. /\ Len(q) \in Nat /\ DOMAIN q = 1..Len(q)
      /\ DOMAIN Append(q, f) = 1..(Len(q) + 1) /\ Append(q, f)[Len(q) + 1] = f
      /\ \A i \in 1..Len(q) : Append(q, f)[i] = q[i]
  OBVIOUS
<1>2. ASSUME q # <<>>
      PROVE  /\ DOMAIN Tail(q) = 1..(Len(q) - 1) /\ Head(q) = q[1] /\ 1 \in 1..Len(q)
             /\ \A i \in 1..(Len(q) - 1) : Tail(q)[i] = q[i + 1] /\ i + 1 \in 1..Len(q)
  BY <1>2
<1>3. f.type = "own" => Owned(Append(q, f))
  BY <1>1 DEF Owned
<1>4. Holds(Append(q, f), f)
  BY <1>1 DEF Owned, Holds
<1>5. q # <<>> => Owned(Tail(q)) /\ Head(q).type = "own"
  BY <1>1, <1>2 DEF Owned
<1> QED
  BY <1>3, <1>4, <1>5

\* A queue with one Interest among own data.
LEMMA HeldQueue ==
    ASSUME NEW q \in Seq(Frames), NEW f \in Frames, NEW h \in Frames, Holds(q, f),
           f.type = "int", h.type = "own"
    PROVE  /\ Holds(Append(q, h), f)
           /\ q # <<>>
           /\ \/ Head(q) = f /\ Owned(Tail(q))
              \/ Head(q).type = "own" /\ Holds(Tail(q), f)
<1>1. PICK i \in DOMAIN q : q[i] = f /\ \A j \in DOMAIN q \ {i} : q[j].type = "own"
  BY DEF Holds
<1>2. /\ Len(q) \in Nat /\ DOMAIN q = 1..Len(q) /\ i \in 1..Len(q) /\ q # <<>>
      /\ DOMAIN Append(q, h) = 1..(Len(q) + 1) /\ Append(q, h)[Len(q) + 1] = h
      /\ \A k \in 1..Len(q) : Append(q, h)[k] = q[k]
  OBVIOUS
<1>3. /\ DOMAIN Tail(q) = 1..(Len(q) - 1) /\ Head(q) = q[1] /\ 1 \in 1..Len(q)
      /\ \A k \in 1..(Len(q) - 1) : Tail(q)[k] = q[k + 1] /\ k + 1 \in 1..Len(q)
  BY <1>2
<1>4. Holds(Append(q, h), f)
  <2>1. Append(q, h)[i] = f /\ i \in 1..(Len(q) + 1)
    BY <1>1, <1>2
  <2>2. \A j \in (1..(Len(q) + 1)) \ {i} : Append(q, h)[j].type = "own"
    BY <1>1, <1>2
  <2> QED
    BY <1>2, <2>1, <2>2 DEF Holds
<1>5. CASE i = 1
  <2>1. ASSUME NEW k \in 1..(Len(q) - 1) PROVE Tail(q)[k].type = "own"
    <3>1. k + 1 \in DOMAIN q \ {i} /\ Tail(q)[k] = q[k + 1]
      BY <1>2, <1>3, <1>5
    <3> QED
      BY <1>1, <3>1
  <2>2. Head(q) = f /\ Owned(Tail(q))
    BY <1>1, <1>3, <1>5, <2>1 DEF Owned
  <2> QED
    BY <1>2, <1>4, <2>2
<1>6. CASE i # 1
  <2>1. Head(q).type = "own"
    BY <1>1, <1>2, <1>3, <1>6
  <2>2. i - 1 \in 1..(Len(q) - 1) /\ Tail(q)[i - 1] = f
    BY <1>1, <1>2, <1>3, <1>6
  <2>3. \A j \in (1..(Len(q) - 1)) \ {i - 1} : Tail(q)[j].type = "own"
    BY <1>1, <1>2, <1>3
  <2> QED
    BY <1>2, <1>3, <1>4, <2>1, <2>2, <2>3 DEF Holds
<1> QED
  BY <1>2, <1>4, <1>5, <1>6

\* A queue with one element.
LEMMA Single ==
    ASSUME NEW x
    PROVE  /\ <<x>> # <<>> /\ Head(<<x>>) = x /\ Tail(<<x>>) = <<>> /\ Append(<<>>, x) = <<x>>
           /\ DOMAIN <<x>> = {1} /\ Len(<<x>>) = 1
OBVIOUS

\* A datum that is stored twice is at two places of the store.
LEMMA StoreHasRoom ==
    ASSUME NEW s \in Seq(Datum), Distinct(s)
    PROVE  Len(s) <= Cap
<1>1. Len(s) \in Nat /\ DOMAIN s = 1..Len(s) /\ s \in [1..Len(s) -> Datum]
  OBVIOUS
<1>2. s \in Injection(1..Len(s), Datum)
  BY <1>1 DEF Distinct, Injection, IsInjective
<1>3. Cardinality(1..Len(s)) <= Cardinality(Datum)
  BY <1>2, FS_Injection, ConstantsAssumption
<1>4. Cardinality(1..Len(s)) = Len(s)
  BY <1>1, FS_Interval
<1>5. Cardinality(Datum) \in Nat
  BY FS_CardinalityType, ConstantsAssumption
<1> QED
  BY <1>1, <1>3, <1>4, <1>5, ConstantsAssumption

Values(s) == {s[i] : i \in DOMAIN s}

\* A new datum at the head of a store.
LEMMA ConsDatum ==
    ASSUME NEW s \in Seq(Datum), NEW x \in Datum, Distinct(s), \A i \in DOMAIN s : s[i] # x,
           NEW r, r = <<x>> \o s
    PROVE  /\ r \in Seq(Datum) /\ Distinct(r)
           /\ Values(r) = Values(s) \cup {x}
<1>1. /\ r \in Seq(Datum) /\ Len(s) \in Nat /\ DOMAIN s = 1..Len(s)
      /\ DOMAIN r = 1..(Len(s) + 1) /\ r[1] = x
      /\ \A i \in 1..Len(s) : r[i + 1] = s[i]
      /\ \A i \in 2..(Len(s) + 1) : r[i] = s[i - 1] /\ i - 1 \in 1..Len(s)
  OBVIOUS
<1>2. Distinct(r)
  <2> SUFFICES ASSUME NEW i \in 1..(Len(s) + 1), NEW j \in 1..(Len(s) + 1), r[i] = r[j]
               PROVE  i = j
    BY <1>1 DEF Distinct
  <2>1. CASE i = 1 /\ j # 1
    <3>1. j \in 2..(Len(s) + 1)
      BY <1>1, <2>1
    <3> QED
      BY <1>1, <2>1, <3>1
  <2>2. CASE i # 1 /\ j = 1
    <3>1. i \in 2..(Len(s) + 1)
      BY <1>1, <2>2
    <3> QED
      BY <1>1, <2>2, <3>1
  <2>3. CASE i # 1 /\ j # 1
    <3>1. i \in 2..(Len(s) + 1) /\ j \in 2..(Len(s) + 1)
      BY <1>1, <2>3
    <3>2. s[i - 1] = s[j - 1] /\ i - 1 \in DOMAIN s /\ j - 1 \in DOMAIN s
      BY <1>1, <3>1
    <3>3. i - 1 = j - 1
      BY <3>2 DEF Distinct
    <3> QED
      BY <3>1, <3>3
  <2> QED
    BY <2>1, <2>2, <2>3
<1>3. ASSUME NEW y PROVE (\E i \in DOMAIN r : r[i] = y) <=> y = x \/ \E i \in DOMAIN s : s[i] = y
  <2>1. CASE y = x
    BY <1>1, <2>1
  <2>2. CASE y # x
    <3>1. ASSUME NEW i \in DOMAIN r, r[i] = y PROVE \E k \in DOMAIN s : s[k] = y
      <4>1. i \in 2..(Len(s) + 1)
        BY <1>1, <2>2, <3>1
      <4> QED
        BY <1>1, <3>1, <4>1
    <3>2. ASSUME NEW i \in DOMAIN s, s[i] = y PROVE \E k \in DOMAIN r : r[k] = y
      <4>1. i + 1 \in DOMAIN r /\ r[i + 1] = y
        BY <1>1, <3>2
      <4> QED
        BY <4>1
    <3> QED
      BY <2>2, <3>1, <3>2
  <2> QED
    BY <2>1, <2>2
<1>4. Values(r) = Values(s) \cup {x}
  <2>1. ASSUME NEW y PROVE y \in Values(r) <=> y \in Values(s) \cup {x}
    <3>1. y \in Values(r) <=> \E i \in DOMAIN r : r[i] = y
      BY DEF Values
    <3>2. y \in Values(s) <=> \E i \in DOMAIN s : s[i] = y
      BY DEF Values
    <3>3. (\E i \in DOMAIN r : r[i] = y) <=> (y = x \/ \E i \in DOMAIN s : s[i] = y)
      BY <1>3
    <3> QED
      BY <3>1, <3>2, <3>3, Zenon
  <2> QED
    BY <2>1
<1> QED
  BY <1>1, <1>2, <1>4

\* A store only grows, by the content that arrives.
LEMMA StoreGrows ==
    ASSUME TypeOK, Kept, NEW n \in Node, StoreChunk(n)
    PROVE  /\ Stored(n)' = Stored(n) \cup {Head(inbox[n]).datum}
           /\ \A m \in Node \ {n} : contents'[m] = contents[m] /\ Stored(m)' = Stored(m)
           /\ Distinct(contents'[n])
<1> DEFINE x == Head(inbox[n]).datum
<1>1. /\ contents' = IF x \in Stored(n) THEN contents
                     ELSE [contents EXCEPT ![n] = <<x>> \o contents[n]]
      /\ Incoming(n, {"chunk", "own"})
  BY DEF StoreChunk
<1>2. x \in Datum
  BY <1>1, IncomingFrame, FramesRead
<1> HIDE DEF x
<1>3. contents[n] \in Seq(Datum) /\ Distinct(contents[n]) /\ contents \in [Node -> Seq(Datum)]
  BY DEF TypeOK, Kept
<1>4. \A m \in Node \ {n} : contents'[m] = contents[m]
  BY <1>1, <1>3
<1>5. CASE x \in Stored(n)
  BY <1>1, <1>3, <1>5 DEF Stored, x
<1>6. CASE x \notin Stored(n)
  <2>1. contents'[n] = <<x>> \o contents[n] /\ \A i \in DOMAIN contents[n] : contents[n][i] # x
    BY <1>1, <1>3, <1>6 DEF Stored
  <2> DEFINE r == contents'[n]
             s == contents[n]
  <2>2. r = <<x>> \o s /\ s \in Seq(Datum) /\ Distinct(s) /\ \A i \in DOMAIN s : s[i] # x
    BY <1>3, <2>1
  <2> HIDE DEF r, s
  <2>3. Distinct(r) /\ Values(r) = Values(s) \cup {x}
    BY <1>2, <2>2, ConsDatum
  <2>4. Stored(n)' = Stored(n) \cup {x}
    BY <2>3 DEF Stored, Values, r, s
  <2> QED
    BY <1>4, <2>3, <2>4 DEF Stored, x, r
<1> QED
  BY <1>5, <1>6

-----------------------------------------------------------------------------
(***************************************************************************)
(* The beginning.                                                          *)
(***************************************************************************)

\* The rests that beaconing gave end one by one.
LEMMA OpeningHolds ==
    ASSUME Regular, Init, ComesBackAlone
    PROVE  Opening(0) /\ \A n \in Node \ {0} : Due(n) # 0
<1> DEFINE P(n) == n * Period
<1>1. /\ Longest \in Nat /\ Longest > 1 /\ Period \in Nat /\ 1 < Period /\ Period <= Longest
  BY LongRest, ConstantsAssumption DEF Regular
<1>2. ASSUME NEW a \in Nat, NEW c \in Nat
      PROVE  P(a) \in Nat /\ P(a + c) = P(a) + P(c)
  BY <1>1
<1>3. P(1) = Period
  BY <1>1
<1>4. ASSUME NEW n \in Node \ {0}
      PROVE  n \in Nat /\ n >= 1 /\ P(n) = P(n - 1) + Period /\ P(n) \in Nat /\ P(n - 1) \in Nat
             /\ P(n) <= Longest
  <2>1. n \in Nat /\ n >= 1 /\ n - 1 \in Nat /\ (n - 1) + 1 = n
    BY ConstantsAssumption DEF Node
  <2>2. P(n) \in 0..Longest
    BY RestLengths
  <2> HIDE DEF P
  <2>3. P((n - 1) + 1) = P(n - 1) + P(1) /\ P(n - 1) \in Nat
    BY <1>2, <2>1
  <2> QED
    BY <1>1, <1>3, <2>1, <2>2, <2>3
<1>5. ASSUME NEW n \in Node \ {0} PROVE Due(n) = P(n)
  <2>1. rest[n] = P(n) /\ told[n] = P(n) /\ since[n] = 0 /\ ~Awake(n)
    BY RestLengths DEF Init, Awake
  <2> HIDE DEF P
  <2> QED
    BY <1>1, <1>4, <2>1 DEF Due
<1>6. since[0] \in 1..Longest
  BY <1>1, ConstantsAssumption DEF Init, Regular, Node
<1>7. \A n \in 2..(Size - 1) : P(n - 1) # Back(0, Period)
  BY DEF ComesBackAlone
<1>8. Size \in Nat /\ Size >= 2 /\ 1 \in Node \ {0}
  BY ConstantsAssumption DEF Node
<1>9. \A n \in Node \ {0, 1} : n \in 2..(Size - 1)
  BY <1>8 DEF Node
<1> HIDE DEF P
<1>10. ASSUME NEW n \in Node \ {0}, NEW m \in Node \ {0, n} PROVE Due(m) # Due(n)
  <2>1. ASSUME NEW a \in Node \ {0}, NEW b \in Node \ {0}, a < b PROVE P(a) < P(b)
    <3>1. a \in Nat /\ b \in Nat /\ b - a - 1 \in Nat /\ P(a) \in Nat
      BY <1>4, <2>1
    <3> DEFINE c == b - a - 1
               e == a + 1
    <3>4. c \in Nat /\ e \in Nat /\ e + c = b
      BY <3>1
    <3>5. P(a + 1) = P(a) + P(1)
      BY <1>2, <3>1
    <3> HIDE DEF c
    <3>2. P(e + c) = P(e) + P(c) /\ P(c) \in Nat
      BY <1>2, <3>4
    <3>3. P(b) = P(e) + P(c)
      BY <3>2, <3>4
    <3> QED
      BY <1>1, <1>3, <3>1, <3>2, <3>3, <3>5
  <2>2. n \in Nat /\ m \in Nat /\ n # m /\ P(n) \in Nat /\ P(m) \in Nat
    BY <1>4
  <2>3. CASE n < m
    BY <1>5, <2>1, <2>2, <2>3
  <2>4. CASE m < n
    BY <1>5, <2>1, <2>2, <2>4
  <2> QED
    BY <2>2, <2>3, <2>4
<1>11. Due(1) = Period
  BY <1>3, <1>5, <1>8
<1>12. ASSUME NEW n \in Node \ {0, 1}
       PROVE  /\ Due(n) \in (Due(1) + 1)..(Due(1) + Longest - 1)
              /\ Due(n) # Due(1) + Back(0, Due(1))
  <2>1. n \in 2..(Size - 1) /\ Due(n) = P(n - 1) + Period /\ P(n - 1) \in Nat
        /\ P(n - 1) + Period <= Longest
    BY <1>4, <1>5, <1>9
  <2>2. P(n - 1) # Back(0, Period)
    BY <1>7, <2>1
  <2>3. Back(0, Period) \in Nat
    BY <1>1, <1>6 DEF Back
  <2>4. Due(n) > Due(1)
    <3>1. P(n - 1) = P(n - 2) + Period /\ P(n - 2) \in Nat
      <4>1. n - 1 \in Node \ {0}
        BY <1>8, <2>1 DEF Node
      <4>2. (n - 1) - 1 = n - 2
        BY <2>1
      <4> QED
        BY <1>4, <4>1, <4>2
    <3> QED
      BY <1>1, <1>11, <2>1, <3>1
  <2> QED
    BY <1>1, <1>11, <2>1, <2>2, <2>3, <2>4
<1>13. Opening(0)
  BY <1>1, <1>6, <1>8, <1>10, <1>12 DEF Opening
<1>14. ASSUME NEW n \in Node \ {0} PROVE Due(n) # 0
  BY <1>1, <1>4, <1>5
<1> QED
  BY <1>13, <1>14

\* The invariant holds before the first takeover.
LEMMA InitRInv ==
    ASSUME Regular, Init, ComesBackAlone
    PROVE  RInv
<1>1. TypeOK
  BY InitInv DEF IInv
<1>2. 0 \in Node
  BY ConstantsAssumption DEF Node
<1>3. Opening(0) /\ \A n \in Node \ {0} : Due(n) # 0
  BY OpeningHolds
<1>4. \A n \in Node : /\ inbox[n] = <<>> /\ queue[n] = <<>> /\ contents[n] = <<>>
                      /\ mgr[n].pc = "loop" /\ ~mgr[n].wait
                      /\ state[n] = IF n = 0 THEN "DEPUTY" ELSE "INACTIVE"
                      /\ alarm[n] <=> n # 0
  BY DEF Init
<1>5. \A n \in Node \ {0} : Resting(n) /\ rest[n] # 0
  BY <1>3, <1>4 DEF Resting, Awake, Due
<1>6. Working(0)
  BY <1>2, <1>4 DEF Working, Owned
<1>7. Alone(0)
  BY <1>2, <1>3, <1>4, <1>5, <1>6 DEF Alone, Working
<1>8. Kept
  BY <1>4 DEF Kept, Distinct, Stored
<1> QED
  BY <1>1, <1>2, <1>7, <1>8 DEF RInv, InPhase

-----------------------------------------------------------------------------
(***************************************************************************)
(* What a node can do, by what waits for its threads.                      *)
(***************************************************************************)

Act(n) ==
    Manager(n) \/ dow_new_data(n) \/ Ccnl(n) \/ Alarm(n) \/ WaitTimer(n) \/ Lose(n)

\* Without a message the manager does nothing, without a frame CCN-lite's thread.
LEMMA NothingWaits ==
    ASSUME NEW n \in Node
    PROVE  /\ queue[n] = <<>> => ~Manager(n)
           /\ inbox[n] = <<>> => ~Ccnl(n) /\ ~Lose(n)
<1>1. ASSUME queue[n] = <<>> PROVE ~Manager(n)
  BY <1>1 DEF Manager, dow_takeover, dow_sleep, Disregard, _populate_data, GotAnswer, GotTimeout,
              GotOther, AwaitInterest, Receive
<1>2. ASSUME inbox[n] = <<>> PROVE ~Ccnl(n) /\ ~Lose(n)
  BY <1>2 DEF Ccnl, ccnlriot_producer, StoreChunk, StoreAck, Drop, Incoming, Lose
<1> QED
  BY <1>1, <1>2

\* The manager handles the only message there is.
LEMMA OneMessage ==
    ASSUME TypeOK, NEW n \in Node, NEW x, queue[n] = <<x>>, Manager(n)
    PROVE  /\ queue' = [queue EXCEPT ![n] = <<>>]
           /\ x = "SECOND" => dow_takeover(n)
           /\ x = "INACTIVE" /\ mgr[n].pc = "loop" => dow_sleep(n)
           /\ mgr[n].pc = "chunk" => UNCHANGED <<state, restVars, contents, lost>>
           /\ mgr[n].pc = "chunk" /\ x = "TIMEOUT" => TimedOut(n)
           /\ mgr[n].pc = "chunk" /\ x = "RECEIVED" => NextChunk(n, FALSE)
           /\ mgr[n].pc = "chunk" /\ x = "RECEIVED_ACK" => Return(n, FALSE)
<1>1. Head(queue[n]) = x /\ Tail(queue[n]) = <<>>
  BY Single
<1> DEFINE q == [queue EXCEPT ![n] = <<>>]
<1>3. CASE dow_takeover(n)
  <2>1. x = "SECOND" /\ mgr[n].pc = "loop" /\ queue' = q
    BY <1>1, <1>3 DEF dow_takeover, Receive
  <2> QED
    BY <1>3, <2>1
<1>4. CASE dow_sleep(n)
  <2>1. x = "INACTIVE" /\ mgr[n].pc = "loop" /\ queue' = q
    BY <1>1, <1>4 DEF dow_sleep, Receive
  <2> QED
    BY <1>4, <2>1
<1>5. CASE Disregard(n) \/ _populate_data(n)
  <2>1. x \in {"RECEIVED", "RECEIVED_ACK", "TIMEOUT"} /\ mgr[n].pc = "loop" /\ queue' = q
    BY <1>1, <1>5 DEF Disregard, _populate_data, Receive
  <2> QED
    BY <2>1
<1>6. CASE GotAnswer(n)
  <2>1. /\ UNCHANGED <<state, restVars, contents, lost>> /\ queue' = q /\ mgr[n].pc = "chunk"
        /\ (x = "RECEIVED" /\ NextChunk(n, FALSE)) \/ (x = "RECEIVED_ACK" /\ Return(n, FALSE))
    BY <1>1, <1>6 DEF GotAnswer, Receive
  <2> QED
    BY <2>1
<1>7. CASE GotTimeout(n) \/ GotOther(n)
  <2>1. /\ UNCHANGED <<state, restVars, contents, lost>> /\ queue' = q /\ mgr[n].pc = "chunk"
        /\ (x = "TIMEOUT" /\ TimedOut(n)) \/ x = "INACTIVE"
    BY <1>1, <1>7 DEF GotTimeout, GotOther, Receive
  <2> QED
    BY <2>1
<1>8. CASE AwaitInterest(n)
  <2>1. /\ x \in {"TIMEOUT", "INACTIVE", "RECEIVED", "RECEIVED_ACK"}
        /\ mgr[n].pc = "interest" /\ queue' = q
    BY <1>1, <1>8 DEF AwaitInterest, Receive
  <2> QED
    BY <2>1
<1> QED
  BY <1>3, <1>4, <1>5, <1>6, <1>7, <1>8 DEF Manager

\* Who of CCN-lite's thread handles the first frame.
LEMMA FirstFrame ==
    ASSUME TypeOK, NEW n \in Node, Ccnl(n), Awake(n)
    PROVE  LET t == Head(inbox[n]).type IN
           /\ inbox[n] # <<>>
           /\ t = "int" => ccnlriot_producer(n)
           /\ t \in {"own", "chunk"} /\ state[n] = "DEPUTY" => StoreChunk(n)
           /\ t = "ack" /\ state[n] = "DEPUTY" => StoreAck(n)
           /\ t = "own" => StoreChunk(n) \/ Drop(n)
BY DEF Ccnl, ccnlriot_producer, StoreChunk, StoreAck, Drop, Incoming, Awake

\* A node that is awake generates a datum or handles one of its own: the exchange
\* is not affected, and in HANDOVER not the store either.
LEMMA OwnStep ==
    ASSUME TypeOK, Kept, NEW n \in Node, Awake(n),
           dow_new_data(n) \/ (Ccnl(n) /\ Head(inbox[n]).type = "own")
    PROVE  /\ UNCHANGED <<state, mgr, restVars, queue, lost>>
           /\ \A m \in Node \ {n} : inbox'[m] = inbox[m] /\ contents'[m] = contents[m]
           /\ \A m \in Node : Stored(m) \subseteq Stored(m)'
           /\ contents'[n] = contents[n] \/ state[n] = "DEPUTY"
           /\ Owned(inbox[n]) => Owned(inbox'[n])
           /\ \A f \in Frames : f.type = "int" /\ Holds(inbox[n], f) => Holds(inbox'[n], f)
<1>1. inbox[n] \in Seq(Frames) /\ inbox \in [Node -> Seq(Frames)]
  BY DEF TypeOK
<1>2. CASE dow_new_data(n)
  <2>1. PICK x \in fresh : inbox' = [inbox EXCEPT ![n] = Append(@, [type |-> "own", datum |-> x])]
    BY <1>2 DEF dow_new_data
  <2>2. UNCHANGED <<state, mgr, restVars, queue, lost, contents>>
    BY <1>2 DEF dow_new_data, nodeVars
  <2> DEFINE h == [type |-> "own", datum |-> x]
  <2>3. h \in Frames /\ h.type = "own" /\ inbox' = [inbox EXCEPT ![n] = Append(@, h)]
    BY <2>1, FramesBuilt DEF TypeOK
  <2> HIDE DEF h
  <2>4. inbox'[n] = Append(inbox[n], h) /\ \A m \in Node \ {n} : inbox'[m] = inbox[m]
    BY <1>1, <2>3
  <2>5. Owned(inbox[n]) => Owned(inbox'[n])
    BY <1>1, <2>3, <2>4, OwnedQueue
  <2>6. \A f \in Frames : f.type = "int" /\ Holds(inbox[n], f) => Holds(inbox'[n], f)
    BY <1>1, <2>3, <2>4, HeldQueue
  <2>7. \A m \in Node : Stored(m)' = Stored(m)
    BY <2>2 DEF Stored
  <2> QED
    BY <2>2, <2>4, <2>5, <2>6, <2>7
<1>3. CASE Ccnl(n) /\ Head(inbox[n]).type = "own"
  <2>1. (StoreChunk(n) \/ Drop(n)) /\ inbox[n] # <<>>
    BY <1>3, FirstFrame
  <2> DEFINE h == Head(inbox[n])
  <2>2. /\ inbox' = [inbox EXCEPT ![n] = Tail(inbox[n])]
        /\ UNCHANGED <<state, mgr, restVars, lost>>
    BY <2>1 DEF StoreChunk, Drop, nodeVars
  <2>3. inbox'[n] = Tail(inbox[n]) /\ \A m \in Node \ {n} : inbox'[m] = inbox[m]
    BY <1>1, <2>2
  <2>4. h \in Frames /\ h.type = "own"
    BY <1>1, <1>3, <2>1
  <2> HIDE DEF h
  <2>5. Owned(inbox[n]) => Owned(inbox'[n])
    BY <1>1, <2>1, <2>3, <2>4, OwnedQueue
  <2>6. ASSUME NEW f \in Frames, f.type = "int", Holds(inbox[n], f) PROVE Holds(inbox'[n], f)
    <3>1. Head(inbox[n]) # f
      BY <1>3, <2>6
    <3>2. Head(inbox[n]) = f \/ Holds(Tail(inbox[n]), f)
      BY <1>1, <2>4, <2>6, HeldQueue
    <3> QED
      BY <2>3, <3>1, <3>2
  <2>7. queue' = queue
    BY <1>3, <2>1 DEF StoreChunk, Drop, nodeVars
  <2>8. CASE StoreChunk(n)
    <3>1. state[n] = "DEPUTY"
      BY <2>8 DEF StoreChunk
    <3>2. /\ \A m \in Node \ {n} : contents'[m] = contents[m]
          /\ \A m \in Node : Stored(m) \subseteq Stored(m)'
      BY <2>8, StoreGrows
    <3> QED
      BY <2>2, <2>3, <2>5, <2>6, <2>7, <3>1, <3>2
  <2>9. CASE Drop(n)
    <3>1. contents' = contents
      BY <2>9 DEF Drop, nodeVars
    <3> QED
      BY <2>2, <2>3, <2>5, <2>6, <2>7, <3>1 DEF Stored
  <2> QED
    BY <2>1, <2>8, <2>9
<1> QED
  BY <1>2, <1>3

\* What the next Interest does to the deputy.
LEMMA AskStep ==
    ASSUME TypeOK, NEW d \in Node, NEW c, NEW k, Ask(d, c, k)
    PROVE  /\ mgr'[d] = [pc |-> "chunk", cn |-> c, cnt |-> k, wait |-> TRUE]
           /\ \A n \in Node \ {d} : mgr'[n] = mgr[n]
           /\ inbox'[d] = inbox[d]
           /\ \A n \in Node \ {d} :
                 inbox'[n] = IF Awake(n)
                             THEN Append(inbox[n], [type |-> "int", from |-> d, num |-> c])
                             ELSE inbox[n]
BY DEF Ask, TypeOK

\* dow_takeover() has asked for all numbers.
LEMMA ReturnStep ==
    ASSUME TypeOK, NEW d \in Node, NEW w, Return(d, w)
    PROVE  /\ mgr'[d].pc = "loop" /\ mgr'[d].wait = w
           /\ \A n \in Node \ {d} : mgr'[n] = mgr[n]
           /\ inbox' = inbox
BY DEF Return, TypeOK, Managers

\* The deputy with nobody left to ask: in its loop, or at the end of the exchange.
LEMMA FinishStep ==
    ASSUME TypeOK, Kept, Regular, NEW d \in Node, state[d] = "DEPUTY", ~alarm[d],
           Working(d) \/ Finishing(d), Act(d)
    PROVE  /\ UNCHANGED <<state, restVars>>
           /\ \A n \in Node \ {d} : /\ mgr'[n] = mgr[n] /\ queue'[n] = queue[n]
                                    /\ inbox'[n] = inbox[n] /\ contents'[n] = contents[n]
           /\ Stored(d) \subseteq Stored(d)'
           /\ mgr[d].pc = "loop" => mgr'[d].pc = "loop"
           /\ Working(d)' \/ Finishing(d)' \/ (Idle /\ Missed(d)')
<1>1. Awake(d) /\ ~Alarm(d) /\ inbox[d] \in Seq(Frames) /\ inbox \in [Node -> Seq(Frames)]
      /\ queue \in [Node -> Seq(Messages)] /\ mgr \in [Node -> Managers]
  BY DEF Awake, Alarm, TypeOK
<1>2. CASE Working(d)
  <2>1. mgr[d].pc = "loop" /\ ~mgr[d].wait /\ queue[d] = <<>> /\ Owned(inbox[d])
    BY <1>2 DEF Working
  <2>2. ~Manager(d) /\ ~WaitTimer(d)
    BY <2>1, NothingWaits DEF WaitTimer
  <2>3. inbox[d] # <<>> => Head(inbox[d]).type = "own"
    BY <1>1, <2>1 DEF Owned
  <2>4. dow_new_data(d) \/ (Ccnl(d) /\ Head(inbox[d]).type = "own")
    BY <1>1, <2>2, <2>3, NothingWaits DEF Act, Lose
  <2>5. /\ UNCHANGED <<state, mgr, restVars, queue, lost>>
        /\ \A m \in Node \ {d} : inbox'[m] = inbox[m] /\ contents'[m] = contents[m]
        /\ \A m \in Node : Stored(m) \subseteq Stored(m)'
        /\ Owned(inbox'[d])
    BY <1>1, <2>1, <2>4, OwnStep
  <2> QED
    BY <2>1, <2>5 DEF Working
<1>3. CASE Asking(d, <<[type |-> "ack"]>>, <<>>)
  <2>1. /\ mgr[d].pc = "chunk" /\ mgr[d].wait /\ inbox[d] = <<[type |-> "ack"]>>
        /\ queue[d] = <<>> /\ Head(inbox[d]).type = "ack" /\ inbox[d] # <<>> /\ Tail(inbox[d]) = <<>>
    BY <1>3, Single DEF Asking
  <2>2. ~Manager(d) /\ ~WaitTimer(d) /\ ~dow_new_data(d)
    BY <2>1, NothingWaits DEF WaitTimer, dow_new_data
  <2>3. CASE Lose(d)
    <3>1. /\ inbox' = [inbox EXCEPT ![d] = <<>>]
          /\ UNCHANGED <<state, mgr, restVars, queue, contents>>
      BY <2>1, <2>3 DEF Lose, nodeVars
    <3>2. Finishing(d)'
      BY <1>1, <2>1, <3>1 DEF Finishing, Silent, Asking
    <3> QED
      BY <1>1, <2>1, <3>1, <3>2 DEF Stored
  <2>4. CASE Ccnl(d)
    <3>1. StoreAck(d)
      BY <1>1, <2>1, <2>4, FirstFrame
    <3>2. /\ inbox' = [inbox EXCEPT ![d] = <<>>]
          /\ queue' = [queue EXCEPT ![d] = Append(<<>>, "RECEIVED_ACK")]
          /\ UNCHANGED <<state, mgr, restVars, contents>>
      BY <2>1, <3>1 DEF StoreAck
    <3>3. queue'[d] = <<"RECEIVED_ACK">>
      BY <1>1, <3>2, Single
    <3>4. Finishing(d)'
      BY <1>1, <2>1, <3>2, <3>3 DEF Finishing, Asking
    <3> QED
      BY <1>1, <2>1, <3>2, <3>4 DEF Stored
  <2> QED
    BY <1>1, <2>2, <2>3, <2>4 DEF Act
<1>4. CASE Asking(d, <<>>, <<"RECEIVED_ACK">>)
  <2>1. /\ mgr[d].pc = "chunk" /\ mgr[d].wait /\ inbox[d] = <<>> /\ queue[d] = <<"RECEIVED_ACK">>
        /\ queue[d] # <<>>
    BY <1>4, Single DEF Asking
  <2>2. Manager(d)
    BY <1>1, <2>1, NothingWaits DEF Act, WaitTimer, dow_new_data
  <2>3. /\ queue' = [queue EXCEPT ![d] = <<>>] /\ Return(d, FALSE)
        /\ UNCHANGED <<state, restVars, contents, lost>>
    BY <2>1, <2>2, OneMessage
  <2>4. /\ mgr'[d].pc = "loop" /\ mgr'[d].wait = FALSE /\ inbox' = inbox
        /\ \A n \in Node \ {d} : mgr'[n] = mgr[n]
    BY <2>3, ReturnStep
  <2>5. Working(d)'
    BY <1>1, <2>1, <2>3, <2>4 DEF Working, Owned
  <2> QED
    BY <1>1, <2>1, <2>3, <2>4, <2>5 DEF Stored
<1>5. CASE Silent(d)
  <2>1. mgr[d].pc = "chunk" /\ mgr[d].wait /\ inbox[d] = <<>> /\ queue[d] = <<>>
    BY <1>5 DEF Silent, Asking
  <2>2. WaitTimer(d)
    BY <1>1, <2>1, NothingWaits DEF Act, dow_new_data
  <2>3. /\ mgr' = [mgr EXCEPT ![d].wait = FALSE]
        /\ queue' = [queue EXCEPT ![d] = Append(<<>>, "TIMEOUT")]
        /\ UNCHANGED <<state, restVars, contents, inbox>> /\ Idle
    BY <2>1, <2>2 DEF WaitTimer, Regular
  <2>4. queue'[d] = <<"TIMEOUT">> /\ ~mgr'[d].wait /\ mgr'[d].pc = "chunk"
    BY <1>1, <2>1, <2>3, Single DEF Managers
  <2>5. Missed(d)'
    BY <2>1, <2>3, <2>4 DEF Missed
  <2> QED
    BY <1>1, <2>1, <2>3, <2>5 DEF Stored
<1> QED
  BY <1>2, <1>3, <1>4, <1>5 DEF Finishing

-----------------------------------------------------------------------------
(***************************************************************************)
(* The deputy alone.                                                       *)
(***************************************************************************)

\* What the deputy does leaves the rests alone.
LEMMA StaysAlone ==
    ASSUME TypeOK, NEW d \in Node, Alone(d), UNCHANGED <<state, restVars>>,
           \A n \in Node \ {d} : mgr'[n] = mgr[n] /\ queue'[n] = queue[n] /\ inbox'[n] = inbox[n],
           Working(d)' \/ Finishing(d)' \/ Missed(d)',
           mgr[d].pc = "loop" => mgr'[d].pc = "loop"
    PROVE  Alone(d)'
<1>1. state' = state /\ alarm' = alarm /\ rest' = rest /\ told' = told /\ since' = since
  BY DEF restVars
<1>2. \A n \in Node : Due(n)' = Due(n) /\ (Awake(n)' <=> Awake(n))
  BY <1>1 DEF Due, Awake
<1>3. mgr[d].pc = "loop" \/ mgr[d].pc = "chunk"
  BY DEF Alone, Working, Finishing, Silent, Asking, Missed
<1>4. ASSUME NEW n \in Node \ {d} PROVE Resting(n)' /\ (rest'[n] = 0 => mgr'[d].pc = "loop")
  <2>1. Resting(n) /\ (rest[n] = 0 => mgr[d].pc = "loop")
    BY DEF Alone
  <2> QED
    BY <1>1, <1>2, <2>1 DEF Resting
<1>5. Spread(d) => Spread(d)'
  BY <1>1, <1>2 DEF Spread
<1>6. Opening(d) => Opening(d)'
  BY <1>1, <1>2 DEF Opening, Back
<1>7. Spread(d) \/ (Opening(d) /\ mgr[d].pc = "loop")
  BY DEF Alone
<1> QED
  BY <1>1, <1>4, <1>5, <1>6, <1>7 DEF Alone

\* The deputy waits in vain: it asks nobody, for the next number or once more.
LEMMA MissedStep ==
    ASSUME TypeOK, NEW d \in Node, Missed(d), TimedOut(d), queue' = [queue EXCEPT ![d] = <<>>],
           \A n \in Node \ {d} : ~Awake(n)
    PROVE  /\ \A n \in Node \ {d} : /\ mgr'[n] = mgr[n] /\ queue'[n] = queue[n]
                                    /\ inbox'[n] = inbox[n]
           /\ Working(d)' \/ Finishing(d)'
<1>1. /\ mgr[d].pc = "chunk" /\ ~mgr[d].wait /\ mgr[d].wait \in BOOLEAN /\ inbox[d] = <<>>
      /\ queue'[d] = <<>> /\ \A n \in Node \ {d} : queue'[n] = queue[n]
  BY DEF Missed, TypeOK, Managers
<1>2. ASSUME NEW c, NEW k, Ask(d, c, k)
      PROVE  /\ \A n \in Node \ {d} : mgr'[n] = mgr[n] /\ inbox'[n] = inbox[n]
             /\ Finishing(d)'
  <2>1. /\ mgr'[d] = [pc |-> "chunk", cn |-> c, cnt |-> k, wait |-> TRUE]
        /\ \A n \in Node \ {d} : mgr'[n] = mgr[n] /\ inbox'[n] = inbox[n]
        /\ inbox'[d] = inbox[d]
    BY <1>2, AskStep
  <2>2. mgr'[d].pc = "chunk" /\ mgr'[d].wait
    BY <2>1
  <2> QED
    BY <1>1, <2>1, <2>2 DEF Finishing, Silent, Asking
<1>3. ASSUME Return(d, mgr[d].wait)
      PROVE  /\ \A n \in Node \ {d} : mgr'[n] = mgr[n] /\ inbox'[n] = inbox[n]
             /\ Working(d)'
  <2>1. /\ mgr'[d].pc = "loop" /\ mgr'[d].wait = mgr[d].wait /\ inbox' = inbox
        /\ \A n \in Node \ {d} : mgr'[n] = mgr[n]
    BY <1>3, ReturnStep
  <2> QED
    BY <1>1, <2>1 DEF Working, Owned
<1> QED
  BY <1>1, <1>2, <1>3 DEF TimedOut, NextChunk

\* A node at rest can only hear its alarm or take over.
LEMMA RestingAct ==
    ASSUME TypeOK, NEW n \in Node, Resting(n), Act(n)
    PROVE  \/ dow_takeover(n) /\ rest[n] = 0 /\ queue' = [queue EXCEPT ![n] = <<>>]
           \/ Alarm(n) /\ queue[n] = <<>>
<1>1. ~Awake(n) /\ inbox[n] = <<>> /\ ~mgr[n].wait /\ state[n] = "INACTIVE"
  BY DEF Resting, Awake
<1>2. Manager(n) \/ Alarm(n)
  BY <1>1, NothingWaits DEF Act, WaitTimer, dow_new_data
<1>3. CASE alarm[n] /\ queue[n] = <<>>
  BY <1>2, <1>3, NothingWaits
<1>4. CASE ~alarm[n] /\ queue[n] = <<"SECOND">> /\ rest[n] = 0
  <2>1. Manager(n)
    BY <1>2, <1>4 DEF Alarm
  <2> QED
    BY <1>4, <2>1, OneMessage
<1> QED
  BY <1>3, <1>4 DEF Resting

\* A unit of time passes when the deputy is alone.
LEMMA AloneTick ==
    ASSUME TypeOK, Regular, NEW d \in Node, Alone(d), Tick
    PROVE  Alone(d)'
<1>1. /\ \A n \in Node : queue[n] = <<>> /\ mgr[n].pc = "loop"
      /\ UNCHANGED <<state, mgr, alarm, told, queue, contents, inbox>>
  BY DEF Tick, Idle, Regular
<1>2. \A n \in Node \ {d} : Resting(n) /\ alarm[n] /\ ~Awake(n)
  BY <1>1, Single DEF Alone, Resting
<1>3. (Spread(d) => Spread(d)') /\ (Opening(d) => Opening(d)')
  BY <1>2, TickSpread DEF Regular
<1>4. \A n \in Node \ {d} : Resting(n)'
  BY <1>1, <1>2 DEF Resting, Awake
<1>5. Working(d)
  BY <1>1 DEF Alone, Finishing, Silent, Asking, Missed
<1>6. Working(d)'
  BY <1>1, <1>5 DEF Working
<1> QED
  BY <1>1, <1>3, <1>4, <1>6 DEF Alone

\* The first of the nodes at rest takes over, and asks the deputy.
LEMMA AloneTakeover ==
    ASSUME TypeOK, Regular, NEW d \in Node, Alone(d), NEW t \in Node \ {d},
           dow_takeover(t), rest[t] = 0, queue' = [queue EXCEPT ![t] = <<>>]
    PROVE  Pair(t, d)'
<1>1. /\ state' = [state EXCEPT ![t] = "DEPUTY"] /\ Ask(t, 0, 1)
      /\ since' = [since EXCEPT ![t] = 0]
      /\ UNCHANGED <<alarm, rest, told, contents, fresh, lost>>
  BY DEF dow_takeover
<1>2. /\ state[d] = "DEPUTY" /\ Awake(d) /\ ~alarm[d] /\ ~Awake(t) /\ Resting(t)
      /\ Spread(d) \/ Opening(d)
      /\ Working(d)
  BY DEF Alone, Awake, Resting, Finishing, Silent, Asking, Missed
<1>3. /\ mgr'[t] = [pc |-> "chunk", cn |-> 0, cnt |-> 1, wait |-> TRUE]
      /\ \A n \in Node \ {t} : mgr'[n] = mgr[n]
      /\ inbox'[t] = inbox[t]
      /\ \A n \in Node \ {t} :
            inbox'[n] = IF Awake(n) THEN Append(inbox[n], [type |-> "int", from |-> t, num |-> 0])
                        ELSE inbox[n]
  BY <1>1, AskStep
<1>4. /\ state'[t] = "DEPUTY" /\ \A n \in Node \ {t} : state'[n] = state[n]
      /\ queue'[t] = <<>> /\ \A n \in Node \ {t} : queue'[n] = queue[n]
      /\ since'[t] = 0 /\ mgr'[t].pc = "chunk" /\ mgr'[t].cn = 0 /\ mgr'[t].cnt = 1 /\ mgr'[t].wait
  BY <1>1, <1>3 DEF TypeOK
<1>5. Spread(t)'
  BY <1>1, <1>2, TakeoverSpread DEF Regular
<1>6. ASSUME NEW n \in Node \ {t, d} PROVE Resting(n)'
  <2>1. Resting(n) /\ ~Awake(n) /\ mgr'[n] = mgr[n] /\ inbox'[n] = inbox[n]
        /\ queue'[n] = queue[n] /\ state'[n] = state[n]
    BY <1>3, <1>4 DEF Alone, Resting
  <2> QED
    BY <1>1, <2>1 DEF Resting, Awake
<1>7. Silent(t)'
  BY <1>2, <1>3, <1>4 DEF Silent, Asking, Resting
<1> DEFINE f == [type |-> "int", from |-> t, num |-> 0]
<1>8. Holds(inbox'[d], f)
  <2>1. 0 \in 0..(Cap + 1)
    BY ConstantsAssumption
  <2>2. f \in Frames /\ f.type = "int" /\ inbox'[d] = Append(inbox[d], f)
    BY <1>2, <1>3, <2>1, FramesBuilt
  <2> HIDE DEF f
  <2>3. inbox[d] \in Seq(Frames) /\ Owned(inbox[d])
    BY <1>2 DEF TypeOK, Working
  <2> QED
    BY <2>2, <2>3, OwnedQueue
<1>9. Giving(t, d)'
  <2>1. queue'[d] = <<>> /\ mgr'[t].cn = 0
    BY <1>2, <1>4 DEF Working
  <2>2. Len(contents'[d]) >= 0 /\ mgr'[t].cnt <= lost' + 1
    BY <1>1, <1>4, ConstantsAssumption DEF TypeOK
  <2>3. Asked(t, d)'
    BY <1>4, <1>8 DEF Asked
  <2>4. \A i \in 1..mgr'[t].cn : FALSE
    BY <2>1
  <2> QED
    BY <1>7, <2>1, <2>2, <2>3, <2>4 DEF Giving
<1>10. /\ mgr'[d].pc = "loop" /\ ~mgr'[d].wait /\ state'[t] = "DEPUTY" /\ state'[d] # "INACTIVE"
       /\ ~alarm'[t] /\ ~alarm'[d]
  <2>1. ~alarm[t]
    <3>1. queue[t] # <<>>
      BY DEF dow_takeover, Receive
    <3> QED
      BY <1>2, <3>1 DEF Resting
  <2> QED
    BY <1>1, <1>2, <1>3, <1>4, <2>1 DEF Working
<1> QED
  BY <1>4, <1>5, <1>6, <1>9, <1>10 DEF Pair

\* The alarm of a node at rest.
LEMMA AloneAlarm ==
    ASSUME TypeOK, NEW d \in Node, Alone(d), NEW n \in Node \ {d}, Alarm(n), queue[n] = <<>>
    PROVE  Alone(d)'
<1>1. /\ alarm[n] /\ rest[n] = 0
      /\ alarm' = [alarm EXCEPT ![n] = FALSE]
      /\ queue' = [queue EXCEPT ![n] = Append(<<>>, "SECOND")]
      /\ UNCHANGED <<state, mgr, rest, told, since, contents, inbox, fresh, lost>>
  BY DEF Alarm
<1>2. /\ queue'[n] = <<"SECOND">> /\ ~alarm'[n]
      /\ \A m \in Node \ {n} : queue'[m] = queue[m] /\ alarm'[m] = alarm[m]
  BY <1>1, Single DEF TypeOK
<1>3. \A m \in Node \ {d} : Resting(m)'
  BY <1>1, <1>2 DEF Alone, Resting, Awake
<1>4. Working(d)
  BY <1>1 DEF Alone, Finishing, Silent, Asking, Missed
<1>5. Working(d)'
  BY <1>1, <1>2, <1>4 DEF Working
<1>6. \A m \in Node : Due(m)' = Due(m)
  BY <1>1 DEF Due, Awake
<1>7. (Spread(d) => Spread(d)') /\ (Opening(d) => Opening(d)')
  BY <1>1, <1>6 DEF Spread, Opening, Back
<1> QED
  BY <1>1, <1>2, <1>3, <1>4, <1>5, <1>7 DEF Alone, Working

\* From one deputy a step leads to one deputy, or to a node that relieves it.
LEMMA AloneStep ==
    ASSUME TypeOK, Kept, Regular, NEW d \in Node, Alone(d), Next
    PROVE  InPhase'
<1>1. CASE Tick
  BY <1>1, AloneTick DEF InPhase
<1>2. ASSUME NEW n \in Node \ {d}, Act(n) PROVE InPhase'
  <2>1. Resting(n)
    BY DEF Alone
  <2>2. CASE dow_takeover(n) /\ rest[n] = 0 /\ queue' = [queue EXCEPT ![n] = <<>>]
    BY <2>2, AloneTakeover DEF InPhase
  <2>3. CASE Alarm(n) /\ queue[n] = <<>>
    BY <2>3, AloneAlarm DEF InPhase
  <2> QED
    BY <1>2, <2>1, <2>2, <2>3, RestingAct
<1>3. ASSUME Act(d) PROVE InPhase'
  <2>1. state[d] = "DEPUTY" /\ ~alarm[d] /\ \A n \in Node \ {d} : ~Awake(n)
    BY DEF Alone, Resting
  <2>2. CASE Working(d) \/ Finishing(d)
    <3>1. /\ UNCHANGED <<state, restVars>>
          /\ \A n \in Node \ {d} : /\ mgr'[n] = mgr[n] /\ queue'[n] = queue[n]
                                   /\ inbox'[n] = inbox[n]
          /\ mgr[d].pc = "loop" => mgr'[d].pc = "loop"
          /\ Working(d)' \/ Finishing(d)' \/ Missed(d)'
      BY <1>3, <2>1, <2>2, FinishStep
    <3> QED
      BY <3>1, StaysAlone DEF InPhase
  <2>3. CASE Missed(d)
    <3>1. mgr[d].pc = "chunk" /\ ~mgr[d].wait /\ inbox[d] = <<>> /\ queue[d] = <<"TIMEOUT">>
      BY <2>3 DEF Missed
    <3>2. Manager(d)
      BY <1>3, <2>1, <3>1, NothingWaits DEF Act, WaitTimer, Alarm, dow_new_data
    <3>3. /\ TimedOut(d) /\ queue' = [queue EXCEPT ![d] = <<>>] /\ UNCHANGED <<state, restVars>>
      BY <3>1, <3>2, OneMessage
    <3>4. /\ \A n \in Node \ {d} : /\ mgr'[n] = mgr[n] /\ queue'[n] = queue[n]
                                   /\ inbox'[n] = inbox[n]
          /\ Working(d)' \/ Finishing(d)'
      BY <2>1, <2>3, <3>3, MissedStep
    <3> QED
      BY <3>1, <3>3, <3>4, StaysAlone DEF InPhase
  <2> QED
    BY <2>2, <2>3 DEF Alone
<1> QED
  BY <1>1, <1>2, <1>3 DEF Next, Act

-----------------------------------------------------------------------------
(***************************************************************************)
(* The deputy and the node it relieves.                                    *)
(***************************************************************************)

\* What keeps the rest of Pair when the exchange goes on.
LEMMA StaysPair ==
    ASSUME TypeOK, NEW d \in Node, NEW g \in Node \ {d}, Pair(d, g), UNCHANGED restVars,
           state'[g] # "INACTIVE", \A n \in Node \ {g} : state'[n] = state[n],
           \A n \in Node \ {d} : mgr'[n] = mgr[n],
           \A n \in Node \ {d, g} : queue'[n] = queue[n] /\ inbox'[n] = inbox[n],
           Giving(d, g)' \/ Relieved(d, g)'
    PROVE  Pair(d, g)'
<1>1. alarm' = alarm /\ rest' = rest /\ told' = told /\ since' = since
  BY DEF restVars
<1>2. \A n \in Node : Due(n)' = Due(n) /\ (Awake(n)' <=> Awake(n))
  BY <1>1 DEF Due, Awake, Pair
<1>3. ASSUME NEW n \in Node \ {d, g} PROVE Resting(n)'
  <2>1. Resting(n)
    BY DEF Pair
  <2> QED
    BY <1>1, <1>2, <2>1 DEF Resting
<1>4. Spread(d)'
  BY <1>1, <1>2 DEF Spread, Pair
<1> QED
  BY <1>1, <1>3, <1>4 DEF Pair

\* Nobody else does anything while a node is relieved.
LEMMA PairActs ==
    ASSUME TypeOK, Kept, Regular, NEW d \in Node, NEW g \in Node \ {d}, Pair(d, g), Next
    PROVE  Act(d) \/ Act(g)
<1>1. ~Tick
  <2>1. CASE Giving(d, g)
    <3>1. mgr[d].pc = "chunk"
      BY <2>1 DEF Giving, Silent, Asking, Missed
    <3> QED
      BY <3>1 DEF Tick, Regular
  <2>2. CASE Relieved(d, g)
    <3>1. queue[g] # <<>>
      BY <2>2, Single DEF Relieved
    <3> QED
      BY <3>1 DEF Tick, Idle
  <2> QED
    BY <2>1, <2>2 DEF Pair
<1>2. ASSUME NEW n \in Node \ {d, g} PROVE ~Act(n)
  <2>1. Resting(n) /\ ~Awake(n)
    BY DEF Pair, Resting
  <2>2. rest[n] # 0
    <3>1. Due(n) + 0 \in 1..(Longest - 1)
      BY DEF Pair, Spread
    <3>2. Due(n) # 0
      BY <3>1
    <3> QED
      BY <2>1, <3>2 DEF Due
  <2> QED
    BY <2>1, <2>2, RestingAct DEF Alarm
<1> QED
  BY <1>1, <1>2 DEF Next, Act

\* The relieved node goes to rest when it has handled what it sent itself.
LEMMA GiverSleeps ==
    ASSUME TypeOK, Regular, NEW d \in Node, NEW g \in Node \ {d}, Pair(d, g), Relieved(d, g),
           dow_sleep(g)
    PROVE  Alone(d)'
<1>1. /\ state' = [state EXCEPT ![g] = "INACTIVE"] /\ alarm' = [alarm EXCEPT ![g] = TRUE]
      /\ rest' = [rest EXCEPT ![g] = Longest] /\ told' = [told EXCEPT ![g] = Longest]
      /\ UNCHANGED <<mgr, since, contents, inbox, fresh, lost>>
      /\ queue' = [queue EXCEPT ![g] = Tail(queue[g])]
      /\ \A i \in DOMAIN inbox[g] : inbox[g][i].type # "own"
  BY DEF dow_sleep, Receive
<1>2. queue'[g] = <<>> /\ \A n \in Node \ {g} : queue'[n] = queue[n]
  BY <1>1, Single DEF Relieved, TypeOK
<1>3. inbox[g] = <<>>
  <2>1. inbox[g] \in Seq(Frames) /\ \A i \in DOMAIN inbox[g] : inbox[g][i].type = "own"
    BY DEF TypeOK, Relieved, Owned
  <2>2. ASSUME inbox[g] # <<>> PROVE 1 \in DOMAIN inbox[g]
    BY <2>1, <2>2
  <2> QED
    BY <1>1, <2>1, <2>2
<1>4. Spread(d)' /\ rest'[g] # 0
  <2>1. Awake(g) /\ Spread(d)
    BY DEF Awake, Pair
  <2> QED
    BY <1>1, <2>1, SleepSpread DEF Regular
<1>5. /\ state'[g] = "INACTIVE" /\ alarm'[g] = TRUE
      /\ \A n \in Node \ {g} : state'[n] = state[n] /\ alarm'[n] = alarm[n] /\ rest'[n] = rest[n]
  BY <1>1 DEF TypeOK
<1>6. ASSUME NEW n \in Node \ {d} PROVE Resting(n)' /\ rest'[n] # 0
  <2>1. CASE n = g
    BY <1>1, <1>2, <1>3, <1>4, <1>5, <2>1 DEF Resting, Awake, Pair
  <2>2. CASE n # g
    <3>1. Resting(n) /\ ~Awake(n) /\ Due(n) + 0 \in 1..(Longest - 1)
      BY <2>2 DEF Pair, Resting, Spread
    <3>2. Due(n) # 0
      BY <3>1
    <3>3. rest[n] # 0
      BY <3>1, <3>2 DEF Due
    <3> QED
      BY <1>1, <1>2, <1>5, <2>2, <3>1, <3>3 DEF Resting, Awake
  <2> QED
    BY <2>1, <2>2
<1>7. Working(d)' \/ Finishing(d)'
  BY <1>1, <1>2 DEF Relieved, Working, Finishing, Silent, Asking
<1>8. state'[d] = "DEPUTY" /\ ~alarm'[d]
  BY <1>5 DEF Pair
<1> QED
  BY <1>4, <1>6, <1>7, <1>8 DEF Alone

\* The exchange is over and g will go to rest.
LEMMA RelievedStep ==
    ASSUME TypeOK, Kept, Regular, NEW d \in Node, NEW g \in Node \ {d}, Pair(d, g), Relieved(d, g),
           Act(d) \/ Act(g)
    PROVE  Pair(d, g)' \/ Alone(d)'
<1>1. /\ queue[g] = <<"INACTIVE">> /\ state[g] = "HANDOVER" /\ Owned(inbox[g])
      /\ Stored(g) \subseteq Stored(d) /\ Awake(g)
      /\ ~alarm[d] /\ ~alarm[g] /\ state[d] = "DEPUTY" /\ mgr[g].pc = "loop" /\ ~mgr[g].wait
      /\ Working(d) \/ Finishing(d)
  BY DEF Relieved, Pair, Awake
<1>2. CASE Act(d)
  <2>1. /\ UNCHANGED <<state, restVars>>
        /\ \A n \in Node \ {d} : /\ mgr'[n] = mgr[n] /\ queue'[n] = queue[n]
                                 /\ inbox'[n] = inbox[n] /\ contents'[n] = contents[n]
        /\ Stored(d) \subseteq Stored(d)'
        /\ Working(d)' \/ Finishing(d)' \/ (Idle /\ Missed(d)')
    BY <1>1, <1>2, FinishStep
  <2>2. ~Idle
    BY <1>1, Single DEF Idle
  <2>3. Stored(g)' = Stored(g)
    BY <2>1 DEF Stored
  <2>4. Relieved(d, g)'
    BY <1>1, <2>1, <2>2, <2>3 DEF Relieved
  <2> QED
    BY <1>1, <2>1, <2>4, StaysPair
<1>3. CASE Act(g)
  <2>1. inbox[g] # <<>> => Head(inbox[g]).type = "own"
    BY <1>1 DEF Owned, TypeOK
  <2>2. Manager(g) \/ dow_new_data(g) \/ (Ccnl(g) /\ Head(inbox[g]).type = "own")
    BY <1>1, <1>3, <2>1, NothingWaits DEF Act, Alarm, WaitTimer, Lose
  <2>3. CASE Manager(g)
    BY <1>1, <2>3, OneMessage, GiverSleeps
  <2>4. CASE dow_new_data(g) \/ (Ccnl(g) /\ Head(inbox[g]).type = "own")
    <3>1. /\ UNCHANGED <<state, mgr, restVars, queue, lost>>
          /\ \A m \in Node \ {g} : inbox'[m] = inbox[m] /\ contents'[m] = contents[m]
          /\ \A m \in Node : Stored(m) \subseteq Stored(m)'
          /\ contents'[g] = contents[g]
          /\ Owned(inbox'[g])
      BY <1>1, <2>4, OwnStep
    <3>2. Stored(g)' = Stored(g)
      BY <3>1 DEF Stored
    <3>3. Working(d)' \/ Finishing(d)'
      BY <1>1, <3>1 DEF Working, Finishing, Silent, Asking
    <3>4. Relieved(d, g)'
      BY <1>1, <3>1, <3>2, <3>3 DEF Relieved
    <3> QED
      BY <1>1, <3>1, <3>4, StaysPair
  <2> QED
    BY <2>2, <2>3, <2>4
<1> QED
  BY <1>2, <1>3

\* d asks g: for the same number once more, or for the next one.
LEMMA AskGiver ==
    ASSUME TypeOK, NEW d \in Node, NEW g \in Node \ {d}, Pair(d, g),
           NEW c \in 0..(Cap + 1), NEW k \in Nat, Ask(d, c, k), k <= lost + 1,
           queue' = [queue EXCEPT ![d] = <<>>], UNCHANGED <<state, restVars, contents, lost>>,
           inbox[d] = <<>>, queue[g] = <<>>, Owned(inbox[g]),
           c <= Len(contents[g]), \A i \in 1..c : contents[g][i] \in Stored(d),
           state[g] = "DEPUTY" => c = 0
    PROVE  Pair(d, g)'
<1> DEFINE f == [type |-> "int", from |-> d, num |-> c]
<1>1. /\ mgr'[d] = [pc |-> "chunk", cn |-> c, cnt |-> k, wait |-> TRUE]
      /\ \A n \in Node \ {d} : mgr'[n] = mgr[n]
      /\ inbox'[d] = inbox[d]
      /\ \A n \in Node \ {d} : inbox'[n] = IF Awake(n) THEN Append(inbox[n], f) ELSE inbox[n]
  BY AskStep
<1>2. mgr'[d].pc = "chunk" /\ mgr'[d].cn = c /\ mgr'[d].cnt = k /\ mgr'[d].wait
  BY <1>1
<1>3. queue'[d] = <<>> /\ \A n \in Node \ {d} : queue'[n] = queue[n]
  BY DEF TypeOK
<1>4. Awake(g) /\ \A n \in Node \ {d, g} : ~Awake(n)
  BY DEF Pair, Awake, Resting
<1>5. Holds(inbox'[g], f)
  <2>1. f \in Frames /\ f.type = "int" /\ inbox'[g] = Append(inbox[g], f)
    BY <1>1, <1>4, FramesBuilt
  <2> HIDE DEF f
  <2>2. inbox[g] \in Seq(Frames)
    BY DEF TypeOK
  <2> QED
    BY <2>1, <2>2, OwnedQueue
<1>6. Asked(d, g)'
  BY <1>2, <1>5 DEF Asked
<1>7. Silent(d)'
  BY <1>1, <1>2, <1>3 DEF Silent, Asking
<1>8. Stored(d)' = Stored(d)
  BY DEF Stored
<1>9. Giving(d, g)'
  BY <1>2, <1>3, <1>6, <1>7, <1>8 DEF Giving
<1> QED
  BY <1>1, <1>3, <1>4, <1>9, StaysPair DEF Pair

\* The producer at g: the chunk asked for, or, past the last, the acknowledgement.
LEMMA GiverAnswers ==
    ASSUME TypeOK, Kept, NEW d \in Node, NEW g \in Node \ {d}, Pair(d, g), Giving(d, g),
           Silent(d), mgr[d].cnt <= lost + 1, ccnlriot_producer(g),
           Head(inbox[g]) = [type |-> "int", from |-> d, num |-> mgr[d].cn], Owned(Tail(inbox[g]))
    PROVE  Pair(d, g)'
<1> DEFINE c == mgr[d].cn
<1>1. /\ state' = [state EXCEPT ![g] = "HANDOVER"] /\ inbox[g] # <<>>
      /\ UNCHANGED <<mgr, restVars, contents, fresh, lost>>
      /\ Head(inbox[g]).num = c /\ Head(inbox[g]).from = d
  BY DEF ccnlriot_producer, Incoming
<1>2. /\ mgr[d].pc = "chunk" /\ mgr[d].wait /\ inbox[d] = <<>> /\ queue[d] = <<>>
      /\ queue[g] = <<>> /\ Awake(d)
      /\ c <= Len(contents[g]) /\ \A i \in 1..c : contents[g][i] \in Stored(d)
  BY DEF Silent, Asking, Giving, Pair, Awake
<1>3. /\ c \in Nat /\ contents[g] \in Seq(Datum) /\ Len(contents[g]) \in Nat
      /\ Len(contents[g]) <= Cap /\ Cap \in Nat
  <2>1. contents[g] \in Seq(Datum) /\ Distinct(contents[g]) /\ mgr[d] \in Managers
    BY DEF TypeOK, Kept
  <2> QED
    BY <2>1, StoreHasRoom, ConstantsAssumption DEF Managers
<1>4. state'[g] = "HANDOVER" /\ \A n \in Node \ {g} : state'[n] = state[n]
  BY <1>1 DEF TypeOK
<1>5. Stored(g)' = Stored(g) /\ Stored(d)' = Stored(d)
  BY <1>1 DEF Stored
<1>6. ASSUME NEW frame, Answer(g, frame)
      PROVE  /\ inbox'[d] = <<frame>> /\ inbox'[g] = Tail(inbox[g])
             /\ \A n \in Node \ {d, g} : inbox'[n] = inbox[n]
  <2>1. inbox' = [m \in Node |->
                     IF m = d /\ Awake(m)
                     THEN Append(IF m = g THEN Tail(inbox[m]) ELSE inbox[m], frame)
                     ELSE IF m = g THEN Tail(inbox[m]) ELSE inbox[m]]
    BY <1>1, <1>6 DEF Answer
  <2>2. inbox'[d] = Append(<<>>, frame)
    BY <1>2, <2>1
  <2>3. inbox'[g] = Tail(inbox[g]) /\ \A n \in Node \ {d, g} : inbox'[n] = inbox[n]
    BY <2>1
  <2> QED
    BY <2>2, <2>3, Single
<1>7. CASE c < Len(contents[g]) /\ c < Cap
  <2> DEFINE f == [type |-> "chunk", datum |-> contents[g][c + 1]]
  <2>1. Answer(g, f) /\ queue' = queue
    BY <1>1, <1>7 DEF ccnlriot_producer
  <2>2. /\ inbox'[d] = <<f>> /\ inbox'[g] = Tail(inbox[g])
        /\ \A n \in Node \ {d, g} : inbox'[n] = inbox[n]
    BY <1>6, <2>1
  <2>3. Asking(d, <<[type |-> "chunk", datum |-> contents[g][mgr[d].cn + 1]]>>, <<>>)'
    BY <1>1, <1>2, <2>1, <2>2 DEF Asking
  <2>4. Giving(d, g)'
    BY <1>1, <1>2, <1>4, <1>5, <1>7, <2>1, <2>2, <2>3 DEF Giving
  <2> QED
    BY <1>1, <1>4, <2>1, <2>2, <2>4, StaysPair
<1>8. CASE ~(c < Len(contents[g]) /\ c < Cap)
  <2> DEFINE f == [type |-> "ack"]
  <2>1. Answer(g, f) /\ queue' = [queue EXCEPT ![g] = Append(<<>>, "INACTIVE")]
    BY <1>1, <1>2, <1>8 DEF ccnlriot_producer
  <2>2. /\ inbox'[d] = <<f>> /\ inbox'[g] = Tail(inbox[g])
        /\ \A n \in Node \ {d, g} : inbox'[n] = inbox[n]
    BY <1>6, <2>1
  <2>3. queue'[g] = <<"INACTIVE">> /\ \A n \in Node \ {g} : queue'[n] = queue[n]
    BY <2>1, Single DEF TypeOK
  <2>4. c = Len(contents[g])
    BY <1>2, <1>3, <1>8
  <2>5. Stored(g) \subseteq Stored(d)
    <3>1. DOMAIN contents[g] = 1..c
      BY <1>3, <2>4
    <3> QED
      BY <1>2, <3>1 DEF Stored
  <2>6. Asking(d, <<[type |-> "ack"]>>, <<>>)'
    BY <1>1, <1>2, <2>2, <2>3 DEF Asking
  <2>7. Relieved(d, g)'
    BY <1>4, <1>5, <2>2, <2>3, <2>5, <2>6 DEF Relieved, Finishing
  <2> QED
    BY <1>1, <1>4, <2>2, <2>3, <2>7, StaysPair
<1> QED
  BY <1>7, <1>8

\* g is busy with data of its own, which come before or after the Interest.
LEMMA GiverOwn ==
    ASSUME TypeOK, TypeOK', Kept, NEW d \in Node, NEW g \in Node \ {d}, Pair(d, g), Giving(d, g),
           dow_new_data(g) \/ (Ccnl(g) /\ Head(inbox[g]).type = "own")
    PROVE  Pair(d, g)'
<1> DEFINE f == [type |-> "int", from |-> d, num |-> mgr[d].cn]
<1>1. Awake(g) /\ f \in Frames /\ f.type = "int"
  <2>1. mgr[d] \in Managers
    BY DEF TypeOK
  <2> QED
    BY <2>1, FramesBuilt DEF Awake, Pair, Managers
<1>2. /\ UNCHANGED <<state, mgr, restVars, queue, lost>>
      /\ \A m \in Node \ {g} : inbox'[m] = inbox[m] /\ contents'[m] = contents[m]
      /\ \A m \in Node : Stored(m) \subseteq Stored(m)'
      /\ contents'[g] = contents[g] \/ state[g] = "DEPUTY"
      /\ Owned(inbox[g]) => Owned(inbox'[g])
      /\ Holds(inbox[g], f) => Holds(inbox'[g], f)
  <2> HIDE DEF f
  <2> QED
    BY <1>1, OwnStep
<1>3. Asked(d, g) => Asked(d, g)'
  BY <1>2 DEF Asked
<1>4. /\ Silent(d) => Silent(d)'
      /\ Missed(d) => Missed(d)'
      /\ \A in, q : Asking(d, in, q) => Asking(d, in, q)'
  BY <1>2 DEF Silent, Asking, Missed
<1>5. /\ mgr'[d].cn <= Len(contents'[g])
      /\ \A i \in 1..mgr'[d].cn : contents'[g][i] \in Stored(d)'
  <2>1. CASE contents'[g] = contents[g]
    BY <1>2, <2>1 DEF Giving
  <2>2. CASE state[g] = "DEPUTY"
    <3>1. mgr'[d].cn = 0
      BY <1>2, <2>2 DEF Giving
    <3>2. Len(contents'[g]) >= 0
      <4>1. contents'[g] \in Seq(Datum)
        BY DEF TypeOK
      <4> QED
        BY <4>1
    <3> QED
      BY <3>1, <3>2
  <2> QED
    BY <1>2, <2>1, <2>2
<1>6. Giving(d, g)'
  <2>1. queue'[g] = <<>> /\ (state'[g] = "DEPUTY" => mgr'[d].cn = 0)
    BY <1>2 DEF Giving
  <2>2. CASE Silent(d) /\ Asked(d, g) /\ mgr[d].cnt <= lost + 1
    BY <1>2, <1>3, <1>4, <1>5, <2>1, <2>2 DEF Giving
  <2>3. CASE (Silent(d) \/ Missed(d)) /\ Owned(inbox[g]) /\ mgr[d].cnt <= lost
    BY <1>2, <1>4, <1>5, <2>1, <2>3 DEF Giving
  <2>4. CASE /\ state[g] = "HANDOVER" /\ Owned(inbox[g]) /\ mgr[d].cnt <= lost + 1
             /\ mgr[d].cn < Len(contents[g])
             /\ \/ Asking(d, <<[type |-> "chunk", datum |-> contents[g][mgr[d].cn + 1]]>>, <<>>)
                \/ Asking(d, <<>>, <<"RECEIVED">>) /\ contents[g][mgr[d].cn + 1] \in Stored(d)
    <3>1. contents'[g] = contents[g]
      BY <1>2, <2>4
    <3> QED
      BY <1>2, <1>4, <1>5, <2>1, <2>4, <3>1 DEF Giving
  <2> QED
    BY <2>2, <2>3, <2>4 DEF Giving
<1> QED
  BY <1>1, <1>2, <1>6, StaysPair DEF Pair, Awake

\* The types of what the exchange uses.
LEMMA Ranges ==
    ASSUME TypeOK, NEW d \in Node
    PROVE  /\ mgr[d] \in Managers /\ mgr[d].cn \in 0..(Cap + 1) /\ mgr[d].cn \in Nat
           /\ mgr[d].cnt \in Nat
           /\ lost \in 0..MaxLoss /\ lost \in Nat /\ {Cap, MaxLoss, Retries} \subseteq Nat
           /\ mgr \in [Node -> Managers] /\ queue \in [Node -> Seq(Messages)]
           /\ inbox \in [Node -> Seq(Frames)] /\ inbox[d] \in Seq(Frames)
<1>1. mgr[d] \in Managers /\ {Cap, MaxLoss, Retries} \subseteq Nat /\ lost \in 0..MaxLoss
  BY ConstantsAssumption DEF TypeOK
<1>2. mgr[d].cn \in 0..(Cap + 1) /\ mgr[d].cnt \in 0..Retries
  BY <1>1 DEF Managers
<1> QED
  BY <1>1, <1>2 DEF TypeOK

\* What holds of both nodes wherever the exchange is.
LEMMA PairFacts ==
    ASSUME NEW d \in Node, NEW g \in Node \ {d}, Pair(d, g)
    PROVE  /\ ~alarm[d] /\ ~alarm[g] /\ mgr[g].pc = "loop" /\ ~mgr[g].wait
           /\ state[d] = "DEPUTY" /\ Awake(d) /\ Awake(g)
BY DEF Pair, Awake

\* What holds of the chunks wherever the exchange is.
LEMMA GivingFacts ==
    ASSUME NEW d \in Node, NEW g \in Node \ {d}, Giving(d, g)
    PROVE  /\ queue[g] = <<>> /\ mgr[d].pc = "chunk" /\ mgr[d].cn <= Len(contents[g])
           /\ \A i \in 1..mgr[d].cn : contents[g][i] \in Stored(d)
           /\ state[g] = "DEPUTY" => mgr[d].cn = 0
BY DEF Giving, Silent, Asking, Missed

\* The giver's frame or the deputy's is lost.
LEMMA FrameLost ==
    ASSUME TypeOK, NEW n \in Node, Lose(n)
    PROVE  /\ lost' = lost + 1 /\ inbox'[n] = Tail(inbox[n]) /\ Head(inbox[n]).type # "own"
           /\ \A m \in Node \ {n} : inbox'[m] = inbox[m]
           /\ UNCHANGED <<state, mgr, restVars, queue, contents>>
BY DEF Lose, TypeOK, nodeVars

\* d has asked, and g has not handled it.
LEMMA AskedStep ==
    ASSUME TypeOK, TypeOK', Kept, Regular, NEW d \in Node, NEW g \in Node \ {d}, Pair(d, g),
           Giving(d, g), Silent(d), Asked(d, g), mgr[d].cnt <= lost + 1, Act(d) \/ Act(g)
    PROVE  Pair(d, g)'
<1> DEFINE f == [type |-> "int", from |-> d, num |-> mgr[d].cn]
           h == [type |-> "own", datum |-> CHOOSE x \in Datum : TRUE]
<1>1. /\ mgr[d].pc = "chunk" /\ mgr[d].wait /\ inbox[d] = <<>> /\ queue[d] = <<>> /\ queue[g] = <<>>
      /\ ~alarm[d] /\ ~alarm[g] /\ mgr[g].pc = "loop" /\ ~mgr[g].wait /\ Awake(g)
      /\ mgr[d].cn \in 0..(Cap + 1) /\ inbox[g] \in Seq(Frames) /\ lost \in Nat
      /\ mgr[d].cnt \in Nat
  BY Ranges, PairFacts, GivingFacts DEF Silent, Asking
<1>2. f \in Frames /\ f.type = "int" /\ Holds(inbox[g], f)
  BY <1>1, FramesBuilt DEF Asked
<1>3. /\ inbox[g] # <<>>
      /\ \/ Head(inbox[g]) = f /\ Owned(Tail(inbox[g]))
         \/ Head(inbox[g]).type = "own"
  <2>1. PICK i \in DOMAIN inbox[g] : /\ inbox[g][i] = f
                                     /\ \A j \in DOMAIN inbox[g] \ {i} : inbox[g][j].type = "own"
    BY <1>2 DEF Holds
  <2> HIDE DEF f
  <2>2. /\ Len(inbox[g]) \in Nat /\ DOMAIN inbox[g] = 1..Len(inbox[g]) /\ i \in 1..Len(inbox[g])
        /\ inbox[g] # <<>> /\ Head(inbox[g]) = inbox[g][1] /\ 1 \in DOMAIN inbox[g]
        /\ DOMAIN Tail(inbox[g]) = 1..(Len(inbox[g]) - 1)
        /\ \A j \in 1..(Len(inbox[g]) - 1) : /\ Tail(inbox[g])[j] = inbox[g][j + 1]
                                             /\ j + 1 \in DOMAIN inbox[g]
    BY <1>1, <2>1
  <2>3. CASE i = 1
    <3>1. ASSUME NEW j \in 1..(Len(inbox[g]) - 1) PROVE Tail(inbox[g])[j].type = "own"
      <4>1. j + 1 \in DOMAIN inbox[g] \ {i} /\ Tail(inbox[g])[j] = inbox[g][j + 1]
        BY <2>2, <2>3
      <4> QED
        BY <2>1, <4>1
    <3> QED
      BY <2>1, <2>2, <2>3, <3>1 DEF Owned
  <2>4. CASE i # 1
    BY <2>1, <2>2, <2>4
  <2> QED
    BY <2>3, <2>4
<1>4. ~Act(d)
  <2>1. ~WaitTimer(d)
    BY <1>3 DEF WaitTimer, Regular, Idle
  <2> QED
    BY <1>1, <2>1, NothingWaits DEF Act, Alarm, dow_new_data
<1>5. dow_new_data(g) \/ Ccnl(g) \/ Lose(g)
  BY <1>1, <1>4, NothingWaits DEF Act, Alarm, WaitTimer
<1>6. CASE dow_new_data(g) \/ (Ccnl(g) /\ Head(inbox[g]).type = "own")
  BY <1>6, GiverOwn
<1>7. CASE Ccnl(g) /\ Head(inbox[g]) = f /\ Owned(Tail(inbox[g]))
  <2>1. ccnlriot_producer(g)
    BY <1>1, <1>2, <1>7, FirstFrame
  <2> QED
    BY <1>7, <2>1, GiverAnswers
<1>8. CASE Lose(g)
  <2>1. /\ lost' = lost + 1 /\ inbox'[g] = Tail(inbox[g]) /\ Head(inbox[g]).type # "own"
        /\ \A m \in Node \ {g} : inbox'[m] = inbox[m]
        /\ UNCHANGED <<state, mgr, restVars, queue, contents>>
    BY <1>8, FrameLost
  <2>2. Owned(inbox'[g])
    BY <1>3, <2>1
  <2>3. Silent(d)' /\ mgr'[d].cnt <= lost'
    BY <1>1, <2>1 DEF Silent, Asking
  <2>4. Giving(d, g)'
    BY <2>1, <2>2, <2>3 DEF Giving, Stored
  <2> QED
    BY <1>1, <2>1, <2>4, StaysPair DEF Awake
<1> QED
  BY <1>3, <1>5, <1>6, <1>7, <1>8

\* The Interest or the answer is lost, so there is another attempt.
LEMMA UnansweredStep ==
    ASSUME TypeOK, TypeOK', Kept, Regular, NEW d \in Node, NEW g \in Node \ {d}, Pair(d, g),
           Giving(d, g), Silent(d) \/ Missed(d), Owned(inbox[g]), mgr[d].cnt <= lost,
           Act(d) \/ Act(g)
    PROVE  Pair(d, g)'
<1>1. /\ mgr[d].pc = "chunk" /\ inbox[d] = <<>> /\ queue[g] = <<>>
      /\ ~alarm[d] /\ ~alarm[g] /\ mgr[g].pc = "loop" /\ ~mgr[g].wait /\ Awake(g)
      /\ mgr[d].cn \in 0..(Cap + 1) /\ inbox[g] \in Seq(Frames) /\ lost \in 0..MaxLoss
      /\ mgr[d].cnt \in Nat /\ MaxLoss \in Nat /\ Retries \in Nat
      /\ mgr \in [Node -> Managers] /\ queue \in [Node -> Seq(Messages)]
  BY Ranges, PairFacts, GivingFacts DEF Silent, Asking, Missed
<1>2. CASE Act(g)
  <2>1. inbox[g] # <<>> => Head(inbox[g]).type = "own"
    BY <1>1 DEF Owned
  <2>2. dow_new_data(g) \/ (Ccnl(g) /\ Head(inbox[g]).type = "own")
    BY <1>1, <1>2, <2>1, NothingWaits DEF Act, Alarm, WaitTimer, Lose
  <2> QED
    BY <2>2, GiverOwn
<1>3. CASE Act(d) /\ Silent(d)
  <2>1. queue[d] = <<>> /\ WaitTimer(d)
    BY <1>1, <1>3, NothingWaits DEF Silent, Asking, Act, Alarm, dow_new_data
  <2>2. /\ mgr' = [mgr EXCEPT ![d].wait = FALSE]
        /\ queue' = [queue EXCEPT ![d] = Append(<<>>, "TIMEOUT")]
        /\ UNCHANGED <<state, restVars, contents, inbox, lost>>
    BY <2>1 DEF WaitTimer
  <2>3. /\ mgr'[d].pc = "chunk" /\ ~mgr'[d].wait /\ queue'[d] = <<"TIMEOUT">>
        /\ mgr'[d].cn = mgr[d].cn /\ mgr'[d].cnt = mgr[d].cnt
        /\ \A n \in Node \ {d} : mgr'[n] = mgr[n] /\ queue'[n] = queue[n]
    BY <1>1, <2>2, Single DEF Managers
  <2>4. Missed(d)'
    BY <1>1, <2>2, <2>3 DEF Missed
  <2>5. Giving(d, g)'
    BY <2>2, <2>3, <2>4 DEF Giving, Stored
  <2> QED
    BY <1>1, <2>2, <2>3, <2>5, StaysPair DEF Awake
<1>4. CASE Act(d) /\ Missed(d)
  <2>1. queue[d] = <<"TIMEOUT">> /\ ~mgr[d].wait
    BY <1>4 DEF Missed
  <2>2. Manager(d)
    BY <1>1, <1>4, <2>1, NothingWaits DEF Act, Alarm, WaitTimer, dow_new_data
  <2>3. /\ TimedOut(d) /\ queue' = [queue EXCEPT ![d] = <<>>]
        /\ UNCHANGED <<state, restVars, contents, lost>>
    BY <1>1, <2>1, <2>2, OneMessage
  <2>4. mgr[d].cnt < Retries
    BY <1>1 DEF Regular
  <2>5. Ask(d, mgr[d].cn, mgr[d].cnt + 1) /\ mgr[d].cnt + 1 \in Nat /\ mgr[d].cnt + 1 <= lost + 1
    BY <1>1, <2>3, <2>4 DEF TimedOut
  <2>6. /\ mgr[d].cn <= Len(contents[g]) /\ (state[g] = "DEPUTY" => mgr[d].cn = 0)
        /\ \A i \in 1..mgr[d].cn : contents[g][i] \in Stored(d)
    BY DEF Giving
  <2> QED
    BY <1>1, <2>3, <2>5, <2>6, AskGiver
<1> QED
  BY <1>2, <1>3, <1>4

\* The chunk is on its way to d, or d's manager has still to hear of it.
LEMMA ChunkOnItsWay ==
    ASSUME TypeOK, TypeOK', Kept, Regular, NEW d \in Node, NEW g \in Node \ {d}, Pair(d, g),
           Giving(d, g), state[g] = "HANDOVER", Owned(inbox[g]), mgr[d].cnt <= lost + 1,
           mgr[d].cn < Len(contents[g]),
           \/ Asking(d, <<[type |-> "chunk", datum |-> contents[g][mgr[d].cn + 1]]>>, <<>>)
           \/ Asking(d, <<>>, <<"RECEIVED">>) /\ contents[g][mgr[d].cn + 1] \in Stored(d),
           Act(d) \/ Act(g)
    PROVE  Pair(d, g)'
<1> DEFINE x == contents[g][mgr[d].cn + 1]
<1>1. /\ mgr[d].pc = "chunk" /\ mgr[d].wait /\ queue[g] = <<>> /\ state[d] = "DEPUTY"
      /\ ~alarm[d] /\ ~alarm[g] /\ mgr[g].pc = "loop" /\ ~mgr[g].wait /\ Awake(g) /\ Awake(d)
      /\ mgr[d].cn \in Nat /\ inbox[g] \in Seq(Frames) /\ lost \in Nat
      /\ mgr[d].cnt \in Nat /\ mgr[d].cnt <= lost + 1
      /\ queue \in [Node -> Seq(Messages)] /\ inbox \in [Node -> Seq(Frames)]
      /\ mgr[d].cn <= Len(contents[g]) /\ (state[g] = "DEPUTY" => mgr[d].cn = 0)
      /\ \A i \in 1..mgr[d].cn : contents[g][i] \in Stored(d)
  BY Ranges, PairFacts, GivingFacts DEF Asking
<1>2. CASE Act(g)
  <2>1. inbox[g] # <<>> => Head(inbox[g]).type = "own"
    BY <1>1 DEF Owned
  <2>2. dow_new_data(g) \/ (Ccnl(g) /\ Head(inbox[g]).type = "own")
    BY <1>1, <1>2, <2>1, NothingWaits DEF Act, Alarm, WaitTimer, Lose
  <2> QED
    BY <2>2, GiverOwn
<1>3. CASE Act(d) /\ Asking(d, <<[type |-> "chunk", datum |-> x]>>, <<>>)
  <2> DEFINE f == [type |-> "chunk", datum |-> x]
  <2>1. /\ inbox[d] = <<f>> /\ inbox[d] # <<>> /\ Head(inbox[d]) = f /\ Tail(inbox[d]) = <<>>
        /\ queue[d] = <<>> /\ f.type = "chunk" /\ f.datum = x
    BY <1>3, Single DEF Asking
  <2>2. Ccnl(d) \/ Lose(d)
    BY <1>1, <1>3, <2>1, NothingWaits DEF Act, Alarm, WaitTimer, dow_new_data
  <2>3. CASE Lose(d)
    <3>1. /\ lost' = lost + 1 /\ inbox'[d] = <<>>
          /\ \A m \in Node \ {d} : inbox'[m] = inbox[m]
          /\ UNCHANGED <<state, mgr, restVars, queue, contents>>
      BY <2>1, <2>3, FrameLost
    <3>2. Silent(d)' /\ mgr'[d].cnt <= lost'
      BY <1>1, <2>1, <3>1 DEF Silent, Asking
    <3>3. Giving(d, g)'
      BY <1>1, <3>1, <3>2 DEF Giving, Stored
    <3> QED
      BY <1>1, <3>1, <3>3, StaysPair DEF Awake
  <2>4. CASE Ccnl(d)
    <3>1. StoreChunk(d)
      BY <1>1, <2>1, <2>4, FirstFrame
    <3>2. /\ queue' = [queue EXCEPT ![d] = Append(<<>>, "RECEIVED")]
          /\ inbox' = [inbox EXCEPT ![d] = <<>>]
          /\ UNCHANGED <<state, mgr, restVars, lost>>
      BY <2>1, <3>1 DEF StoreChunk
    <3>3. /\ queue'[d] = <<"RECEIVED">> /\ inbox'[d] = <<>>
          /\ \A n \in Node \ {d} : queue'[n] = queue[n] /\ inbox'[n] = inbox[n]
      BY <1>1, <3>2, Single
    <3>4. Stored(d)' = Stored(d) \cup {x} /\ contents'[g] = contents[g]
      BY <2>1, <3>1, StoreGrows
    <3>5. Asking(d, <<>>, <<"RECEIVED">>)'
      BY <1>1, <3>2, <3>3 DEF Asking
    <3>6. Giving(d, g)'
      BY <1>1, <3>2, <3>3, <3>4, <3>5 DEF Giving
    <3> QED
      BY <1>1, <3>2, <3>3, <3>6, StaysPair DEF Awake
  <2> QED
    BY <2>2, <2>3, <2>4
<1>4. CASE Act(d) /\ Asking(d, <<>>, <<"RECEIVED">>) /\ x \in Stored(d)
  <2>1. inbox[d] = <<>> /\ queue[d] = <<"RECEIVED">> /\ queue[d] # <<>>
    BY <1>4, Single DEF Asking
  <2>2. Manager(d)
    BY <1>1, <1>4, <2>1, NothingWaits DEF Act, Alarm, WaitTimer, dow_new_data
  <2>3. /\ NextChunk(d, FALSE) /\ queue' = [queue EXCEPT ![d] = <<>>]
        /\ UNCHANGED <<state, restVars, contents, lost>>
    BY <1>1, <2>1, <2>2, OneMessage
  <2>4. Len(contents[g]) \in Nat /\ Len(contents[g]) <= Cap /\ Cap \in Nat
    <3>1. contents[g] \in Seq(Datum) /\ Distinct(contents[g])
      BY DEF TypeOK, Kept
    <3> QED
      BY <3>1, StoreHasRoom, ConstantsAssumption
  <2>5. /\ Ask(d, mgr[d].cn + 1, 1) /\ mgr[d].cn + 1 \in 0..(Cap + 1)
        /\ mgr[d].cn + 1 <= Len(contents[g]) /\ 1 <= lost + 1 /\ 1 \in Nat
    <3>1. mgr[d].cn \in Nat /\ mgr[d].cn < Len(contents[g]) /\ lost \in Nat
      BY <1>1
    <3>2. mgr[d].cn <= Cap /\ mgr[d].cn + 1 \in 0..(Cap + 1)
      BY <2>4, <3>1
    <3>3. Ask(d, mgr[d].cn + 1, 1)
      BY <2>3, <3>2 DEF NextChunk
    <3> QED
      BY <2>4, <3>1, <3>2, <3>3
  <2>6. \A i \in 1..(mgr[d].cn + 1) : contents[g][i] \in Stored(d)
    <3> SUFFICES ASSUME NEW i \in 1..(mgr[d].cn + 1) PROVE contents[g][i] \in Stored(d)
      OBVIOUS
    <3>1. i \in 1..mgr[d].cn \/ i = mgr[d].cn + 1
      BY <1>1
    <3> QED
      BY <1>1, <1>4, <3>1
  <2> QED
    BY <1>1, <2>1, <2>3, <2>5, <2>6, AskGiver
<1> QED
  BY <1>2, <1>3, <1>4

\* From a deputy and the node it relieves a step leads to the same, or to one deputy.
LEMMA PairStep ==
    ASSUME TypeOK, TypeOK', Kept, Regular, NEW d \in Node, NEW g \in Node \ {d}, Pair(d, g), Next
    PROVE  InPhase'
<1>1. Act(d) \/ Act(g)
  BY PairActs
<1>2. CASE Relieved(d, g)
  BY <1>1, <1>2, RelievedStep DEF InPhase
<1>3. ASSUME Giving(d, g) PROVE Pair(d, g)'
  <2>1. CASE Silent(d) /\ Asked(d, g) /\ mgr[d].cnt <= lost + 1
    BY <1>1, <1>3, <2>1, AskedStep
  <2>2. CASE (Silent(d) \/ Missed(d)) /\ Owned(inbox[g]) /\ mgr[d].cnt <= lost
    BY <1>1, <1>3, <2>2, UnansweredStep
  <2>3. CASE /\ state[g] = "HANDOVER" /\ Owned(inbox[g]) /\ mgr[d].cnt <= lost + 1
             /\ mgr[d].cn < Len(contents[g])
             /\ \/ Asking(d, <<[type |-> "chunk", datum |-> contents[g][mgr[d].cn + 1]]>>, <<>>)
                \/ Asking(d, <<>>, <<"RECEIVED">>) /\ contents[g][mgr[d].cn + 1] \in Stored(d)
    BY <1>1, <1>3, <2>3, ChunkOnItsWay
  <2> QED
    BY <1>3, <2>1, <2>2, <2>3 DEF Giving
<1> QED
  BY <1>2, <1>3 DEF Pair, InPhase

-----------------------------------------------------------------------------
(***************************************************************************)
(* The steps of Deputy.                                                    *)
(***************************************************************************)

\* Who goes to rest has been relieved.
LEMMA SleeperIsRelieved ==
    ASSUME TypeOK, InPhase, NEW n \in Node, dow_sleep(n)
    PROVE  \E d \in Node \ {n} : Awake(n) /\ Awake(d) /\ Stored(n) \subseteq Stored(d)
<1>1. queue[n] # <<>> /\ Head(queue[n]) = "INACTIVE" /\ mgr[n].pc = "loop"
  BY DEF dow_sleep, Receive
<1>2. ASSUME NEW k \in Node, Resting(k) PROVE k # n
  BY <1>1, <1>2, Single DEF Resting
<1>3. PICK d \in Node : Alone(d) \/ \E g \in Node \ {d} : Pair(d, g)
  BY DEF InPhase
<1>4. CASE Alone(d)
  <2>1. n = d
    BY <1>2, <1>4 DEF Alone
  <2> QED
    BY <1>1, <1>4, <2>1 DEF Alone, Working, Finishing, Silent, Asking, Missed
<1>5. ASSUME NEW g \in Node \ {d}, Pair(d, g)
      PROVE  n = g /\ Awake(n) /\ Awake(d) /\ Stored(n) \subseteq Stored(d)
  <2>1. n \in {d, g}
    BY <1>2, <1>5 DEF Pair
  <2>2. n # d
    BY <1>1, <1>5 DEF Pair, Giving, Relieved, Working, Finishing, Silent, Asking, Missed
  <2>3. Relieved(d, g)
    BY <1>1, <1>5, <2>1, <2>2 DEF Pair, Giving
  <2> QED
    BY <1>5, <2>1, <2>2, <2>3 DEF Pair, Relieved, Awake
<1> QED
  BY <1>3, <1>4, <1>5

\* Every step is one of these four.
LEMMA WhatSteps ==
    ASSUME TypeOK, Next
    PROVE  \/ \E n \in Node : dow_takeover(n)
           \/ \E n \in Node : dow_sleep(n)
           \/ \E n \in Node : StoreChunk(n)
           \/ awake' = awake /\ contents' = contents
<1>1. CASE Tick
  BY <1>1 DEF Tick, awake, Awake
<1>2. ASSUME NEW n \in Node, Act(n), ~dow_takeover(n), ~dow_sleep(n), ~StoreChunk(n)
      PROVE  awake' = awake /\ contents' = contents
  <2>1. CASE Manager(n)
    BY <1>2, <2>1 DEF Manager, Disregard, _populate_data, GotAnswer, GotTimeout, GotOther,
                      AwaitInterest, awake, Awake
  <2>2. CASE ccnlriot_producer(n)
    <3>1. Awake(n) /\ state' = [state EXCEPT ![n] = "HANDOVER"] /\ contents' = contents
      BY <2>2 DEF ccnlriot_producer
    <3>2. \A m \in Node : Awake(m)' <=> Awake(m)
      BY <3>1 DEF Awake, TypeOK
    <3> QED
      BY <3>1, <3>2 DEF awake
  <2>3. CASE StoreAck(n) \/ Drop(n)
    BY <2>3 DEF StoreAck, Drop, nodeVars, awake, Awake
  <2>4. CASE dow_new_data(n) \/ Alarm(n) \/ WaitTimer(n) \/ Lose(n)
    BY <2>4 DEF dow_new_data, Alarm, WaitTimer, Lose, nodeVars, awake, Awake
  <2> QED
    BY <1>2, <2>1, <2>2, <2>3, <2>4 DEF Act, Ccnl
<1> QED
  BY <1>1, <1>2 DEF Next, Act

\* What the abstract cache contains, before a step and after it.
LEMMA InCache ==
    /\ \A x : x \in cache <=> \E n \in Node : Awake(n) /\ x \in Stored(n)
    /\ \A x : x \in cache' <=> \E n \in Node : Awake(n)' /\ x \in Stored(n)'
BY DEF cache, awake

\* What is stored by the awake nodes, and by the others, after each of these steps.
LEMMA StepRefines ==
    ASSUME RInv, Next
    PROVE  Kept' /\ (Abstract!Next \/ UNCHANGED <<awake, cache>>)
<1>1. TypeOK /\ InPhase /\ Kept
  BY DEF RInv
<1>2. ASSUME NEW n \in Node, dow_takeover(n)
      PROVE  Kept' /\ (Abstract!Next \/ UNCHANGED <<awake, cache>>)
  <2>1. contents' = contents /\ state' = [state EXCEPT ![n] = "DEPUTY"]
    BY <1>2 DEF dow_takeover
  <2>2. Awake(n)' /\ \A m \in Node \ {n} : Awake(m)' <=> Awake(m)
    BY <1>1, <2>1 DEF Awake, TypeOK
  <2>3. \A m \in Node : Stored(m)' = Stored(m) /\ Stored(m) \subseteq cache
    BY <1>1, <2>1 DEF Stored, Kept
  <2>4. cache' = cache
    BY <2>2, <2>3, InCache
  <2>5. awake' = awake \cup {n}
    BY <2>2 DEF awake
  <2>6. Kept'
    BY <1>1, <2>1, <2>3, <2>4 DEF Kept
  <2>7. CASE n \in awake
    BY <2>4, <2>5, <2>6, <2>7
  <2>8. CASE n \notin awake
    <3>1. Abstract!WakeUp(n)
      BY <2>4, <2>5, <2>8 DEF Abstract!WakeUp
    <3> QED
      BY <2>6, <3>1 DEF Abstract!Next
  <2> QED
    BY <2>7, <2>8
<1>3. ASSUME NEW n \in Node, dow_sleep(n)
      PROVE  Kept' /\ (Abstract!Next \/ UNCHANGED <<awake, cache>>)
  <2>1. contents' = contents /\ state' = [state EXCEPT ![n] = "INACTIVE"]
    BY <1>3 DEF dow_sleep
  <2>2. ~Awake(n)' /\ \A m \in Node \ {n} : Awake(m)' <=> Awake(m)
    BY <1>1, <2>1 DEF Awake, TypeOK
  <2>3. \A m \in Node : Stored(m)' = Stored(m) /\ Stored(m) \subseteq cache
    BY <1>1, <2>1 DEF Stored, Kept
  <2>4. PICK d \in Node \ {n} : Awake(n) /\ Awake(d) /\ Stored(n) \subseteq Stored(d)
    BY <1>1, <1>3, SleeperIsRelieved
  <2>5. cache' = cache
    <3>1. ASSUME NEW x, x \in cache PROVE x \in cache'
      <4>1. PICK m \in Node : Awake(m) /\ x \in Stored(m)
        BY <3>1, InCache
      <4>2. CASE m = n
        BY <2>2, <2>3, <2>4, <4>1, <4>2, InCache
      <4>3. CASE m # n
        BY <2>2, <2>3, <4>1, <4>3, InCache
      <4> QED
        BY <4>2, <4>3
    <3>2. ASSUME NEW x, x \in cache' PROVE x \in cache
      BY <2>2, <2>3, <3>2, InCache
    <3> QED
      BY <3>1, <3>2
  <2>6. awake' = awake \ {n} /\ n \in awake /\ d \in awake \ {n}
    BY <2>2, <2>4 DEF awake
  <2>7. Kept'
    BY <1>1, <2>1, <2>3, <2>5 DEF Kept
  <2>8. Abstract!Rest(n)
    BY <2>5, <2>6 DEF Abstract!Rest
  <2> QED
    BY <2>7, <2>8 DEF Abstract!Next
<1>4. ASSUME NEW n \in Node, StoreChunk(n)
      PROVE  Kept' /\ (Abstract!Next \/ UNCHANGED <<awake, cache>>)
  <2> DEFINE x == Head(inbox[n]).datum
  <2>1. /\ Stored(n)' = Stored(n) \cup {x}
        /\ \A m \in Node \ {n} : contents'[m] = contents[m] /\ Stored(m)' = Stored(m)
        /\ Distinct(contents'[n])
    BY <1>1, <1>4, StoreGrows
  <2>2. state' = state /\ state[n] = "DEPUTY" /\ x \in Datum
    BY <1>1, <1>4, IncomingFrame, FramesRead DEF StoreChunk
  <2> HIDE DEF x
  <2>3. Awake(n) /\ (\A m \in Node : Awake(m)' <=> Awake(m)) /\ awake' = awake
    BY <2>2 DEF Awake, awake
  <2>4. cache' = cache \cup {x}
    BY <2>1, <2>3, InCache
  <2>5. Kept'
    <3>1. \A m \in Node : Distinct(contents'[m])
      BY <1>1, <2>1 DEF Kept
    <3>2. \A m \in Node : Stored(m)' \subseteq cache'
      BY <1>1, <2>1, <2>4 DEF Kept
    <3> QED
      BY <3>1, <3>2 DEF Kept
  <2>6. CASE x \in cache
    BY <2>3, <2>4, <2>5, <2>6
  <2>7. CASE x \notin cache
    <3>1. Abstract!Collect(x)
      BY <2>3, <2>4, <2>7 DEF Abstract!Collect
    <3> QED
      BY <2>2, <2>5, <3>1 DEF Abstract!Next
  <2> QED
    BY <2>6, <2>7
<1>5. CASE awake' = awake /\ contents' = contents
  <2>1. \A m \in Node : Stored(m)' = Stored(m) /\ contents'[m] = contents[m]
    BY <1>5 DEF Stored
  <2>2. \A m \in Node : Awake(m)' <=> Awake(m)
    BY <1>5 DEF awake
  <2>3. cache' = cache
    BY <2>1, <2>2, InCache
  <2>4. Kept'
    BY <1>1, <2>1, <2>3 DEF Kept
  <2> QED
    BY <1>5, <2>3, <2>4
<1> QED
  BY <1>1, <1>2, <1>3, <1>4, <1>5, WhatSteps

\* Every step keeps the invariant and maps to a step of Deputy or a stutter.
LEMMA NextRInv ==
    ASSUME Regular, RInv, TypeOK', [Next]_vars
    PROVE  RInv' /\ [Abstract!Next]_(Abstract!vars)
<1>1. CASE Next
  <2>1. InPhase'
    BY <1>1, AloneStep, PairStep DEF RInv, InPhase
  <2> QED
    BY <1>1, <2>1, StepRefines DEF RInv, Abstract!vars
<1>2. CASE UNCHANGED vars
  <2>1. UNCHANGED <<state, mgr, alarm, rest, told, since, queue, contents, inbox, lost>>
    BY <1>2 DEF vars, nodeVars, restVars
  <2>2. /\ \A n \in Node : (Awake(n)' <=> Awake(n)) /\ Due(n)' = Due(n) /\ Stored(n)' = Stored(n)
                           /\ (Resting(n) => Resting(n)')
        /\ awake' = awake
    BY <2>1 DEF Awake, Due, Stored, Resting, awake
  <2>3. cache' = cache
    BY <2>2, InCache
  <2>4. Kept'
    BY <2>1, <2>2, <2>3 DEF RInv, Kept
  <2>5. ASSUME NEW d \in Node, Alone(d) PROVE Alone(d)'
    <3>1. Working(d)' \/ Finishing(d)' \/ Missed(d)'
      BY <2>1, <2>5 DEF Alone, Working, Finishing, Silent, Asking, Missed
    <3> QED
      BY <2>1, <2>5, <3>1, StaysAlone DEF RInv, restVars
  <2>6. ASSUME NEW d \in Node, NEW g \in Node \ {d}, Pair(d, g) PROVE Pair(d, g)'
    <3>1. Giving(d, g)' \/ Relieved(d, g)'
      BY <2>1, <2>2, <2>6 DEF Pair, Giving, Relieved, Working, Finishing, Silent, Asking, Missed, Asked
    <3>2. state'[g] # "INACTIVE"
      BY <2>1, <2>6 DEF Pair
    <3> QED
      BY <2>1, <2>6, <3>1, <3>2, StaysPair DEF RInv, restVars
  <2>7. InPhase'
    BY <2>5, <2>6 DEF RInv, InPhase
  <2> QED
    BY <2>2, <2>3, <2>4, <2>7 DEF RInv, Abstract!vars
<1> QED
  BY <1>1, <1>2

\* The initial states map to the initial states of Deputy.
LEMMA InitRefines == Init => Abstract!Init
<1> SUFFICES ASSUME Init PROVE awake = {0} /\ cache = {}
  BY DEF Abstract!Init
<1>1. 0 \in Node
  BY ConstantsAssumption DEF Node
<1>2. \A n \in Node : (Awake(n) <=> n = 0) /\ Stored(n) = {}
  BY DEF Init, Awake, Stored
<1> QED
  BY <1>1, <1>2, InCache DEF awake

\* dow_sleep() and dow_takeover() keep what Deputy promises, whichever frames are lost
\* short of all attempts for one number and whenever data come: a deputy goes to rest
\* only when another is awake and stores all that it has.
THEOREM ImplementsDeputy ==
    ASSUME Regular PROVE Spec /\ ComesBackAlone => DeputySpec
<1>1. Init /\ ComesBackAlone => RInv
  BY InitRInv
<1>2. RInv /\ TypeOK' /\ [Next]_vars => RInv' /\ [Abstract!Next]_(Abstract!vars)
  BY NextRInv
<1>3. Spec => []TypeOK
  BY TypeCorrect
<1> QED
  BY <1>1, <1>2, <1>3, InitRefines, PTL DEF Spec, DeputySpec, Abstract!Spec

\* The same of up to three nodes, whose rests, set by the positions of beaconing, are
\* apart of themselves.
THEOREM ThreeNodesImplementDeputy ==
    ASSUME Regular, Size <= 3 PROVE Spec => DeputySpec
<1>1. ASSUME Init PROVE ComesBackAlone
  <2>1. Size \in {2, 3} /\ Period \in Nat /\ Period > 1
    BY ConstantsAssumption DEF Regular
  <2>2. CASE Size = 2
    <3>1. \A n \in 2..(Size - 1) : FALSE
      BY <2>2
    <3> QED
      BY <3>1 DEF ComesBackAlone
  <2>3. CASE Size = 3
    <3>1. Longest = 2 * Period /\ since[0] \in 1..Longest
      <4>1. Longest = 2 * Period
        BY <2>3 DEF Longest
      <4>2. PICK t \in 1..Longest : since = [n \in Node |-> IF n = 0 THEN t ELSE 0]
        BY <1>1 DEF Init, Regular
      <4>3. 0 \in Node
        BY <2>3 DEF Node
      <4> QED
        BY <4>1, <4>2, <4>3
    <3>2. Period # Back(0, Period)
      BY <2>1, <3>1 DEF Back
    <3>3. \A n \in 2..(Size - 1) : n = 2 /\ (n - 1) * Period = Period
      BY <2>1, <2>3
    <3> QED
      BY <3>2, <3>3 DEF ComesBackAlone
  <2> QED
    BY <2>1, <2>2, <2>3
<1>2. Init => ComesBackAlone
  BY <1>1
<1>3. Spec /\ ComesBackAlone => DeputySpec
  BY ImplementsDeputy
<1> QED
  BY <1>2, <1>3, PTL DEF Spec

=============================================================================
