----------------------------- MODULE CoapProofs -----------------------------
(***************************************************************************)
(* For any blocks, any scripts and any delays: the type invariant of Coap, *)
(* whose answers a command takes, that blocks have no holes, and how the   *)
(* first command ends.                                                     *)
(*                                                                         *)
(* The inductive invariant follows the history of every message: its token *)
(* is one a command of this client had, and if the command that runs is the *)
(* only one that had it, the message is about this command; and a block is  *)
(* never ahead of what has been taken, wherever the message that asks for it *)
(* or bears it is: on the network, in the queue of retransmissions, or with *)
(* the server as an observer or an asynchronous request.                   *)
(***************************************************************************)
EXTENDS Coap, FiniteSetTheorems, SequenceTheorems, TLAPS

Places == {"client", "server", "other", "nowhere"}
Codes == Methods \cup {"731", "empty", "201", "204", "205", "404", "405", "503"}

Message ==
    [to : Places, from : Places, type : {"CON", "NON", "ACK", "RST"}, code : Codes,
     id : Nat \X Nat, token : Nat, path : Seq(Segments), num : 0..(Blocks - 1) \cup {None},
     more : BOOLEAN, obs : BOOLEAN, req : Nat \X Nat]

ClientState ==
    [path : Seq(Segments), observe : BOOLEAN, blocks : BOOLEAN, num : 0..(Blocks - 1),
     method : Methods, msgtype : {"CON", "NON"}, token : Nat, obs_seconds : Nat,
     ready : BOOLEAN, max_wait : 0..WAIT_SECONDS, obs_wait : Nat \cup {None}, cmd : Nat,
     running : BOOLEAN, dst : {"server", "nowhere"},
     sendq : SUBSET [pdu : Message, left : Nat], next : Nat, out : SUBSET Message,
     used : SUBSET Nat, fresh : BOOLEAN, taken : Seq(Message)]

Observer == [to : Places, token : Nat, non : BOOLEAN, req : Nat \X Nat]
Async == [to : Places, id : Nat \X Nat, token : Nat, left : Nat, req : Nat \X Nat]

ServerState ==
    [my_clock_base : {0, 1}, dirty : BOOLEAN, observers : SUBSET Observer,
     async : SUBSET Async, next : Nat, out : SUBSET Message, owed : SUBSET (Nat \X Nat)]

\* The commands of all scripts, and what may be left of a script.
Commands == UNION {Range(s.user) : s \in Scripts}
ScriptState ==
    [user : Seq(Commands), others : Seq([code : Methods, path : Seq(Segments)]),
     losses : Nat, failures : Nat]

-----------------------------------------------------------------------------
\* r, a message, an observer or an asynchronous request, is about a request of
\* this client, and if it has the token of a command that has one of its own,
\* about a request of that command.
Of(c, r) ==
    /\ r.req[1] <= c.cmd
    /\ r.token \in c.used
    /\ c.fresh /\ r.token = c.token => r.req[1] = c.cmd

\* The command has taken the block before number n of the answer, or it has
\* asked for block n itself.
Start(c) == IF c.blocks THEN c.num ELSE 0
Reached(c, n) == n > Start(c) => \E j \in DOMAIN c.taken : c.taken[j].num = n - 1

\* Only the blocks that are not the last say that more come.
WellFormed(m) ==
    /\ m.code = "empty" => m.type \in {"ACK", "RST"}
    /\ m.more => m.to = "client" /\ m.code = "205" /\ m.num \in 0..(Blocks - 2)

Fits(c, m) ==
    /\ WellFormed(m)
    /\ m.code # "empty" => Of(c, m) /\ (m.req[1] = c.cmd => Reached(c, m.num))

OneAsync(s) == s.async = {} \/ \E a \in s.async : s.async = {a}

ServerSound(c, s) ==
    /\ s \in ServerState
    /\ OneAsync(s)
    /\ \A r \in s.async \cup s.observers : r.to = "client" => Of(c, r)
    /\ \A m \in s.out : m.to = "client" => Fits(c, m)

Answered(c) == \E i \in DOMAIN c.taken : ~c.taken[i].more

ClientSound(c) ==
    /\ c \in ClientState
    /\ \A e \in c.sendq : Fits(c, e.pdu)
    /\ \A m \in c.out : Fits(c, m)
    /\ c.running => c.token \in c.used /\ c.cmd # 0
    /\ c.fresh => \A i \in DOMAIN c.taken :
          /\ c.taken[i].req[1] = c.cmd
          /\ c.taken[i].num > Start(c) =>
                \E j \in 1..(i - 1) : c.taken[j].num = c.taken[i].num - 1
    /\ c.ready /\ c.cmd <= 1 => c.cmd = 1 /\ Answered(c)

IInv ==
    /\ script \in ScriptState
    /\ ClientSound(client) /\ client.out = {}
    /\ client.running \/ client.sendq = {}
    /\ ServerSound(client, server) /\ server.out = {} /\ ~server.dirty
    /\ net \subseteq Message
    /\ \A m \in net : Fits(client, m)

-----------------------------------------------------------------------------
(***************************************************************************)
(* The scripts.                                                            *)
(***************************************************************************)

\* What the user may enter.
Legal(k) ==
    /\ k.letter = "b" => k.arg \in 0..(Blocks - 1)
    /\ k.letter = "m" => k.arg \in Methods
    /\ k.letter \in {"s", "T"} => k.arg \in Nat
    /\ k.path \in Seq(Segments)

LEMMA ScriptFacts ==
    /\ Scripts \subseteq ScriptState
    /\ \A k \in Commands : Legal(k)
<1>1. ASSUME NEW s \in Scripts PROVE s \in ScriptState
  <2>1. s \in [user : Seq(Range(s.user)),
               others : Seq([code : Methods, path : Seq(Segments)]),
               losses : Nat, failures : Nat]
    BY CoapAssumption
  <2>2. Range(s.user) \subseteq Commands
    BY DEF Commands
  <2>3. s.user \in Seq(Commands)
    <3>1. s.user \in Seq(Range(s.user))
      BY <2>1
    <3> QED
      BY <2>2, <3>1
  <2> QED
    BY <2>1, <2>3 DEF ScriptState
<1>2. ASSUME NEW k \in Commands PROVE Legal(k)
  BY <1>2, CoapAssumption DEF Commands, Legal
<1> QED
  BY <1>1, <1>2

\* What remains of a script after a command or a foreign request.
LEMMA ScriptSteps ==
    ASSUME script \in ScriptState, NEW enough \in BOOLEAN, Memory(enough)
    PROVE  /\ Without(enough) \in ScriptState
           /\ script.user # <<>> =>
                 /\ Head(script.user) \in Commands
                 /\ [Without(enough) EXCEPT !.user = Tail(@)] \in ScriptState
           /\ script.others # <<>> =>
                 /\ Head(script.others) \in [code : Methods, path : Seq(Segments)]
                 /\ [Without(enough) EXCEPT !.others = Tail(@)] \in ScriptState
<1>1. Without(enough) \in ScriptState
  BY DEF Without, Memory, ScriptState
<1>2. Without(enough).user = script.user /\ Without(enough).others = script.others
  BY DEF Without, ScriptState
<1>3. script.user \in Seq(Commands)
      /\ script.others \in Seq([code : Methods, path : Seq(Segments)])
  BY DEF ScriptState
<1>4. script.user # <<>> => Head(script.user) \in Commands /\ Tail(script.user) \in Seq(Commands)
  BY <1>3, HeadTailProperties
<1>5. script.others # <<>> =>
         /\ Head(script.others) \in [code : Methods, path : Seq(Segments)]
         /\ Tail(script.others) \in Seq([code : Methods, path : Seq(Segments)])
  BY <1>3, HeadTailProperties
<1> DEFINE w == Without(enough)
<1>6. w \in ScriptState /\ w.user = script.user /\ w.others = script.others
  BY <1>1, <1>2
<1> HIDE DEF w
<1>7. script.user # <<>> => [w EXCEPT !.user = Tail(@)] \in ScriptState
  BY <1>4, <1>6 DEF ScriptState
<1>8. script.others # <<>> => [w EXCEPT !.others = Tail(@)] \in ScriptState
  BY <1>5, <1>6 DEF ScriptState
<1> QED
  BY <1>1, <1>4, <1>5, <1>7, <1>8 DEF w

-----------------------------------------------------------------------------
(***************************************************************************)
(* What a change of the client's state leaves of the messages' history.    *)
(***************************************************************************)

\* d is c after a step within a command.
Grows(c, d) ==
    /\ d.cmd = c.cmd /\ d.token = c.token /\ d.used = c.used /\ d.fresh = c.fresh
    /\ d.blocks = c.blocks /\ d.num = c.num
    /\ \A j \in DOMAIN c.taken : j \in DOMAIN d.taken /\ d.taken[j] = c.taken[j]

\* What fits a command goes on to fit it.
LEMMA GrowsFits ==
    ASSUME NEW c, NEW d, Grows(c, d)
    PROVE  /\ \A r : Of(c, r) => Of(d, r)
           /\ \A n : Reached(c, n) => Reached(d, n)
           /\ \A m : Fits(c, m) => Fits(d, m)
<1>1. \A r : Of(c, r) => Of(d, r)
  BY DEF Of, Grows
<1>2. \A n : Reached(c, n) => Reached(d, n)
  BY DEF Reached, Grows, Start
<1>3. d.cmd = c.cmd
  BY DEF Grows
<1> QED
  BY <1>1, <1>2, <1>3 DEF Fits

LEMMA GrowsTransitive ==
    ASSUME NEW c, NEW d, NEW e, Grows(c, d), Grows(d, e)
    PROVE  Grows(c, e)
  BY DEF Grows

\* The server's memory of a command that goes on.
LEMMA GrowsServer ==
    ASSUME NEW c, NEW d, Grows(c, d), NEW s, ServerSound(c, s)
    PROVE  ServerSound(d, s)
  BY GrowsFits DEF ServerSound

\* What a request carries.
LEMMA RequestFits ==
    ASSUME NEW c \in ClientState, c.token \in c.used, NEW to \in Places, NEW code \in Codes,
           code # "empty", NEW path \in Seq(Segments), NEW num \in 0..(Blocks - 1) \cup {None},
           NEW obs \in BOOLEAN, Reached(c, num)
    PROVE  /\ Request(c, to, code, path, num, obs) \in Message
           /\ Fits(c, Request(c, to, code, path, num, obs))
<1> DEFINE m == Request(c, to, code, path, num, obs)
<1>1. /\ c.cmd \in Nat /\ c.next \in Nat /\ c.msgtype \in {"CON", "NON"} /\ c.token \in Nat
  BY DEF ClientState
<1>2. m \in Message
  BY <1>1 DEF Message, Request, Places
<1>3. /\ m.code = code /\ m.more = FALSE /\ m.req = <<c.cmd, c.next>> /\ m.token = c.token
      /\ m.num = num
  BY DEF Request
<1>4. m.req[1] = c.cmd
  BY <1>3
<1> HIDE DEF m
<1>5. WellFormed(m)
  BY <1>3 DEF WellFormed
<1>6. Of(c, m)
  BY <1>1, <1>3, <1>4 DEF Of
<1> QED
  BY <1>2, <1>3, <1>5, <1>6 DEF Fits, m

\* What an empty message carries.
LEMMA EmptyFits ==
    ASSUME NEW c, NEW m \in Message, NEW type \in {"ACK", "RST"}
    PROVE  Empty(m, type) \in Message /\ Fits(c, Empty(m, type))
<1>1. Empty(m, type) \in Message
  <2> DEFINE a == [m EXCEPT !.to = m.from, !.from = m.to, !.type = type]
             b == [a EXCEPT !.code = "empty", !.token = 0, !.path = <<>>]
  <2>1. a \in Message
    BY DEF Message
  <2>2. <<>> \in Seq(Segments) /\ "empty" \in Codes /\ None \in 0..(Blocks - 1) \cup {None}
    BY DEF Codes
  <2>3. Empty(m, type) = [b EXCEPT !.num = None, !.more = FALSE, !.obs = FALSE]
    BY DEF Empty
  <2> HIDE DEF a
  <2>4. b \in Message
    BY <2>1, <2>2 DEF Message
  <2> HIDE DEF b
  <2> QED
    BY <2>2, <2>3, <2>4 DEF Message
<1>2. /\ Empty(m, type).code = "empty" /\ Empty(m, type).type = type
      /\ Empty(m, type).more = FALSE
  BY DEF Empty, Message
<1> QED
  BY <1>1, <1>2 DEF Fits, WellFormed

-----------------------------------------------------------------------------
(***************************************************************************)
(* The client.                                                             *)
(***************************************************************************)

\* A step that takes no answer keeps the client sound if what it sends fits.
LEMMA StaysSound ==
    ASSUME NEW c, ClientSound(c), NEW d \in ClientState, Grows(c, d),
           d.taken = c.taken, d.ready => c.ready, d.running => c.running,
           \A e \in d.sendq : e \in c.sendq \/ Fits(c, e.pdu),
           \A m \in d.out : m \in c.out \/ Fits(c, m)
    PROVE  ClientSound(d)
<1>1. /\ d.cmd = c.cmd /\ d.fresh = c.fresh /\ Start(d) = Start(c)
      /\ d.token = c.token /\ d.used = c.used /\ Answered(d) = Answered(c)
  BY DEF Grows, Start, Answered
<1>2. (\A e \in d.sendq : Fits(d, e.pdu)) /\ (\A m \in d.out : Fits(d, m))
  BY GrowsFits DEF ClientSound
<1> QED
  BY <1>1, <1>2 DEF ClientSound

\* A message that fits can be sent either way.
LEMMA SendFits ==
    ASSUME NEW c, ClientSound(c), NEW type, NEW m \in Message, Fits(c, m)
    PROVE  /\ ClientSound(SendAs(c, type, m)) /\ Grows(c, SendAs(c, type, m))
           /\ SendAs(c, type, m).taken = c.taken
           /\ SendAs(c, type, m).ready = c.ready
           /\ SendAs(c, type, m).running = c.running
           /\ SendAs(c, type, m).max_wait = c.max_wait
           /\ SendAs(c, type, m).token = c.token
<1> DEFINE d == SendAs(c, type, m)
           r == [pdu |-> m, left |-> MAX_RETRANSMIT]
           a == coap_send(c, m)
<1>1. c \in ClientState
  BY DEF ClientSound
<1>2. a \in ClientState
  <2> DEFINE o == c.out \cup {m}
             k == c.next + 1
  <2>1. o \in SUBSET Message /\ k \in Nat
    BY <1>1 DEF ClientState
  <2>2. a = [c EXCEPT !.out = o, !.next = k]
    BY DEF coap_send
  <2> HIDE DEF o, k, a
  <2> QED
    BY <1>1, <2>1, <2>2 DEF ClientState
<1>3. /\ a.out = c.out \cup {m} /\ a.sendq = c.sendq /\ a.taken = c.taken /\ a.ready = c.ready
      /\ a.running = c.running /\ a.max_wait = c.max_wait
      /\ a.cmd = c.cmd /\ a.token = c.token /\ a.used = c.used /\ a.fresh = c.fresh
      /\ a.blocks = c.blocks /\ a.num = c.num
  BY <1>1 DEF coap_send, ClientState
<1>4. r \in [pdu : Message, left : Nat] /\ r.pdu = m
  BY CoapAssumption
<1>5. d = IF type = "CON" THEN [a EXCEPT !.sendq = @ \cup {r}] ELSE a
  BY DEF SendAs, coap_send_confirmed
<1> HIDE DEF a, r, d
<1>6. /\ d \in ClientState
      /\ d.out = a.out /\ d.sendq \in {a.sendq, a.sendq \cup {r}}
      /\ d.taken = a.taken /\ d.ready = a.ready
      /\ d.running = a.running /\ d.max_wait = a.max_wait
      /\ d.cmd = a.cmd /\ d.token = a.token /\ d.used = a.used /\ d.fresh = a.fresh
      /\ d.blocks = a.blocks /\ d.num = a.num
  BY <1>2, <1>4, <1>5 DEF ClientState
<1>7. Grows(c, d)
  BY <1>3, <1>6 DEF Grows
<1>8. ClientSound(d)
  BY <1>3, <1>4, <1>6, <1>7, StaysSound
<1> QED
  BY <1>3, <1>6, <1>7, <1>8 DEF d

\* A command that ends drops what it would have sent again.
LEMMA EndedSound ==
    ASSUME NEW c, ClientSound(c)
    PROVE  /\ ClientSound(Ended(c)) /\ Grows(c, Ended(c))
           /\ ~Ended(c).running /\ Ended(c).sendq = {} /\ Ended(c).max_wait = c.max_wait
<1> DEFINE d == Ended(c)
<1>1. c \in ClientState
  BY DEF ClientSound
<1>2. /\ d \in ClientState
      /\ d.running = FALSE /\ d.sendq = {} /\ d.out = c.out /\ d.max_wait = c.max_wait
      /\ d.taken = c.taken /\ d.ready = c.ready
      /\ d.cmd = c.cmd /\ d.token = c.token /\ d.used = c.used /\ d.fresh = c.fresh
      /\ d.blocks = c.blocks /\ d.num = c.num
  BY <1>1 DEF Ended, ClientState
<1>3. Grows(c, d)
  BY <1>2 DEF Grows
<1> HIDE DEF d
<1>4. ClientSound(d)
  BY <1>2, <1>3, StaysSound
<1> QED
  BY <1>2, <1>3, <1>4 DEF d

\* The client once its messages are sent.
LEMMA SentSound ==
    ASSUME NEW c, ClientSound(c)
    PROVE  /\ ClientSound([c EXCEPT !.out = {}]) /\ Grows(c, [c EXCEPT !.out = {}])
           /\ [c EXCEPT !.out = {}].out = {}
           /\ [c EXCEPT !.out = {}].running = c.running
           /\ [c EXCEPT !.out = {}].sendq = c.sendq
           /\ [c EXCEPT !.out = {}].max_wait = c.max_wait
<1> DEFINE d == [c EXCEPT !.out = {}]
<1>1. c \in ClientState
  BY DEF ClientSound
<1>2. /\ d \in ClientState
      /\ d.running = c.running /\ d.sendq = c.sendq /\ d.out = {} /\ d.max_wait = c.max_wait
      /\ d.taken = c.taken /\ d.ready = c.ready
      /\ d.cmd = c.cmd /\ d.token = c.token /\ d.used = c.used /\ d.fresh = c.fresh
      /\ d.blocks = c.blocks /\ d.num = c.num
  BY <1>1 DEF ClientState
<1> HIDE DEF d
<1>3. Grows(c, d)
  BY <1>2 DEF Grows
<1>4. ClientSound(d)
  BY <1>2, <1>3, StaysSound
<1> QED
  BY <1>2, <1>3, <1>4 DEF d

\* What is sent again has been sent before.
LEMMA RetransmitSound ==
    ASSUME NEW c, ClientSound(c), NEW e \in c.sendq
    PROVE  /\ ClientSound(coap_retransmit(c, e)) /\ Grows(c, coap_retransmit(c, e))
           /\ coap_retransmit(c, e).running = c.running
<1> DEFINE d == coap_retransmit(c, e)
           f == [e EXCEPT !.left = @ - 1]
<1>1. c \in ClientState /\ e \in [pdu : Message, left : Nat] /\ Fits(c, e.pdu)
  BY DEF ClientSound, ClientState
<1>2. e.left # 0 => f \in [pdu : Message, left : Nat] /\ f.pdu = e.pdu
  BY <1>1
<1>3. d = IF e.left = 0 THEN [c EXCEPT !.sendq = @ \ {e}]
          ELSE [c EXCEPT !.sendq = (@ \ {e}) \cup {f}, !.out = @ \cup {e.pdu}]
  BY DEF coap_retransmit
<1> HIDE DEF f, d
<1>4. /\ d \in ClientState
      /\ d.sendq \subseteq IF e.left = 0 THEN c.sendq ELSE c.sendq \cup {f}
      /\ d.out \subseteq c.out \cup {e.pdu}
      /\ d.running = c.running /\ d.taken = c.taken /\ d.ready = c.ready
      /\ d.cmd = c.cmd /\ d.token = c.token /\ d.used = c.used /\ d.fresh = c.fresh
      /\ d.blocks = c.blocks /\ d.num = c.num
  <2>1. CASE e.left = 0
    BY <1>1, <1>3, <2>1 DEF ClientState
  <2>2. CASE e.left # 0
    BY <1>1, <1>2, <1>3, <2>2 DEF ClientState
  <2> QED
    BY <2>1, <2>2
<1>5. Grows(c, d)
  BY <1>4 DEF Grows
<1>6. ClientSound(d)
  BY <1>1, <1>2, <1>4, <1>5, StaysSound
<1> QED
  BY <1>4, <1>5, <1>6 DEF d

\* An answer that is taken: it is the command's own if the token is, and its
\* block is the first, or follows one taken before.
LEMMA TakeSound ==
    ASSUME NEW c, ClientSound(c), c.running, NEW m \in Message, Fits(c, m), m.code # "empty",
           m.token = c.token,
           NEW x \in ClientState, x.taken = Append(c.taken, m), x.running = c.running,
           x.ready => c.ready \/ ~m.more, x.sendq = c.sendq, x.out = c.out,
           x.cmd = c.cmd, x.token = c.token, x.used = c.used, x.fresh = c.fresh,
           x.blocks = c.blocks, x.num = c.num
    PROVE  Grows(c, x) /\ ClientSound(x)
<1> DEFINE t == Append(c.taken, m)
<1>1. /\ c \in ClientState /\ c.token \in c.used /\ c.taken \in Seq(Message)
      /\ c.cmd \in Nat \ {0}
  BY DEF ClientSound, ClientState
<1>2. /\ Len(c.taken) \in Nat /\ DOMAIN t = 1..(Len(c.taken) + 1)
      /\ DOMAIN c.taken = 1..Len(c.taken)
      /\ t[Len(c.taken) + 1] = m
      /\ \A j \in 1..Len(c.taken) : t[j] = c.taken[j]
  BY <1>1
<1> HIDE DEF t
<1>3. x.taken = t
  BY DEF t
<1>4. Start(x) = Start(c)
  BY DEF Start
<1>5. Grows(c, x)
  BY <1>2, <1>3 DEF Grows
<1>6. (\A f \in x.sendq : Fits(x, f.pdu)) /\ (\A f \in x.out : Fits(x, f))
  BY <1>5, GrowsFits DEF ClientSound
<1>7. ASSUME x.fresh, NEW i \in DOMAIN x.taken
      PROVE  /\ x.taken[i].req[1] = x.cmd
             /\ x.taken[i].num > Start(x) =>
                   \E j \in 1..(i - 1) : x.taken[j].num = x.taken[i].num - 1
  <2>1. CASE i = Len(c.taken) + 1
    <3>1. x.taken[i] = m
      BY <1>2, <1>3, <2>1
    <3>2. m.req[1] = c.cmd
      BY <1>3, <1>7 DEF Fits, Of
    <3>3. Reached(c, m.num)
      BY <3>2 DEF Fits
    <3>4. m.num > Start(c) => \E j \in 1..(i - 1) : x.taken[j].num = m.num - 1
      <4> SUFFICES ASSUME m.num > Start(c)
                   PROVE  \E j \in 1..(i - 1) : x.taken[j].num = m.num - 1
        OBVIOUS
      <4>1. PICK j \in DOMAIN c.taken : c.taken[j].num = m.num - 1
        BY <3>3 DEF Reached
      <4>2. j \in 1..(i - 1) /\ x.taken[j] = c.taken[j]
        BY <1>2, <1>3, <2>1, <4>1
      <4> QED
        BY <4>1, <4>2
    <3> QED
      BY <1>3, <1>4, <3>1, <3>2, <3>4
  <2>2. CASE i # Len(c.taken) + 1
    <3>1. i \in 1..Len(c.taken)
      BY <1>2, <1>3, <1>7, <2>2
    <3>2. \A j \in 1..i : x.taken[j] = c.taken[j]
      BY <1>2, <1>3, <3>1
    <3>3. /\ c.taken[i].req[1] = c.cmd
          /\ c.taken[i].num > Start(c) =>
                \E j \in 1..(i - 1) : c.taken[j].num = c.taken[i].num - 1
      BY <1>2, <1>3, <1>7, <3>1 DEF ClientSound
    <3>4. i \in 1..i /\ \A j \in 1..(i - 1) : j \in 1..i
      BY <1>2, <3>1
    <3> QED
      BY <1>3, <1>4, <3>2, <3>3, <3>4
  <2> QED
    BY <2>1, <2>2
<1>8. ASSUME x.ready, x.cmd <= 1 PROVE x.cmd = 1 /\ Answered(x)
  <2>1. CASE c.ready
    <3>1. c.cmd = 1 /\ Answered(c)
      BY <1>3, <1>8, <2>1 DEF ClientSound
    <3>2. PICK i \in DOMAIN c.taken : ~c.taken[i].more
      BY <3>1 DEF Answered
    <3>3. i \in DOMAIN x.taken /\ x.taken[i] = c.taken[i]
      BY <1>2, <1>3, <3>2
    <3> QED
      BY <1>3, <3>1, <3>2, <3>3 DEF Answered
  <2>2. CASE ~c.ready
    <3>1. ~m.more
      BY <1>3, <1>8, <2>2
    <3>2. Len(c.taken) + 1 \in DOMAIN x.taken /\ x.taken[Len(c.taken) + 1] = m
      BY <1>2, <1>3
    <3>3. Answered(x)
      BY <3>1, <3>2 DEF Answered
    <3> QED
      BY <1>1, <1>3, <1>8, <3>3
  <2> QED
    BY <2>1, <2>2
<1> QED
  BY <1>1, <1>5, <1>6, <1>7, <1>8 DEF ClientSound

\* The timer of the command is set again.
LEMMA WaitSound ==
    ASSUME NEW c, ClientSound(c)
    PROVE  /\ ClientSound([c EXCEPT !.max_wait = WAIT_SECONDS])
           /\ Grows(c, [c EXCEPT !.max_wait = WAIT_SECONDS])
           /\ [c EXCEPT !.max_wait = WAIT_SECONDS].running = c.running
<1> DEFINE d == [c EXCEPT !.max_wait = WAIT_SECONDS]
<1>1. c \in ClientState /\ WAIT_SECONDS \in 0..WAIT_SECONDS
  BY CoapAssumption DEF ClientSound
<1>2. /\ d \in ClientState
      /\ d.running = c.running /\ d.sendq = c.sendq /\ d.out = c.out
      /\ d.taken = c.taken /\ d.ready = c.ready
      /\ d.cmd = c.cmd /\ d.token = c.token /\ d.used = c.used /\ d.fresh = c.fresh
      /\ d.blocks = c.blocks /\ d.num = c.num
  BY <1>1 DEF ClientState
<1> HIDE DEF d
<1>3. Grows(c, d)
  BY <1>2 DEF Grows
<1>4. ClientSound(d)
  BY <1>2, <1>3, StaysSound
<1> QED
  BY <1>2, <1>3, <1>4 DEF d

\* A response: what it has is taken, and the next block asked for when this one
\* is not the last.
LEMMA HandlerSound ==
    ASSUME NEW c, ClientSound(c), c.running, NEW m \in Message, Fits(c, m), m.code # "empty",
           NEW sent \in BOOLEAN
    PROVE  /\ ClientSound(message_handler(c, m, sent))
           /\ Grows(c, message_handler(c, m, sent))
           /\ message_handler(c, m, sent).running
<1> DEFINE w == IF m.code = "205" /\ sent /\ m.obs THEN c.obs_seconds ELSE c.obs_wait
           d == [append_to_output(c, m) EXCEPT !.obs_wait = w]
           n == NextBlock(d, m)
           e == [d EXCEPT !.ready = ~m.obs]
           s == SendAs(d, m.type, n)
           More == m.code = "205" /\ m.num # None /\ m.more
<1>1. c \in ClientState /\ w \in Nat \cup {None}
  BY DEF ClientSound, ClientState
<1>2. append_to_output(c, m).obs_wait = c.obs_wait
  BY <1>1 DEF append_to_output, ClientState
<1>3. /\ d \in ClientState
      /\ d.taken = Append(c.taken, m) /\ d.ready = c.ready /\ d.running = c.running
      /\ d.sendq = c.sendq /\ d.out = c.out
      /\ d.cmd = c.cmd /\ d.token = c.token /\ d.used = c.used /\ d.fresh = c.fresh
      /\ d.blocks = c.blocks /\ d.num = c.num
  <2> DEFINE t == Append(c.taken, m)
  <2>1. t \in Seq(Message)
    BY <1>1 DEF ClientState
  <2>2. d = [[c EXCEPT !.taken = t] EXCEPT !.obs_wait = w]
    BY DEF append_to_output
  <2> HIDE DEF t, w
  <2>3. /\ d \in ClientState
        /\ d.taken = t /\ d.ready = c.ready /\ d.running = c.running
        /\ d.sendq = c.sendq /\ d.out = c.out
        /\ d.cmd = c.cmd /\ d.token = c.token /\ d.used = c.used /\ d.fresh = c.fresh
        /\ d.blocks = c.blocks /\ d.num = c.num
    BY <1>1, <2>1, <2>2 DEF ClientState
  <2> QED
    BY <2>3 DEF t
<1>4. CASE ~check_token(c, m)
  <2>1. message_handler(c, m, sent) \in {c, coap_send(c, Empty(m, "RST"))}
    BY <1>4 DEF message_handler
  <2>2. coap_send(c, Empty(m, "RST")) = SendAs(c, "NON", Empty(m, "RST"))
    BY DEF SendAs
  <2>3. Empty(m, "RST") \in Message /\ Fits(c, Empty(m, "RST"))
    BY EmptyFits
  <2>4. /\ ClientSound(SendAs(c, "NON", Empty(m, "RST")))
        /\ Grows(c, SendAs(c, "NON", Empty(m, "RST")))
        /\ SendAs(c, "NON", Empty(m, "RST")).running
    BY <2>3, SendFits
  <2>5. Grows(c, c)
    BY DEF Grows
  <2> QED
    BY <2>1, <2>2, <2>4, <2>5
<1>5. CASE check_token(c, m)
  <2>1. message_handler(c, m, sent) =
           IF More THEN [s EXCEPT !.max_wait = WAIT_SECONDS] ELSE e
    BY <1>2, <1>5 DEF message_handler
  <2>2. m.token = c.token
    BY <1>5 DEF check_token
  <2>3. CASE More
    <3>1. /\ d \in ClientState /\ d.running /\ d.taken = Append(c.taken, m)
          /\ Grows(c, d) /\ ClientSound(d)
      <4> HIDE DEF d
      <4> QED
        BY <1>3, <2>2, TakeSound
    <3> HIDE DEF w, d
    <3>2. m.num \in 0..(Blocks - 2) /\ Blocks \in Nat
      BY <2>3, CoapAssumption DEF Fits, WellFormed
    <3>3. m.num + 1 \in 0..(Blocks - 1) /\ m.num = (m.num + 1) - 1
      BY <3>2
    <3>4. Reached(d, m.num + 1)
      <4>1. c.taken \in Seq(Message)
        BY <1>1 DEF ClientState
      <4>2. Len(c.taken) + 1 \in DOMAIN d.taken /\ d.taken[Len(c.taken) + 1] = m
        BY <3>1, <4>1
      <4> QED
        BY <3>3, <4>2 DEF Reached
    <3>5. /\ d.token \in d.used /\ m.from \in Places /\ d.method \in Codes /\ d.method # "empty"
          /\ d.path \in Seq(Segments)
      BY <3>1 DEF ClientSound, ClientState, Message, Codes, Methods
    <3>6. n \in Message /\ Fits(d, n)
      BY <3>1, <3>3, <3>4, <3>5, RequestFits DEF NextBlock
    <3>7. ClientSound(s) /\ Grows(d, s) /\ s.running
      <4> HIDE DEF n
      <4> QED
        BY <3>1, <3>6, SendFits
    <3> HIDE DEF s
    <3>8. /\ ClientSound([s EXCEPT !.max_wait = WAIT_SECONDS])
          /\ Grows(s, [s EXCEPT !.max_wait = WAIT_SECONDS])
          /\ [s EXCEPT !.max_wait = WAIT_SECONDS].running
      BY <3>7, WaitSound
    <3>9. Grows(c, [s EXCEPT !.max_wait = WAIT_SECONDS])
      BY <3>1, <3>7, <3>8, GrowsTransitive
    <3> QED
      BY <2>1, <2>3, <3>8, <3>9
  <2>4. CASE ~More
    <3>1. ~m.more
      BY <2>4 DEF Fits, WellFormed, None
    <3> DEFINE r == ~m.obs
    <3>2. e = [d EXCEPT !.ready = r] /\ r \in BOOLEAN
      OBVIOUS
    <3> HIDE DEF d, r, e
    <3>3. /\ e \in ClientState
          /\ e.taken = d.taken /\ e.running = d.running
          /\ e.sendq = d.sendq /\ e.out = d.out
          /\ e.cmd = d.cmd /\ e.token = d.token /\ e.used = d.used /\ e.fresh = d.fresh
          /\ e.blocks = d.blocks /\ e.num = d.num
      BY <1>3, <3>2 DEF ClientState
    <3>4. ClientSound(e) /\ Grows(c, e) /\ e.running
      BY <1>3, <2>2, <3>1, <3>3, TakeSound
    <3> QED
      BY <2>1, <2>4, <3>4
  <2> QED
    BY <2>3, <2>4
<1> QED
  BY <1>4, <1>5

\* A message is confirmed, and what it acknowledges is not sent again.
LEMMA DispatchSound ==
    ASSUME NEW c, ClientSound(c), c.running, NEW m \in Message, Fits(c, m)
    PROVE  ClientSound(Dispatch(c, m)) /\ Grows(c, Dispatch(c, m)) /\ Dispatch(c, m).running
<1> DEFINE mine == {e \in c.sendq : m.type \in {"ACK", "RST"} /\ e.pdu.id = m.id}
           q == c.sendq \ mine
           o == IF m.type = "CON" THEN c.out \cup {Empty(m, "ACK")} ELSE c.out
           d == [c EXCEPT !.sendq = q, !.out = o]
           sent == mine # {}
<1>1. Dispatch(c, m) = IF m.code = "empty" THEN d ELSE message_handler(d, m, sent)
  BY DEF Dispatch
<1>2. c \in ClientState
  BY DEF ClientSound
<1>3. Empty(m, "ACK") \in Message /\ Fits(c, Empty(m, "ACK"))
  BY EmptyFits
<1>4. /\ q \subseteq c.sendq /\ o \subseteq c.out \cup {Empty(m, "ACK")}
      /\ o \in SUBSET Message /\ sent \in BOOLEAN
  BY <1>2, <1>3 DEF ClientState
<1> HIDE DEF q, o, mine
<1>5. /\ d \in ClientState
      /\ d.running = c.running /\ d.sendq = q /\ d.out = o
      /\ d.taken = c.taken /\ d.ready = c.ready
      /\ d.cmd = c.cmd /\ d.token = c.token /\ d.used = c.used /\ d.fresh = c.fresh
      /\ d.blocks = c.blocks /\ d.num = c.num
  BY <1>2, <1>4 DEF ClientState
<1> HIDE DEF d, sent
<1>6. Grows(c, d)
  BY <1>5 DEF Grows
<1>7. ClientSound(d)
  BY <1>3, <1>4, <1>5, <1>6, StaysSound
<1>8. Fits(d, m)
  BY <1>6, GrowsFits
<1>9. CASE m.code = "empty"
  BY <1>1, <1>5, <1>6, <1>7, <1>9
<1>10. CASE m.code # "empty"
  <2>1. /\ ClientSound(message_handler(d, m, sent)) /\ Grows(d, message_handler(d, m, sent))
        /\ message_handler(d, m, sent).running
    BY <1>4, <1>5, <1>7, <1>8, <1>10, HandlerSound
  <2> QED
    BY <1>1, <1>6, <1>10, <2>1, GrowsTransitive
<1> QED
  BY <1>9, <1>10

\* The end of a round: a command ends only when its time is over.
LEMMA TimersSound ==
    ASSUME NEW c, ClientSound(c), c.running
    PROVE  /\ ClientSound(Timers(c)) /\ Grows(c, Timers(c))
           /\ Timers(c).running \/ Timers(c).sendq = {}
           /\ ~Timers(c).running => Timers(c).max_wait = 0
<1>1. CASE c.max_wait = 0
  BY <1>1, EndedSound DEF Timers
<1>2. CASE c.max_wait # 0 /\ c.obs_wait = 0
  <2> DEFINE m == Request(c, c.dst, "731", <<>>, None, FALSE)
             s == SendAs(c, c.msgtype, m)
             d == [s EXCEPT !.obs_wait = None, !.obs_seconds = 0]
  <2>1. c \in ClientState /\ c.token \in c.used
    BY DEF ClientSound
  <2>2. Start(c) \in Nat
    BY <2>1, CoapAssumption DEF ClientState, Start
  <2>3. Reached(c, None)
    BY <2>2 DEF Reached, None
  <2>4. /\ c.dst \in Places /\ "731" \in Codes /\ <<>> \in Seq(Segments)
        /\ None \in 0..(Blocks - 1) \cup {None}
    BY <2>1 DEF ClientState, Places, Codes
  <2>5. m \in Message /\ Fits(c, m)
    <3> DEFINE code == "731"
               path == <<>>
               obs == FALSE
    <3>1. /\ code \in Codes /\ code # "empty" /\ path \in Seq(Segments) /\ obs \in BOOLEAN
          /\ m = Request(c, c.dst, code, path, None, obs)
      BY <2>4
    <3> HIDE DEF m, code, path, obs
    <3> QED
      BY <2>1, <2>3, <2>4, <3>1, RequestFits
  <2> HIDE DEF m
  <2>6. ClientSound(s) /\ Grows(c, s) /\ s.running
    BY <2>5, SendFits
  <2> HIDE DEF s
  <2>7. s \in ClientState /\ None \in Nat \cup {None} /\ 0 \in Nat
    BY <2>6 DEF ClientSound
  <2>8. /\ d \in ClientState
        /\ d.running = s.running /\ d.sendq = s.sendq /\ d.out = s.out
        /\ d.taken = s.taken /\ d.ready = s.ready
        /\ d.cmd = s.cmd /\ d.token = s.token /\ d.used = s.used /\ d.fresh = s.fresh
        /\ d.blocks = s.blocks /\ d.num = s.num
    BY <2>7 DEF ClientState
  <2>9. Timers(c) = d
    BY <1>2 DEF Timers, clear_obs, s, m
  <2> HIDE DEF d
  <2>10. Grows(s, d)
    BY <2>8 DEF Grows
  <2>11. ClientSound(d)
    BY <2>6, <2>8, <2>10, StaysSound
  <2> QED
    BY <2>6, <2>8, <2>9, <2>10, <2>11, GrowsTransitive
<1>3. CASE c.max_wait # 0 /\ c.obs_wait # 0
  <2>1. Timers(c) = c
    BY <1>3 DEF Timers
  <2> QED
    BY <2>1 DEF Grows
<1> QED
  BY <1>1, <1>2, <1>3

\* Nothing on its way is about the command that begins: what went before has
\* a number below its own, and not its token if that is new.
LEMMA NewCommandFits ==
    ASSUME NEW c, c.cmd \in Nat, NEW f, f.cmd = c.cmd + 1, f.used = c.used \cup {f.token},
           f.fresh => f.token \notin c.used
    PROVE  /\ \A r : r.req[1] \in Nat /\ Of(c, r) => Of(f, r)
           /\ \A m \in Message : Fits(c, m) => Fits(f, m)
<1>1. ASSUME NEW r, r.req[1] \in Nat, Of(c, r) PROVE Of(f, r) /\ r.req[1] # f.cmd
  BY <1>1 DEF Of
<1>2. \A m \in Message : m.req[1] \in Nat
  BY DEF Message
<1> QED
  BY <1>1, <1>2 DEF Fits

\* An option changes nothing that messages are compared with but the token.
LEMMA OptionTypes ==
    ASSUME NEW c \in ClientState, NEW k, Legal(k)
    PROVE  /\ Option(c, k) \in ClientState
           /\ Option(c, k).cmd = c.cmd /\ Option(c, k).used = c.used
           /\ Option(c, k).sendq = c.sendq /\ Option(c, k).out = c.out
           /\ Option(c, k).ready = c.ready /\ Option(c, k).running = c.running
<1> DEFINE d == Option(c, k)
           b == IF c.blocks THEN c.num ELSE k.arg
<1>1. CASE k.letter = "b"
  <2>1. b \in 0..(Blocks - 1)
    BY <1>1 DEF Legal, ClientState
  <2>2. d = [c EXCEPT !.blocks = TRUE, !.num = b]
    BY <1>1 DEF Option
  <2> HIDE DEF b, d
  <2>3. d \in ClientState /\ d.cmd = c.cmd /\ d.used = c.used /\ d.sendq = c.sendq
        /\ d.out = c.out /\ d.ready = c.ready /\ d.running = c.running
    BY <2>1, <2>2 DEF ClientState
  <2> QED
    BY <2>3 DEF d
<1>2. CASE k.letter = "m"
  BY <1>2 DEF Option, Legal, ClientState
<1>3. CASE k.letter = "N"
  BY <1>3 DEF Option, ClientState
<1>4. CASE k.letter = "s"
  BY <1>4 DEF Option, Legal, ClientState
<1>5. CASE k.letter = "T"
  BY <1>5 DEF Option, Legal, ClientState
<1>6. CASE k.letter \notin {"b", "m", "N", "s", "T"}
  BY <1>6 DEF Option
<1> QED
  BY <1>1, <1>2, <1>3, <1>4, <1>5, <1>6

\* A command leaves the client sound, and what is on its way with it.
LEMMA CommandSound ==
    ASSUME NEW c, ClientSound(c), ~c.running, c.sendq = {}, c.out = {},
           NEW k, Legal(k), NEW dst \in {"server", "nowhere"}, NEW has_context \in BOOLEAN
    PROVE  LET d == coap_cmd(c, k, dst, has_context)
           IN  /\ ClientSound(d)
               /\ d.running \/ d.sendq = {}
               /\ \A r : r.req[1] \in Nat /\ Of(c, r) => Of(d, r)
               /\ \A m \in Message : Fits(c, m) => Fits(d, m)
<1> DEFINE o == Option(c, k)
           pth == o.path \o k.path
           p == [o EXCEPT !.path = pth]
           u == [p EXCEPT !.cmd = @ + 1, !.dst = dst, !.taken = <<>>]
           fr == u.token \notin u.used
           us == u.used \cup {u.token}
           f == [u EXCEPT !.fresh = fr, !.used = us, !.next = 0]
           n == coap_new_request(f)
           s == SendAs(f, f.msgtype, n)
           d == [s EXCEPT !.running = TRUE, !.max_wait = WAIT_SECONDS]
<1>0. coap_cmd(c, k, dst, has_context) = IF has_context THEN d ELSE f
  BY DEF coap_cmd, cmdline_uri
<1>1. /\ c \in ClientState /\ c.cmd \in Nat
      /\ c.ready => c.cmd # 0
  BY DEF ClientSound, ClientState
<1>2. /\ o \in ClientState /\ o.cmd = c.cmd /\ o.used = c.used /\ o.sendq = c.sendq
      /\ o.out = c.out /\ o.ready = c.ready /\ o.running = c.running
  BY <1>1, OptionTypes
<1> HIDE DEF o
<1>3. /\ p \in ClientState /\ p.cmd = c.cmd /\ p.used = c.used /\ p.sendq = c.sendq
      /\ p.out = c.out /\ p.ready = c.ready /\ p.running = c.running
  <2>1. pth \in Seq(Segments)
    BY <1>2 DEF ClientState, Legal
  <2> HIDE DEF pth
  <2> QED
    BY <1>2, <2>1 DEF ClientState
<1> HIDE DEF p
<1>4. /\ u \in ClientState /\ u.cmd = c.cmd + 1 /\ u.used = c.used /\ u.sendq = c.sendq
      /\ u.out = c.out /\ u.ready = c.ready /\ u.running = c.running /\ u.taken = <<>>
  <2> DEFINE x == p.cmd + 1
             y == <<>>
  <2>1. x \in Nat /\ x = c.cmd + 1 /\ y \in Seq(Message) /\ y = <<>>
    BY <1>1, <1>3
  <2>2. u = [p EXCEPT !.cmd = x, !.dst = dst, !.taken = y]
    OBVIOUS
  <2> HIDE DEF x, y, u
  <2> QED
    BY <1>3, <2>1, <2>2 DEF ClientState
<1> HIDE DEF u
<1>5. /\ f \in ClientState /\ f.cmd = c.cmd + 1 /\ f.used = us /\ f.sendq = {} /\ f.out = {}
      /\ f.ready = c.ready /\ f.running = FALSE /\ f.taken = <<>> /\ f.fresh = fr
      /\ f.token = u.token
  <2>1. us \in SUBSET Nat /\ fr \in BOOLEAN /\ 0 \in Nat
    BY <1>4 DEF ClientState
  <2>2. c.running = FALSE
    BY <1>1 DEF ClientState
  <2> HIDE DEF us, fr
  <2> QED
    BY <1>4, <2>1, <2>2 DEF ClientState
<1> HIDE DEF f
<1>6. f.used = c.used \cup {f.token} /\ f.fresh = (f.token \notin c.used) /\ f.token \in f.used
  BY <1>4, <1>5
<1>7. ClientSound(f)
  <2>1. DOMAIN f.taken = {}
    BY <1>5
  <2>2. ~(f.ready /\ f.cmd <= 1)
    BY <1>1, <1>5
  <2> QED
    BY <1>5, <2>1, <2>2 DEF ClientSound
<1>8. /\ \A r : r.req[1] \in Nat /\ Of(c, r) => Of(f, r)
      /\ \A m \in Message : Fits(c, m) => Fits(f, m)
  <2>1. f.fresh => f.token \notin c.used
    BY <1>6
  <2> QED
    BY <1>1, <1>5, <1>6, <2>1, NewCommandFits
<1>9. n \in Message /\ Fits(f, n)
  <2> DEFINE b == set_blocksize(f)
  <2>1. b \in 0..(Blocks - 1) \cup {None} /\ Reached(f, b)
    <3>1. f.num \in 0..(Blocks - 1) /\ Blocks \in Nat
      BY <1>5, CoapAssumption DEF ClientState
    <3>2. b = None \/ (b = f.num /\ Start(f) = f.num)
      BY DEF set_blocksize, Start
    <3>3. Start(f) \in Nat
      BY <3>1 DEF Start
    <3>4. ~(b > Start(f))
      BY <3>1, <3>2, <3>3 DEF None
    <3> QED
      BY <3>1, <3>2, <3>4 DEF Reached
  <2>2. /\ f.dst \in Places /\ f.method \in Codes /\ f.method # "empty"
        /\ f.path \in Seq(Segments) /\ f.observe \in BOOLEAN
    BY <1>5 DEF ClientState, Places, Codes, Methods
  <2>3. n = Request(f, f.dst, f.method, f.path, b, f.observe)
    BY DEF coap_new_request
  <2> HIDE DEF b, n
  <2> QED
    BY <1>5, <1>6, <2>1, <2>2, <2>3, RequestFits
<1> HIDE DEF n
<1>10. ClientSound(s) /\ Grows(f, s) /\ s.taken = f.taken /\ s.ready = f.ready
  BY <1>7, <1>9, SendFits
<1> HIDE DEF s
<1>11. s \in ClientState /\ WAIT_SECONDS \in 0..WAIT_SECONDS
  BY <1>10, CoapAssumption DEF ClientSound
<1>12. /\ d \in ClientState
       /\ d.running = TRUE /\ d.sendq = s.sendq /\ d.out = s.out
       /\ d.taken = s.taken /\ d.ready = s.ready
       /\ d.cmd = s.cmd /\ d.token = s.token /\ d.used = s.used /\ d.fresh = s.fresh
       /\ d.blocks = s.blocks /\ d.num = s.num
  BY <1>11 DEF ClientState
<1> HIDE DEF d
<1>13. Grows(s, d)
  BY <1>12 DEF Grows
<1>14. Grows(f, d)
  BY <1>10, <1>13, GrowsTransitive
<1>15. ClientSound(d)
  <2>1. (\A e \in d.sendq : Fits(d, e.pdu)) /\ (\A m \in d.out : Fits(d, m))
    BY <1>10, <1>12, <1>13, GrowsFits DEF ClientSound
  <2>2. d.token \in d.used /\ d.cmd # 0 /\ DOMAIN d.taken = {} /\ ~(d.ready /\ d.cmd <= 1)
    <3>1. d.token = f.token /\ d.used = f.used /\ d.cmd = f.cmd /\ d.taken = <<>>
      BY <1>5, <1>10, <1>12, <1>14 DEF Grows
    <3>2. d.ready = c.ready
      BY <1>5, <1>10, <1>12
    <3> QED
      BY <1>1, <1>5, <1>6, <3>1, <3>2
  <2> QED
    BY <1>12, <2>1, <2>2 DEF ClientSound
<1> QED
  BY <1>0, <1>5, <1>7, <1>8, <1>12, <1>14, <1>15, GrowsFits

-----------------------------------------------------------------------------
(***************************************************************************)
(* The server.                                                             *)
(***************************************************************************)

\* m is a request the server may read while the client is in state c.
Asks(c, m) ==
    /\ m \in Message /\ m.code # "empty" /\ ~m.more
    /\ m.from = "client" => Of(c, m)

\* What has the token and the request of something of a command is of the command.
LEMMA OfSame ==
    ASSUME NEW c, NEW r, NEW q, q.token = r.token, q.req = r.req, Of(c, r)
    PROVE  Of(c, q)
  BY DEF Of

\* A message without a block is never ahead.
LEMMA NoBlockReached ==
    ASSUME NEW c \in ClientState
    PROVE  Reached(c, None) /\ Reached(c, 0)
<1>1. Start(c) \in Nat
  BY CoapAssumption DEF ClientState, Start
<1> QED
  BY <1>1 DEF Reached, None

\* A handler's answer, and the server after it.
GoodAnswer(c, a) ==
    /\ ServerSound(c, a.s)
    /\ a.response \in Message
    /\ a.response.code # "empty" /\ a.response.to = "client" => Fits(c, a.response)

LEMMA AnswerGood ==
    ASSUME NEW c \in ClientState, NEW s, ServerSound(c, s), NEW m, Asks(c, m), NEW code \in Codes
    PROVE  /\ Answer(s, m, code).s = s
           /\ GoodAnswer(c, Answer(s, m, code))
           /\ Answer(s, m, code).response.to = m.from
           /\ Answer(s, m, code).response.req = m.req
           /\ Answer(s, m, code).response.token = m.token
           /\ Answer(s, m, code).response.code = code
<1> DEFINE type == IF m.type = "CON" THEN "ACK" ELSE "NON"
           a == [m EXCEPT !.to = m.from, !.from = m.to, !.code = code]
           pth == <<>>
           b == [a EXCEPT !.path = pth, !.type = type]
           no == FALSE
           r == [b EXCEPT !.num = None, !.obs = no]
           x == Answer(s, m, code)
<1>1. m \in Message /\ m.more = FALSE
  BY DEF Asks, Message
<1>2. /\ type \in {"CON", "NON", "ACK", "RST"} /\ pth \in Seq(Segments)
      /\ None \in 0..(Blocks - 1) \cup {None} /\ no \in BOOLEAN
  OBVIOUS
<1>3. x.s = s /\ x.response = r
  BY DEF Answer
<1> HIDE DEF type, pth, no, x
<1>4. /\ a \in Message /\ a.to = m.from /\ a.code = code /\ a.req = m.req /\ a.token = m.token
      /\ a.more = m.more
  BY <1>1 DEF Message
<1> HIDE DEF a
<1>5. /\ b \in Message /\ b.to = m.from /\ b.code = code /\ b.req = m.req /\ b.token = m.token
      /\ b.more = m.more
  BY <1>2, <1>4 DEF Message
<1> HIDE DEF b
<1>6. /\ r \in Message /\ r.to = m.from /\ r.code = code /\ r.req = m.req /\ r.token = m.token
      /\ r.more = m.more /\ r.num = None
  BY <1>2, <1>5 DEF Message
<1> HIDE DEF r
<1>7. r.code # "empty" /\ r.to = "client" => Fits(c, r)
  <2> SUFFICES ASSUME r.code # "empty", r.to = "client" PROVE Fits(c, r)
    OBVIOUS
  <2>1. Of(c, m)
    BY <1>6 DEF Asks
  <2>2. Of(c, r)
    BY <1>6, <2>1, OfSame
  <2>3. Reached(c, r.num)
    BY <1>6, NoBlockReached
  <2>4. WellFormed(r)
    BY <1>1, <1>6 DEF WellFormed
  <2> QED
    BY <2>2, <2>3, <2>4 DEF Fits
<1>8. GoodAnswer(c, x)
  BY <1>3, <1>6, <1>7 DEF GoodAnswer
<1> QED
  BY <1>1, <1>3, <1>6, <1>8 DEF x

\* A block of .well-known/core says that more come if it is not the last.
LEMMA CoreGood ==
    ASSUME NEW c \in ClientState, NEW s, ServerSound(c, s), NEW m, Asks(c, m),
           m.from = "client" => Fits(c, m)
    PROVE  GoodAnswer(c, CoreBlock(s, m))
<1> DEFINE n == IF m.num = None THEN 0 ELSE m.num
           more == n + 1 < Blocks
           a == Answer(s, m, "205")
           r == [a.response EXCEPT !.num = n, !.more = more]
           x == CoreBlock(s, m)
<1>1. Blocks \in Nat \ {0} /\ m \in Message
  BY CoapAssumption DEF Asks
<1>2. n \in 0..(Blocks - 1) /\ more \in BOOLEAN /\ (more => n \in 0..(Blocks - 2))
  BY <1>1 DEF Message, None
<1>3. /\ a.s = s /\ GoodAnswer(c, a) /\ a.response.to = m.from /\ a.response.req = m.req
      /\ a.response.token = m.token /\ a.response.code = "205"
  <2> DEFINE code == "205"
  <2>1. code \in Codes /\ a = Answer(s, m, code) /\ code = "205"
    BY DEF Codes
  <2> HIDE DEF code, a
  <2> QED
    BY <2>1, AnswerGood
<1>4. x.s = a.s /\ x.response = r
  <2>1. a = [s |-> s, response |-> a.response]
    BY DEF Answer
  <2> QED
    BY <2>1 DEF CoreBlock
<1> HIDE DEF more, a, x
<1>5. a.response \in Message
  BY <1>3 DEF GoodAnswer
<1>6. /\ r \in Message /\ r.to = m.from /\ r.req = m.req /\ r.token = m.token /\ r.code = "205"
      /\ r.num = n /\ r.more = more
  <2> HIDE DEF n
  <2> QED
    BY <1>2, <1>3, <1>5 DEF Message
<1> HIDE DEF r
<1>7. r.to = "client" => Fits(c, r)
  <2> SUFFICES ASSUME r.to = "client" PROVE Fits(c, r)
    OBVIOUS
  <2>1. Fits(c, m) /\ m.code # "empty"
    BY <1>6 DEF Asks
  <2>2. Of(c, r)
    BY <1>6, <2>1, OfSame DEF Fits
  <2>3. r.req[1] = c.cmd => Reached(c, r.num)
    BY <1>6, <2>1, NoBlockReached DEF Fits
  <2>4. WellFormed(r)
    BY <1>2, <1>6 DEF WellFormed
  <2> QED
    BY <2>2, <2>3, <2>4 DEF Fits
<1> QED
  BY <1>3, <1>4, <1>6, <1>7 DEF GoodAnswer, x

\* A new observer keeps the token of a request the server may read.
LEMMA ObserverSound ==
    ASSUME NEW c \in ClientState, NEW s, ServerSound(c, s), NEW m, Asks(c, m)
    PROVE  ServerSound(c, coap_add_observer(s, m))
<1> DEFINE non == m.type = "NON"
           o == [to |-> m.from, token |-> m.token, non |-> non, req |-> m.req]
           same == {p \in s.observers : p.to = o.to /\ p.token = o.token}
           again == {[p EXCEPT !.non = o.non] : p \in same}
           new == IF same = {} THEN {o} ELSE again
           os == (s.observers \ same) \cup new
           u == coap_add_observer(s, m)
<1>1. m \in Message /\ s \in ServerState
  BY DEF Asks, ServerSound
<1>2. o \in Observer /\ o.to = m.from /\ o.token = m.token /\ o.req = m.req
  BY <1>1 DEF Message, Observer
<1>3. u = [s EXCEPT !.observers = os]
  BY DEF coap_add_observer
<1> HIDE DEF o, u
<1>4. ASSUME NEW q \in os
      PROVE  q \in Observer /\ (q.to = "client" => Of(c, q))
  <2>1. CASE q \in s.observers
    BY <1>1, <2>1 DEF ServerState, ServerSound
  <2>2. CASE q = o
    BY <1>2, <2>2, OfSame DEF Asks
  <2>3. CASE q \in again
    <3>1. PICK p \in s.observers : q = [p EXCEPT !.non = o.non]
      BY <2>3
    <3>2. p \in Observer /\ (p.to = "client" => Of(c, p))
      BY <1>1 DEF ServerState, ServerSound
    <3>3. q \in Observer /\ q.to = p.to /\ q.token = p.token /\ q.req = p.req
      BY <1>2, <3>1, <3>2 DEF Observer
    <3> QED
      BY <3>2, <3>3, OfSame
  <2> QED
    BY <2>1, <2>2, <2>3
<1> HIDE DEF os
<1>5. os \in SUBSET Observer
  BY <1>4
<1>6. u \in ServerState /\ u.observers = os /\ u.async = s.async /\ u.out = s.out
  BY <1>1, <1>3, <1>5 DEF ServerState
<1>7. ServerSound(c, u)
  BY <1>4, <1>6 DEF ServerSound, OneAsync
<1> QED
  BY <1>7 DEF u

LEMMA TimeGood ==
    ASSUME NEW c \in ClientState, NEW s, ServerSound(c, s), NEW m, Asks(c, m)
    PROVE  GoodAnswer(c, hnd_get_time(s, m))
<1> DEFINE t == IF m.obs THEN coap_add_observer(s, m) ELSE s
           code == Exists(t)
           a == Answer(t, m, code)
           obs == m.obs \/ s.dirty
           r == [a.response EXCEPT !.obs = obs]
           x == hnd_get_time(s, m)
<1>1. m \in Message /\ s \in ServerState
  BY DEF Asks, ServerSound
<1>2. obs \in BOOLEAN
  BY <1>1 DEF Message, ServerState
<1>3. x = [a EXCEPT !.response.obs = obs]
  BY DEF hnd_get_time
<1>4. a = [s |-> t, response |-> a.response]
  BY DEF Answer
<1> HIDE DEF a, x, obs
<1>5. x.s = t /\ x.response = r
  BY <1>3, <1>4
<1>6. ServerSound(c, t)
  BY ObserverSound
<1>7. code \in Codes
  BY DEF Exists, Codes
<1> HIDE DEF t, code
<1>8. GoodAnswer(c, a) /\ a.s = t
  BY <1>6, <1>7, AnswerGood DEF a
<1>9. /\ r \in Message /\ r.to = a.response.to /\ r.code = a.response.code
      /\ r.req = a.response.req /\ r.token = a.response.token /\ r.more = a.response.more
      /\ r.num = a.response.num /\ r.type = a.response.type
  BY <1>2, <1>8 DEF GoodAnswer, Message, obs
<1> HIDE DEF r
<1>10. r.code # "empty" /\ r.to = "client" => Fits(c, r)
  <2> SUFFICES ASSUME r.code # "empty", r.to = "client" PROVE Fits(c, r)
    OBVIOUS
  <2>1. Fits(c, a.response)
    BY <1>8, <1>9 DEF GoodAnswer
  <2>2. Of(c, r)
    BY <1>9, <2>1, OfSame DEF Fits
  <2> QED
    BY <1>9, <2>1, <2>2 DEF Fits, WellFormed
<1>11. GoodAnswer(c, x)
  BY <1>5, <1>6, <1>9, <1>10 DEF GoodAnswer
<1> QED
  BY <1>11 DEF x

\* A change of the clock.
LEMMA ClockGood ==
    ASSUME NEW c \in ClientState, NEW s, ServerSound(c, s), NEW m, Asks(c, m), NEW base \in {0, 1}
    PROVE  GoodAnswer(c, hnd_put_time(s, m, base)) /\ GoodAnswer(c, hnd_delete_time(s, m))
<1> DEFINE yes == TRUE
           no == 0
           t == [s EXCEPT !.dirty = yes, !.my_clock_base = base]
           u == [s EXCEPT !.my_clock_base = no]
           code == IF s.my_clock_base # 0 THEN "204" ELSE "201"
           none == "empty"
<1>1. s \in ServerState
  BY DEF ServerSound
<1>2. code \in Codes /\ none \in Codes /\ yes \in BOOLEAN /\ no \in {0, 1}
  BY DEF Codes
<1>3. /\ hnd_put_time(s, m, base) = Answer(t, m, code)
      /\ hnd_delete_time(s, m) = Answer(u, m, none)
  BY DEF hnd_put_time, hnd_delete_time
<1> HIDE DEF yes, no, code, none
<1>4. /\ t \in ServerState /\ t.observers = s.observers /\ t.async = s.async /\ t.out = s.out
      /\ u \in ServerState /\ u.observers = s.observers /\ u.async = s.async /\ u.out = s.out
  BY <1>1, <1>2 DEF ServerState
<1> HIDE DEF t, u
<1>5. ServerSound(c, t) /\ ServerSound(c, u)
  BY <1>4 DEF ServerSound, OneAsync
<1> QED
  BY <1>2, <1>3, <1>5, AnswerGood

\* The request that is put off is kept with its token.
LEMMA AsyncGood ==
    ASSUME NEW c \in ClientState, NEW s, ServerSound(c, s), NEW m, Asks(c, m), NEW delay \in Nat
    PROVE  GoodAnswer(c, hnd_get_async(s, m, delay))
<1> DEFINE a == [to |-> m.from, id |-> m.id, token |-> m.token, left |-> delay, req |-> m.req]
           as == {a}
           ow == s.owed \cup {m.req}
           t == [s EXCEPT !.async = as, !.owed = ow]
           busy == IF \A b \in s.async : b.id = m.id THEN "empty" ELSE "503"
           none == "empty"
<1>1. m \in Message /\ s \in ServerState
  BY DEF Asks, ServerSound
<1>2. /\ a \in Async /\ a.to = m.from /\ a.token = m.token /\ a.req = m.req
      /\ ow \in SUBSET (Nat \X Nat) /\ busy \in Codes /\ none \in Codes
  BY <1>1 DEF Message, Async, ServerState, Codes
<1>3. hnd_get_async(s, m, delay) =
         IF s.async # {} THEN Answer(s, m, busy) ELSE Answer(t, m, none)
  BY DEF hnd_get_async
<1> HIDE DEF a, ow, busy, none
<1>4. as \in SUBSET Async
  BY <1>2
<1>5. t \in ServerState /\ t.observers = s.observers /\ t.async = {a} /\ t.out = s.out
  <2> HIDE DEF as
  <2>1. t \in ServerState /\ t.observers = s.observers /\ t.async = as /\ t.out = s.out
    BY <1>1, <1>2, <1>4 DEF ServerState
  <2> QED
    BY <2>1 DEF as
<1> HIDE DEF t
<1>6. m.from = "client" => Of(c, a)
  BY <1>2, OfSame DEF Asks
<1>7. ServerSound(c, t)
  BY <1>2, <1>5, <1>6 DEF ServerSound, OneAsync
<1> QED
  BY <1>2, <1>3, <1>7, AnswerGood

\* Whatever the resource and its handler.
LEMMA RequestGood ==
    ASSUME NEW c \in ClientState, NEW s, ServerSound(c, s), NEW m, Asks(c, m),
           m.from = "client" => Fits(c, m), NEW base \in {0, 1}, NEW delay \in Nat
    PROVE  GoodAnswer(c, handle_request(s, m, base, delay))
<1> DEFINE ok == "205"
           no == "405"
           un == "404"
<1>1. ok \in Codes /\ no \in Codes /\ un \in Codes
  BY DEF Codes
<1>2. handle_request(s, m, base, delay) \in
         {hnd_get_index(s, m), CoreBlock(s, m), hnd_get_time(s, m), hnd_put_time(s, m, base),
          hnd_delete_time(s, m), hnd_get_async(s, m, delay), Answer(s, m, no), Answer(s, m, un)}
  BY DEF handle_request
<1>3. hnd_get_index(s, m) = Answer(s, m, ok)
  BY DEF hnd_get_index
<1> HIDE DEF ok, no, un
<1>4. GoodAnswer(c, Answer(s, m, ok)) /\ GoodAnswer(c, Answer(s, m, no))
      /\ GoodAnswer(c, Answer(s, m, un))
  BY <1>1, AnswerGood
<1>5. GoodAnswer(c, CoreBlock(s, m)) /\ GoodAnswer(c, hnd_get_time(s, m))
      /\ GoodAnswer(c, hnd_put_time(s, m, base)) /\ GoodAnswer(c, hnd_delete_time(s, m))
      /\ GoodAnswer(c, hnd_get_async(s, m, delay))
  BY CoreGood, TimeGood, ClockGood, AsyncGood
<1> QED
  BY <1>2, <1>3, <1>4, <1>5

\* The server reads a message of the client, or a foreign request.
LEMMA ServerDispatchSound ==
    ASSUME NEW c \in ClientState, NEW s, ServerSound(c, s), NEW m \in Message, ~m.more,
           m.code = "empty" => m.type \in {"ACK", "RST"},
           m.from = "client" => Fits(c, m),
           NEW base \in {0, 1}, NEW delay \in Nat
    PROVE  ServerSound(c, ServerDispatch(s, m, base, delay))
<1>1. s \in ServerState
  BY DEF ServerSound
<1>2. CASE m.type = "RST"
  <2> DEFINE os == {o \in s.observers : o.req # m.req}
             u == [s EXCEPT !.observers = os]
  <2>1. os \in SUBSET Observer /\ os \subseteq s.observers
    BY <1>1 DEF ServerState
  <2>2. ServerDispatch(s, m, base, delay) = u
    BY <1>2 DEF ServerDispatch
  <2> HIDE DEF os
  <2>3. u \in ServerState /\ u.observers = os /\ u.async = s.async /\ u.out = s.out
    BY <1>1, <2>1 DEF ServerState
  <2> HIDE DEF u
  <2>4. ServerSound(c, u)
    BY <2>1, <2>3 DEF ServerSound, OneAsync
  <2> QED
    BY <2>2, <2>4
<1>3. CASE m.type = "ACK"
  BY <1>3 DEF ServerDispatch
<1>4. ASSUME NEW t, ServerSound(c, t), NEW r \in Message, r.to = "client" => Fits(c, r)
      PROVE  ServerSound(c, [t EXCEPT !.out = @ \cup {r}])
  <2> DEFINE o == t.out \cup {r}
             u == [t EXCEPT !.out = o]
  <2>1. t \in ServerState
    BY <1>4 DEF ServerSound
  <2>2. o \in SUBSET Message
    BY <2>1 DEF ServerState
  <2> HIDE DEF o
  <2>3. u \in ServerState /\ u.observers = t.observers /\ u.async = t.async /\ u.out = o
    BY <2>1, <2>2 DEF ServerState
  <2>4. [t EXCEPT !.out = @ \cup {r}] = u
    BY DEF o
  <2> HIDE DEF u
  <2>5. \A x \in o : x.to = "client" => Fits(c, x)
    BY <1>4 DEF ServerSound, o
  <2>6. ServerSound(c, u)
    BY <1>4, <2>3, <2>5 DEF ServerSound, OneAsync
  <2> QED
    BY <2>4, <2>6
<1>5. CASE m.type \notin {"RST", "ACK"} /\ m.code = "731"
  <2> DEFINE r == Empty(m, "RST")
             u == [s EXCEPT !.out = @ \cup {r}]
  <2>1. r \in Message /\ Fits(c, r)
    BY EmptyFits
  <2>2. ServerDispatch(s, m, base, delay) = u
    BY <1>5 DEF ServerDispatch
  <2> HIDE DEF r
  <2>3. ServerSound(c, u)
    BY <1>4, <2>1
  <2> QED
    BY <2>2, <2>3
<1>6. CASE m.type \notin {"RST", "ACK"} /\ m.code # "731"
  <2> DEFINE a == handle_request(s, m, base, delay)
             r == IF a.response.code = "empty" THEN Empty(m, "ACK") ELSE a.response
             u == [a.s EXCEPT !.out = @ \cup {r}]
  <2>1. Asks(c, m)
    BY <1>6 DEF Asks, Fits
  <2>2. GoodAnswer(c, a)
    BY <2>1, RequestGood
  <2>3. ServerDispatch(s, m, base, delay) \in {a.s, u}
    BY <1>6 DEF ServerDispatch
  <2> HIDE DEF a
  <2>4. Empty(m, "ACK") \in Message /\ Fits(c, Empty(m, "ACK"))
    BY EmptyFits
  <2>5. ServerSound(c, a.s) /\ r \in Message /\ (r.to = "client" => Fits(c, r))
    BY <2>2, <2>4 DEF GoodAnswer
  <2> HIDE DEF r
  <2>6. ServerSound(c, u)
    BY <1>4, <2>5
  <2> QED
    BY <2>3, <2>5, <2>6
<1> QED
  BY <1>2, <1>3, <1>5, <1>6

\* A message the server sends by itself is of whom it is about.
LEMMA OwnFits ==
    ASSUME NEW c \in ClientState, NEW s \in ServerState, NEW to \in Places,
           NEW type \in {"CON", "NON"}, NEW code \in {"205", "404"}, NEW token \in Nat,
           NEW obs \in BOOLEAN, NEW req \in Nat \X Nat,
           NEW r, r.token = token, r.req = req, Of(c, r)
    PROVE  Fits(c, Own(s, to, type, code, token, obs, req))
<1> DEFINE m == Own(s, to, type, code, token, obs, req)
<1>1. /\ m.token = token /\ m.req = req /\ m.code = code /\ m.more = FALSE /\ m.num = None
  BY DEF Own
<1> HIDE DEF m
<1>2. Of(c, m)
  BY <1>1, OfSame
<1>3. Reached(c, m.num)
  BY <1>1, NoBlockReached
<1>4. WellFormed(m)
  BY <1>1 DEF WellFormed
<1>5. Fits(c, m)
  BY <1>2, <1>3, <1>4 DEF Fits
<1> QED
  BY <1>5 DEF m

LEMMA OwnTypes ==
    ASSUME NEW s \in ServerState, NEW to \in Places,
           NEW type \in {"CON", "NON"}, NEW code \in {"205", "404"}, NEW token \in Nat,
           NEW obs \in BOOLEAN, NEW req \in Nat \X Nat
    PROVE  Own(s, to, type, code, token, obs, req) \in Message
                /\ Own(s, to, type, code, token, obs, req).to = to
<1>1. s.next \in Nat /\ "server" \in Places /\ code \in Codes
  BY DEF ServerState, Places, Codes
<1>2. <<0, s.next>> \in Nat \X Nat /\ <<>> \in Seq(Segments)
  BY <1>1
<1> QED
  BY <1>1, <1>2 DEF Own, Message

\* The answer that is due.
LEMMA CheckAsyncSound ==
    ASSUME NEW c \in ClientState, NEW s, ServerSound(c, s), NEW memory \in BOOLEAN
    PROVE  ServerSound(c, check_async(s, memory))
<1>1. s \in ServerState /\ OneAsync(s)
  BY DEF ServerSound
<1>2. CASE \A a \in s.async : a.left > 0
  BY <1>2 DEF check_async
<1>3. CASE ~ \A a \in s.async : a.left > 0
  <2> DEFINE a == CHOOSE x \in s.async : TRUE
  <2>1. a \in s.async
    BY <1>3
  <2>2. /\ a \in Async /\ (a.to = "client" => Of(c, a))
        /\ a.to \in Places /\ a.token \in Nat /\ a.req \in Nat \X Nat
    BY <1>1, <2>1 DEF ServerSound, ServerState, Async
  <2> HIDE DEF a
  <2>3. CASE memory
    <3> DEFINE m == Own(s, a.to, "CON", "205", a.token, FALSE, a.req)
               none == {}
               ow == s.owed \ {a.req}
               k == s.next + 1
               o == s.out \cup {m}
               u == [s EXCEPT !.async = none, !.owed = ow, !.next = k, !.out = o]
    <3>1. check_async(s, memory) = u
      BY <1>3, <2>3 DEF check_async, a
    <3>2. m \in Message /\ m.to = a.to /\ (m.to = "client" => Fits(c, m))
      <4> DEFINE type == "CON"
                 code == "205"
                 obs == FALSE
      <4>1. /\ m = Own(s, a.to, type, code, a.token, obs, a.req)
            /\ type \in {"CON", "NON"} /\ code \in {"205", "404"} /\ obs \in BOOLEAN
        OBVIOUS
      <4> HIDE DEF type, code, obs, m
      <4>2. m \in Message /\ m.to = a.to
        BY <1>1, <2>2, <4>1, OwnTypes
      <4>3. a.to = "client" => Fits(c, m)
        BY <1>1, <2>2, <4>1, OwnFits
      <4> QED
        BY <4>2, <4>3
    <3> HIDE DEF m
    <3>3. none \in SUBSET Async /\ ow \in SUBSET (Nat \X Nat) /\ k \in Nat /\ o \in SUBSET Message
      BY <1>1, <3>2 DEF ServerState
    <3>4. \A x \in o : x.to = "client" => Fits(c, x)
      BY <3>2 DEF ServerSound
    <3> HIDE DEF ow, k, o
    <3>5. u \in ServerState /\ u.observers = s.observers /\ u.async = {} /\ u.out = o
      <4>1. none = {}
        OBVIOUS
      <4> HIDE DEF none
      <4> QED
        BY <1>1, <3>3, <4>1 DEF ServerState
    <3> HIDE DEF u
    <3>6. ServerSound(c, u)
      BY <3>4, <3>5 DEF ServerSound, OneAsync
    <3> QED
      BY <3>1, <3>6
  <2>4. CASE ~memory
    <3> DEFINE one == 1
               b == [a EXCEPT !.left = one]
               as == {b}
               u == [s EXCEPT !.async = as]
    <3>1. check_async(s, memory) = u
      BY <1>3, <2>4 DEF check_async, a
    <3>2. b \in Async /\ b.to = a.to /\ b.token = a.token /\ b.req = a.req
      BY <2>2 DEF Async
    <3> HIDE DEF b
    <3>3. as \in SUBSET Async /\ as = {b} /\ (b.to = "client" => Of(c, b))
      BY <2>2, <3>2, OfSame
    <3> HIDE DEF as
    <3>4. u \in ServerState /\ u.observers = s.observers /\ u.async = as /\ u.out = s.out
      BY <1>1, <3>3 DEF ServerState
    <3> HIDE DEF u
    <3>5. ServerSound(c, u)
      BY <3>3, <3>4 DEF ServerSound, OneAsync
    <3> QED
      BY <3>1, <3>5
  <2> QED
    BY <2>3, <2>4
<1> QED
  BY <1>2, <1>3

\* A round of the loop leaves no observer without the news.
LEMMA RoundSound ==
    ASSUME NEW c \in ClientState, NEW s, ServerSound(c, s), NEW memory \in BOOLEAN
    PROVE  ServerSound(c, Round(s, memory)) /\ ~Round(s, memory).dirty
<1> DEFINE t == check_async(s, memory)
<1>1. ServerSound(c, t) /\ t \in ServerState
  BY CheckAsyncSound DEF ServerSound
<1>2. Round(s, memory) = coap_check_notify(t)
  BY DEF Round
<1> HIDE DEF t
<1>3. CASE ~t.dirty
  BY <1>1, <1>2, <1>3 DEF coap_check_notify
<1>4. CASE t.dirty
  <2> DEFINE type(o) == IF o.non THEN "NON" ELSE "CON"
             m(o) == Own(t, o.to, type(o), Exists(t), o.token, TRUE, o.req)
             new == {m(o) : o \in t.observers}
             no == FALSE
             k == t.next + 1
             out == t.out \cup new
             u == [t EXCEPT !.dirty = no, !.next = k, !.out = out]
  <2>1. coap_check_notify(t) = u
    BY <1>4 DEF coap_check_notify
  <2>2. ASSUME NEW o \in t.observers
        PROVE  m(o) \in Message /\ (m(o).to = "client" => Fits(c, m(o)))
    <3>1. /\ o.to \in Places /\ o.token \in Nat /\ o.req \in Nat \X Nat
          /\ o.to = "client" => Of(c, o)
      BY <1>1 DEF ServerSound, ServerState, Observer
    <3> DEFINE ty == type(o)
               code == Exists(t)
               obs == TRUE
               x == m(o)
    <3>2. /\ x = Own(t, o.to, ty, code, o.token, obs, o.req)
          /\ ty \in {"CON", "NON"} /\ code \in {"205", "404"} /\ obs \in BOOLEAN
      BY DEF Exists
    <3> HIDE DEF ty, code, obs, x
    <3>3. x \in Message /\ x.to = o.to
      BY <1>1, <3>1, <3>2, OwnTypes
    <3>4. o.to = "client" => Fits(c, x)
      BY <1>1, <3>1, <3>2, OwnFits
    <3>5. x \in Message /\ (x.to = "client" => Fits(c, x))
      BY <3>3, <3>4
    <3> QED
      BY <3>5 DEF x
  <2>3. new \subseteq Message /\ \A x \in new : x.to = "client" => Fits(c, x)
    BY <2>2
  <2> HIDE DEF m, new
  <2>4. no \in BOOLEAN /\ k \in Nat /\ out \in SUBSET Message
    BY <1>1, <2>3 DEF ServerState
  <2>5. \A x \in out : x.to = "client" => Fits(c, x)
    BY <1>1, <2>3 DEF ServerSound
  <2> HIDE DEF k, out
  <2>6. u \in ServerState /\ u.observers = t.observers /\ u.async = t.async /\ u.out = out
        /\ u.dirty = FALSE
    BY <1>1, <2>4 DEF ServerState
  <2> HIDE DEF u
  <2>7. ServerSound(c, u)
    BY <1>1, <2>5, <2>6 DEF ServerSound, OneAsync
  <2> QED
    BY <1>2, <2>1, <2>6, <2>7
<1> QED
  BY <1>3, <1>4

-----------------------------------------------------------------------------
(***************************************************************************)
(* The invariant.                                                          *)
(***************************************************************************)

LEMMA InitInv == Init => IInv
<1> SUFFICES ASSUME Init PROVE IInv
  OBVIOUS
<1>1. script \in ScriptState
  BY ScriptFacts DEF Init
<1>2. Blocks \in Nat \ {0} /\ WAIT_SECONDS \in Nat \ {0} /\ CLOCK_OFFSET \in {0, 1}
  BY CoapAssumption
<1>3. client \in ClientState
  <2>1. <<>> \in Seq(Segments) /\ <<>> \in Seq(Message) /\ 0 \in 0..(Blocks - 1)
        /\ 0 \in 0..WAIT_SECONDS
    BY <1>2
  <2> QED
    BY <2>1 DEF Init, Statics, ClientState, Methods
<1>4. ClientSound(client) /\ client.out = {} /\ client.sendq = {}
  <2>1. /\ client.out = {} /\ client.sendq = {} /\ client.running = FALSE
        /\ client.taken = <<>> /\ client.ready = FALSE
    BY DEF Init, Statics
  <2>2. DOMAIN client.taken = {}
    BY <2>1
  <2> QED
    BY <1>3, <2>1, <2>2 DEF ClientSound
<1>5. ServerSound(client, server) /\ server.out = {} /\ ~server.dirty
  <2>1. server \in ServerState
    BY <1>2 DEF Init, init_resources, ServerState
  <2>2. server.out = {} /\ ~server.dirty /\ server.async = {} /\ server.observers = {}
    BY DEF Init, init_resources
  <2> QED
    BY <2>1, <2>2 DEF ServerSound, OneAsync
<1> QED
  BY <1>1, <1>4, <1>5 DEF Init, IInv

\* The client after a step, and what it sends.
LEMMA ClientStep ==
    ASSUME IInv, NEW d, ClientSound(d), d.running \/ d.sendq = {},
           ServerSound(d, server), NEW frames \in SUBSET net,
           \A m \in net : Fits(d, m),
           ClientBecomes(d, frames), script' \in ScriptState
    PROVE  IInv'
<1> DEFINE e == [d EXCEPT !.out = {}]
<1>1. client' = e /\ server' = server /\ net' = frames \cup {m \in d.out : m.to = "server"}
  BY DEF ClientBecomes
<1>2. /\ ClientSound(e) /\ Grows(d, e) /\ e.out = {} /\ e.running = d.running
      /\ e.sendq = d.sendq
  BY SentSound
<1> HIDE DEF e
<1>3. ServerSound(e, server)
  BY <1>2, GrowsServer
<1>4. d.out \subseteq Message /\ net \subseteq Message
  BY DEF ClientSound, ClientState, IInv
<1>5. net' \subseteq Message
  BY <1>1, <1>4
<1>6. \A m \in net' : Fits(e, m)
  BY <1>1, <1>2, GrowsFits DEF ClientSound
<1> QED
  BY <1>1, <1>2, <1>3, <1>5, <1>6 DEF IInv

\* What goes on within a command.
LEMMA ClientGrows ==
    ASSUME IInv, NEW d, ClientSound(d), Grows(client, d), d.running \/ d.sendq = {},
           NEW frames \in SUBSET net, ClientBecomes(d, frames), UNCHANGED script
    PROVE  IInv'
<1>1. ServerSound(d, server)
  BY GrowsServer DEF IInv
<1>2. \A m \in net : Fits(d, m)
  BY GrowsFits DEF IInv
<1>3. script' \in ScriptState
  BY DEF IInv
<1> QED
  BY <1>1, <1>2, <1>3, ClientStep

\* The server after a step, and what it sends to the client.
LEMMA ServerStep ==
    ASSUME IInv, NEW s, ServerSound(client, s), ~s.dirty, NEW frames \in SUBSET net,
           ServerBecomes(s, frames), script' \in ScriptState
    PROVE  IInv'
<1> DEFINE none == {}
           t == [s EXCEPT !.out = none]
<1>1. client' = client /\ server' = t /\ net' = frames \cup {m \in s.out : m.to = "client"}
  BY DEF ServerBecomes
<1>2. s \in ServerState /\ none \in SUBSET Message /\ none = {}
  BY DEF ServerSound
<1> HIDE DEF none
<1>3. /\ t \in ServerState /\ t.observers = s.observers /\ t.async = s.async /\ t.out = {}
      /\ t.dirty = s.dirty
  BY <1>2 DEF ServerState
<1> HIDE DEF t
<1>4. ServerSound(client, t)
  BY <1>3 DEF ServerSound, OneAsync
<1>5. s.out \subseteq Message /\ net \subseteq Message
  BY <1>2 DEF ServerState, IInv
<1>6. net' \subseteq Message
  BY <1>1, <1>5
<1>7. \A m \in net' : Fits(client, m)
  BY <1>1 DEF IInv, ServerSound
<1> QED
  BY <1>1, <1>3, <1>4, <1>6, <1>7 DEF IInv

LEMMA CommandInv ==
    ASSUME IInv, NEW dst \in {"server", "nowhere"}, NEW has_context \in BOOLEAN,
           Command(dst, has_context)
    PROVE  IInv'
<1> DEFINE k == Head(script.user)
           d == coap_cmd(client, k, dst, has_context)
<1>1. /\ ~client.running /\ script.user # <<>> /\ Memory(has_context)
      /\ script' = [Without(has_context) EXCEPT !.user = Tail(@)]
      /\ ClientBecomes(d, net)
  BY DEF Command
<1>2. /\ ClientSound(client) /\ client.sendq = {} /\ client.out = {}
      /\ script \in ScriptState /\ ServerSound(client, server) /\ server.out = {}
      /\ net \subseteq Message /\ \A m \in net : Fits(client, m)
  BY <1>1 DEF IInv
<1>3. script' \in ScriptState /\ k \in Commands
  BY <1>1, <1>2, ScriptSteps
<1>4. Legal(k)
  BY <1>3, ScriptFacts
<1> HIDE DEF k
<1>5. /\ ClientSound(d)
      /\ d.running \/ d.sendq = {}
      /\ \A r : r.req[1] \in Nat /\ Of(client, r) => Of(d, r)
      /\ \A m \in Message : Fits(client, m) => Fits(d, m)
  BY <1>1, <1>2, <1>4, CommandSound
<1> HIDE DEF d
<1>6. ServerSound(d, server)
  <2>1. \A r \in server.async \cup server.observers : r.req[1] \in Nat
    BY <1>2 DEF ServerSound, ServerState, Async, Observer
  <2> QED
    BY <1>2, <1>5, <2>1 DEF ServerSound
<1>7. \A m \in net : Fits(d, m)
  BY <1>2, <1>5
<1> QED
  BY <1>1, <1>3, <1>5, <1>6, <1>7, ClientStep

LEMMA RetransmitInv == IInv /\ Retransmit => IInv'
<1> SUFFICES ASSUME IInv, Retransmit PROVE IInv'
  OBVIOUS
<1>1. PICK e \in client.sendq : ClientBecomes(coap_retransmit(client, e), net)
  BY DEF Retransmit
<1>2. ClientSound(client) /\ client.running /\ UNCHANGED script
  BY DEF IInv, Retransmit, LoopOn
<1>3. /\ ClientSound(coap_retransmit(client, e)) /\ Grows(client, coap_retransmit(client, e))
      /\ coap_retransmit(client, e).running
  BY <1>2, RetransmitSound
<1> QED
  BY <1>1, <1>2, <1>3, ClientGrows

LEMMA ClientReadsInv ==
    ASSUME IInv, NEW m \in net, ClientReads(m)
    PROVE  IInv'
<1> DEFINE d == Dispatch(client, m)
           t == Timers(d)
<1>1. /\ ClientSound(client) /\ client.running /\ m \in Message /\ Fits(client, m)
      /\ ClientBecomes(t, net \ {m}) /\ UNCHANGED script
  BY DEF IInv, ClientReads, LoopOn
<1>2. ClientSound(d) /\ Grows(client, d) /\ d.running
  BY <1>1, DispatchSound
<1> HIDE DEF d
<1>3. ClientSound(t) /\ Grows(d, t) /\ (t.running \/ t.sendq = {})
  BY <1>2, TimersSound
<1> HIDE DEF t
<1>4. Grows(client, t)
  BY <1>2, <1>3, GrowsTransitive
<1> QED
  BY <1>1, <1>3, <1>4, ClientGrows

LEMMA ClientPollsInv == IInv /\ ClientPolls => IInv'
<1> SUFFICES ASSUME IInv, ClientPolls PROVE IInv'
  OBVIOUS
<1>1. /\ ClientSound(client) /\ client.running
      /\ ClientBecomes(Timers(client), net) /\ UNCHANGED script
  BY DEF IInv, ClientPolls, LoopOn
<1>2. /\ ClientSound(Timers(client)) /\ Grows(client, Timers(client))
      /\ Timers(client).running \/ Timers(client).sendq = {}
  BY <1>1, TimersSound
<1> QED
  BY <1>1, <1>2, ClientGrows

LEMMA ClientIsReadyInv == IInv /\ ClientIsReady => IInv'
<1> SUFFICES ASSUME IInv, ClientIsReady PROVE IInv'
  OBVIOUS
<1>1. ClientSound(client) /\ ClientBecomes(Ended(client), net) /\ UNCHANGED script
  BY DEF IInv, ClientIsReady
<1>2. ClientSound(Ended(client)) /\ Grows(client, Ended(client)) /\ Ended(client).sendq = {}
  BY <1>1, EndedSound
<1> QED
  BY <1>1, <1>2, ClientGrows

LEMMA UnreadInv ==
    ASSUME IInv, NEW m \in net, Unread(m)
    PROVE  IInv'
<1>1. /\ ClientSound(client) /\ (client.running \/ client.sendq = {})
      /\ ClientBecomes(client, net \ {m}) /\ UNCHANGED script
  BY DEF IInv, Unread
<1>2. Grows(client, client)
  BY DEF Grows
<1> QED
  BY <1>1, <1>2, ClientGrows

LEMMA ServerReadsInv ==
    ASSUME IInv, NEW m \in net, ServerReads(m)
    PROVE  IInv'
<1>1. PICK delay \in Delays, enough \in {TRUE, ~Due} :
         /\ Memory(enough)
         /\ script' = Without(enough)
         /\ ServerBecomes(Round(ServerDispatch(server, m, CLOCK_OFFSET, delay), enough),
                          net \ {m})
  BY DEF ServerReads
<1>2. /\ client \in ClientState /\ ServerSound(client, server) /\ script \in ScriptState
      /\ m \in Message /\ Fits(client, m) /\ m.to = "server"
  BY DEF IInv, ServerReads, ClientSound
<1>3. /\ ~m.more /\ (m.code = "empty" => m.type \in {"ACK", "RST"})
      /\ delay \in Nat /\ enough \in BOOLEAN /\ CLOCK_OFFSET \in {0, 1}
  BY <1>2, CoapAssumption DEF Fits, WellFormed, Due
<1> DEFINE s == ServerDispatch(server, m, CLOCK_OFFSET, delay)
           t == Round(s, enough)
<1>4. ServerSound(client, s)
  BY <1>2, <1>3, ServerDispatchSound
<1> HIDE DEF s
<1>5. ServerSound(client, t) /\ ~t.dirty
  BY <1>2, <1>3, <1>4, RoundSound
<1>6. ServerBecomes(t, net \ {m})
  BY <1>1 DEF s
<1>7. script' \in ScriptState
  BY <1>1, <1>2, <1>3, ScriptSteps
<1> HIDE DEF t
<1> QED
  BY <1>5, <1>6, <1>7, ServerStep

LEMMA ServerPollsInv == IInv /\ ServerPolls => IInv'
<1> SUFFICES ASSUME IInv, ServerPolls PROVE IInv'
  OBVIOUS
<1>1. PICK enough \in BOOLEAN :
         /\ Memory(enough)
         /\ script' = Without(enough)
         /\ ServerBecomes(Round(server, enough), net)
  BY DEF ServerPolls
<1>2. client \in ClientState /\ ServerSound(client, server) /\ script \in ScriptState
  BY DEF IInv, ClientSound
<1>3. ServerSound(client, Round(server, enough)) /\ ~Round(server, enough).dirty
  BY <1>2, RoundSound
<1>4. script' \in ScriptState
  BY <1>1, <1>2, ScriptSteps
<1> QED
  BY <1>1, <1>3, <1>4, ServerStep

LEMMA ServerReadsForeignInv == IInv /\ ServerReadsForeign => IInv'
<1> SUFFICES ASSUME IInv, ServerReadsForeign PROVE IInv'
  OBVIOUS
<1> DEFINE m == ForeignRequest
<1>1. PICK base \in {0, 1}, delay \in Delays, enough \in {TRUE, ~Due} :
         /\ Memory(enough)
         /\ script' = [Without(enough) EXCEPT !.others = Tail(@)]
         /\ ServerBecomes(Round(ServerDispatch(server, m, base, delay), enough), net)
  BY DEF ServerReadsForeign
<1>2. /\ client \in ClientState /\ ServerSound(client, server) /\ script \in ScriptState
      /\ script.others # <<>>
  BY DEF IInv, ServerReadsForeign, ClientSound
<1>3. delay \in Nat /\ enough \in BOOLEAN
  BY CoapAssumption DEF Due
<1>4. /\ script' \in ScriptState
      /\ Head(script.others) \in [code : Methods, path : Seq(Segments)]
  BY <1>1, <1>2, <1>3, ScriptSteps
<1>5. m \in Message /\ ~m.more /\ m.from = "other" /\ m.code # "empty"
  <2> DEFINE h == Head(script.others)
             id == <<0, Len(script.others)>>
  <2>1. h.code \in Methods /\ h.path \in Seq(Segments)
    BY <1>4
  <2>2. id \in Nat \X Nat
    BY <1>2 DEF ScriptState
  <2>3. m = [to |-> "server", from |-> "other", type |-> "CON", code |-> h.code, id |-> id,
             token |-> 0, path |-> h.path, num |-> None, more |-> FALSE, obs |-> FALSE,
             req |-> id]
    BY DEF ForeignRequest
  <2> HIDE DEF h, id, m
  <2> QED
    BY <2>1, <2>2, <2>3 DEF Message, Places, Codes, Methods
<1> HIDE DEF m
<1> DEFINE s == ServerDispatch(server, m, base, delay)
           t == Round(s, enough)
<1>6. ServerSound(client, s)
  BY <1>2, <1>3, <1>5, ServerDispatchSound
<1> HIDE DEF s
<1>7. ServerSound(client, t) /\ ~t.dirty
  BY <1>2, <1>3, <1>6, RoundSound
<1>8. ServerBecomes(t, net)
  BY <1>1 DEF s
<1> HIDE DEF t
<1> QED
  BY <1>4, <1>7, <1>8, ServerStep

LEMMA LoseInv ==
    ASSUME IInv, NEW m \in net, Lose(m)
    PROVE  IInv'
<1>1. /\ script.losses > 0 /\ script' = [script EXCEPT !.losses = @ - 1]
      /\ net' = net \ {m} /\ client' = client /\ server' = server
  BY DEF Lose
<1>2. script' \in ScriptState
  BY <1>1 DEF IInv, ScriptState
<1> QED
  BY <1>1, <1>2 DEF IInv

LEMMA TickInv == IInv /\ Tick => IInv'
<1> SUFFICES ASSUME IInv, Tick PROVE IInv'
  OBVIOUS
<1> DEFINE w == IF client.running THEN Less(client.max_wait) ELSE client.max_wait
           o == Less(client.obs_wait)
           d == [client EXCEPT !.max_wait = w, !.obs_wait = o]
           as == {[a EXCEPT !.left = Less(@)] : a \in server.async}
           t == [server EXCEPT !.async = as]
<1>1. client' = d /\ server' = t /\ net' = net /\ script' = script
  BY DEF Tick
<1>2. client \in ClientState /\ server \in ServerState
  BY DEF IInv, ClientSound, ServerSound
<1>3. w \in 0..WAIT_SECONDS /\ o \in Nat \cup {None}
  <2>1. /\ client.max_wait \in 0..WAIT_SECONDS /\ client.obs_wait \in Nat \cup {None}
        /\ WAIT_SECONDS \in Nat
    BY <1>2, CoapAssumption DEF ClientState
  <2>2. Less(client.max_wait) \in 0..WAIT_SECONDS
    BY <2>1 DEF Less
  <2>3. Less(client.obs_wait) \in Nat \cup {None}
    BY <2>1 DEF Less, None
  <2> QED
    BY <2>1, <2>2, <2>3
<1> HIDE DEF w, o
<1>4. /\ d \in ClientState
      /\ d.running = client.running /\ d.sendq = client.sendq /\ d.out = client.out
      /\ d.taken = client.taken /\ d.ready = client.ready
      /\ d.cmd = client.cmd /\ d.token = client.token /\ d.used = client.used
      /\ d.fresh = client.fresh /\ d.blocks = client.blocks /\ d.num = client.num
  BY <1>2, <1>3 DEF ClientState
<1> HIDE DEF d
<1>5. Grows(client, d)
  BY <1>4 DEF Grows
<1>6. ClientSound(d)
  BY <1>4, <1>5, StaysSound DEF IInv
<1>7. ASSUME NEW b \in as
      PROVE  \E a \in server.async :
                b \in Async /\ b.to = a.to /\ b.token = a.token /\ b.req = a.req
  <2>1. PICK a \in server.async : b = [a EXCEPT !.left = Less(a.left)]
    BY DEF as
  <2>2. a \in Async
    BY <1>2 DEF ServerState
  <2>3. Less(a.left) \in Nat
    BY <2>2 DEF Async, Less
  <2> QED
    BY <2>1, <2>2, <2>3 DEF Async
<1>8. as = {} \/ \E b \in as : as = {b}
  BY DEF IInv, ServerSound, OneAsync
<1> HIDE DEF as
<1>9. as \in SUBSET Async
  BY <1>7
<1>10. /\ t \in ServerState /\ t.observers = server.observers /\ t.async = as
       /\ t.out = server.out /\ t.dirty = server.dirty
  BY <1>2, <1>9 DEF ServerState
<1> HIDE DEF t
<1>11. \A b \in as : b.to = "client" => Of(client, b)
  BY <1>7, OfSame DEF IInv, ServerSound
<1>12. ServerSound(client, t)
  BY <1>8, <1>10, <1>11 DEF IInv, ServerSound, OneAsync
<1>13. ServerSound(d, t)
  BY <1>5, <1>12, GrowsServer
<1>14. \A m \in net : Fits(d, m)
  BY <1>5, GrowsFits DEF IInv
<1> QED
  BY <1>1, <1>4, <1>6, <1>10, <1>13, <1>14 DEF IInv

LEMMA StepInv == IInv /\ [Next]_vars => IInv'
<1> SUFFICES ASSUME IInv, [Next]_vars PROVE IInv'
  OBVIOUS
<1>1. CASE UNCHANGED vars
  BY <1>1 DEF vars, IInv
<1>2. CASE Next
  BY <1>2, CommandInv, RetransmitInv, ClientReadsInv, ClientPollsInv, ClientIsReadyInv,
     UnreadInv, ServerReadsInv, ServerPollsInv, ServerReadsForeignInv, LoseInv, TickInv, Zenon
  DEF Next
<1> QED
  BY <1>1, <1>2

LEMMA AlwaysInv == Spec => []IInv
  BY InitInv, StepInv, PTL DEF Spec

-----------------------------------------------------------------------------
(***************************************************************************)
(* The theorems.                                                           *)
(***************************************************************************)

\* At any time at most one asynchronous request is remembered, everything that
\* was to be sent is on its way, a command that is over sends nothing again,
\* and no message names a block that does not exist.
THEOREM TypeCorrect == Spec => []TypeOK
<1>1. IInv => TypeOK
  <2> SUFFICES ASSUME IInv PROVE TypeOK
    OBVIOUS
  <2>1. client \in ClientState /\ server \in ServerState /\ OneAsync(server)
    BY DEF IInv, ClientSound, ServerSound
  <2>2. Cardinality(server.async) <= 1
    <3>1. CASE server.async = {}
      BY <3>1, FS_EmptySet
    <3>2. CASE \E a \in server.async : server.async = {a}
      <4>1. PICK a \in server.async : server.async = {a}
        BY <3>2
      <4>2. Cardinality({a}) = 1
        BY FS_Singleton
      <4> QED
        BY <4>1, <4>2
    <3> QED
      BY <2>1, <3>1, <3>2 DEF OneAsync
  <2>3. /\ client.max_wait \in 0..WAIT_SECONDS /\ client.obs_wait \in Nat \cup {None}
        /\ client.method \in Methods /\ client.path \in Seq(Segments)
        /\ server.my_clock_base \in {0, 1}
    BY <2>1 DEF ClientState, ServerState
  <2>4. \A m \in net : m.num \in 0..(Blocks - 1) \cup {None}
    BY DEF IInv, Message
  <2> QED
    BY <2>2, <2>3, <2>4 DEF TypeOK, IInv
<1> QED
  BY <1>1, AlwaysInv, PTL

\* A command that has a token of its own takes no answer to an earlier request,
\* however late it comes and wherever it has waited.
THEOREM AnswersAreOwn == Spec => []OwnAnswers
<1>1. IInv => OwnAnswers
  BY DEF IInv, ClientSound, OwnAnswers
<1> QED
  BY <1>1, AlwaysInv, PTL

\* What such a command puts out has no holes, whatever is lost, repeated or late.
THEOREM BlocksAreInOrder == Spec => []BlocksFollow
<1>1. IInv => BlocksFollow
  BY DEF IInv, ClientSound, BlocksFollow, Start
<1> QED
  BY <1>1, AlwaysInv, PTL

\* The first command ends when its time is over, or with an answer after which
\* no block is missing.
THEOREM FirstIsAnswered == Spec => EndsAnswered
<1>1. IInv /\ [Next]_vars =>
         [client.cmd = 1 /\ client.running /\ ~client'.running
            => \/ client'.max_wait = 0
               \/ \E i \in DOMAIN client.taken : ~client.taken[i].more]_vars
  <2> SUFFICES ASSUME IInv, Next, client.cmd = 1, client.running, ~client'.running
               PROVE  client'.max_wait = 0 \/ Answered(client)
    BY DEF Answered, vars
  <2>1. ClientSound(client)
    BY DEF IInv
  <2>2. ASSUME NEW d, ClientSound(d), d.running, NEW frames,
               ClientBecomes(Timers(d), frames)
        PROVE  client'.max_wait = 0
    <3>1. ClientSound(Timers(d)) /\ (~Timers(d).running => Timers(d).max_wait = 0)
      BY <2>2, TimersSound
    <3>2. client' = [Timers(d) EXCEPT !.out = {}]
      BY <2>2 DEF ClientBecomes
    <3> QED
      BY <3>1, <3>2, SentSound
  <2>3. ASSUME NEW m \in net, ClientReads(m) PROVE client'.max_wait = 0
    <3>1. ClientSound(Dispatch(client, m)) /\ Dispatch(client, m).running
      BY <2>1, <2>3, DispatchSound DEF IInv
    <3> QED
      BY <2>2, <2>3, <3>1 DEF ClientReads
  <2>4. CASE ClientPolls
    BY <2>1, <2>2, <2>4 DEF ClientPolls
  <2>5. CASE ClientIsReady
    <3>1. client.ready
      BY <2>5 DEF ClientIsReady, LoopOn
    <3> QED
      BY <2>1, <3>1 DEF ClientSound
  <2>6. CASE Retransmit
    <3>1. PICK e \in client.sendq : ClientBecomes(coap_retransmit(client, e), net)
      BY <2>6 DEF Retransmit
    <3> DEFINE d == coap_retransmit(client, e)
    <3>2. ClientSound(d) /\ d.running
      BY <2>1, RetransmitSound
    <3>3. client' = [d EXCEPT !.out = {}]
      BY <3>1 DEF ClientBecomes
    <3> HIDE DEF d
    <3> QED
      BY <3>2, <3>3, SentSound
  <2>7. CASE Tick
    <3>1. client'.running = client.running
      BY <2>1, <2>7 DEF Tick, ClientSound, ClientState
    <3> QED
      BY <3>1
  <2>8. CASE client' = client
    BY <2>8
  <2>9. \/ \E m \in net : ClientReads(m)
        \/ ClientPolls
        \/ ClientIsReady
        \/ Retransmit
        \/ Tick
        \/ client' = client
    <3>1. ASSUME NEW dst \in {"server", "nowhere"}, NEW has_context \in BOOLEAN,
                 Command(dst, has_context)
          PROVE  FALSE
      BY <3>1 DEF Command
    <3>2. ASSUME NEW m \in net, Unread(m) PROVE FALSE
      BY <3>2 DEF Unread
    <3>3. ASSUME NEW m \in net, ServerReads(m) PROVE client' = client
      BY <3>3 DEF ServerReads, ServerBecomes
    <3>4. ASSUME NEW m \in net, Lose(m) PROVE client' = client
      BY <3>4 DEF Lose
    <3>5. CASE ServerPolls
      BY <3>5 DEF ServerPolls, ServerBecomes
    <3>6. CASE ServerReadsForeign
      BY <3>6 DEF ServerReadsForeign, ServerBecomes
    <3> QED
      BY <3>1, <3>2, <3>3, <3>4, <3>5, <3>6, Zenon DEF Next
  <2> QED
    BY <2>3, <2>4, <2>5, <2>6, <2>7, <2>8, <2>9
<1> QED
  BY <1>1, AlwaysInv, PTL DEF Spec, EndsAnswered

=============================================================================
