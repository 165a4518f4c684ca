---------------------------- MODULE DemoNetProofs ----------------------------
(***************************************************************************)
(* Proofs about DemoNet for every network of nodes that run the programs   *)
(* of the demos, every budget of commands, all addresses and texts.        *)
(*                                                                         *)
(* Every handler is shown to leave a good node good and its server as it   *)
(* is, from what the helpers of DemoNode do to a record; only "server"     *)
(* starts one.                                                             *)
(***************************************************************************)
EXTENDS DemoNet, SequenceTheorems, TLAPS

\* The fields of a node's record.
Fields ==
    {"program", "board", "id", "hw", "global", "is_root", "provider", "nc", "ignored", "tcmd",
     "monitor", "ll", "shown", "status", "server", "socket", "served", "port", "inbox", "peer",
     "left", "sender", "dest", "led", "buffer", "rmsgs"}

\* 16-bit addresses and ports, their last bytes, the addresses a host can have, the
\* answers RUM2 still owes and the states of a node.
Ids == 0..(Word - 1)
LowBytes == 0..255
Hosts == 1..255
Owed == 0..3
States == {"up", "stuck", "broken"}

\* What datagrams carry, and the datagrams that may be on their way.
Words == Texts \cup {"answer", "temperature", "CONFIRM", "WARN", "ALARM", "none"} \cup Nat
Contents == Seq(Words)
Datagrams ==
    [from : Hosts, by : Nat, at : LowBytes, hops : 0..HopLimit, prefix : {"fe80", "abcd"},
     to : Ids, port : Ids, data : Contents]

\* An answer of RUM or RUM2 is on its way to the node that asked.
Letters == {m \in Datagrams : m.data[1] = "answer" => m.to = m.data[2]}

\* A node of the right shape: its fields and their types.
IsNode(x) == DOMAIN x = Fields
IsTyped(x) ==
    /\ x.program \in Programs /\ x.board \in Nat /\ x.status \in States
    /\ x.id \in Ids /\ x.hw \in LowBytes /\ x.port \in Ids /\ x.dest \in LowBytes
    /\ x.inbox \in Seq(Datagrams) /\ x.left \in Owed /\ x.peer \in LowBytes
    /\ x.is_root \in BOOLEAN /\ x.provider \in BOOLEAN /\ x.sender \in BOOLEAN
    /\ x.server \in BOOLEAN /\ x.socket \in BOOLEAN /\ x.served \in BOOLEAN
    /\ x.tcmd \in BOOLEAN /\ x.monitor \in BOOLEAN

\* Only RUM2 owes answers, and then to a host whose address fits into a byte.
Answering(x) == x.left # 0 => x.program = "RUM2" /\ x.peer \in Hosts

\* With udpif.c the thread that serves UDP has its socket, unless that could not be
\* opened or bound and the shell does not come to its turn any more.
WithUdpif == {"RUM2", "cebit_router", "light", "accel_udp"}
OneThread(x) ==
    /\ x.served => x.socket
    /\ x.program \in WithUdpif /\ x.status = "up" /\ x.server => x.socket

\* The part of the inductive invariant that is about one node.
NodeGood(x) == IsNode(x) /\ IsTyped(x) /\ Answering(x) /\ OneThread(x)

\* y is as good as x and differs in nothing that concerns x's server or its answers.
Alike(x, y) ==
    /\ IsNode(y) /\ IsTyped(y)
    /\ y.program = x.program /\ y.left = x.left /\ y.peer = x.peer
    /\ y.server = x.server /\ y.socket = x.socket /\ y.served = x.served /\ y.port = x.port
    /\ y.status \in {x.status, "broken"}

\* A node alike to a good one is good.
LEMMA AlikeGood ==
    ASSUME NEW x, NodeGood(x), NEW y, Alike(x, y)
    PROVE  NodeGood(y)
<1>1. IsNode(y) /\ IsTyped(y)
    BY DEF Alike
<1>2. Answering(y)
    BY DEF Alike, Answering, NodeGood
<1>3. OneThread(y)
    BY DEF Alike, OneThread, NodeGood
<1> QED BY <1>1, <1>2, <1>3 DEF NodeGood

\* Steps that leave nodes alike can follow each other.
LEMMA AlikeTrans ==
    ASSUME NEW x, NEW y, NEW z, Alike(x, y), Alike(y, z)
    PROVE  Alike(x, z)
BY DEF Alike

\* 16 bits.
LEMMA WordIs == Word \in Nat /\ Word = 65536
BY DEF Word

\* A conversion to 16 bits yields 16 bits.
LEMMA ModIsId == \A i \in Nat : i % Word \in Ids
<1>1. \A w \in Nat \ {0} : \A i \in Nat : i % w \in 0..(w - 1)
    OBVIOUS
<1>2. Word \in Nat \ {0}
    BY WordIs
<1> QED BY <1>1, <1>2, Zenon DEF Ids

\* A thread on the stack of another breaks the node.
LEMMA BrokenAlike ==
    ASSUME NEW x, IsNode(x), IsTyped(x)
    PROVE  Alike(x, Broken(x))
BY DEF Alike, IsNode, Fields, IsTyped, Broken, States

\* "set" converts what is entered to 16 bits.
LEMMA SetIdAlike ==
    ASSUME NEW x, IsNode(x), IsTyped(x), NEW i \in Nat
    PROVE  Alike(x, SetId(x, i))
<1>1. i % Word \in Ids
    BY ModIsId
<1> QED BY <1>1 DEF Alike, IsNode, Fields, IsTyped, SetId

\* fill_nc() fills the neighbour cache.
LEMMA NeighboursAlike ==
    ASSUME NEW x, IsNode(x), IsTyped(x), NEW S
    PROVE  Alike(x, WithNeighbours(x, S))
BY DEF Alike, IsNode, Fields, IsTyped, WithNeighbours

\* The ranges are within each other.
LEMMA IdsAreNat == Ids \subseteq Nat /\ LowBytes \subseteq Ids /\ Hosts \subseteq LowBytes
<1>1. Word \in Nat /\ Word > 256
    BY WordIs
<1>2. Ids \subseteq Nat
    BY <1>1 DEF Ids
<1>3. LowBytes \subseteq Ids
    BY <1>1 DEF Ids, LowBytes
<1>4. Hosts \subseteq LowBytes
    BY DEF LowBytes, Hosts
<1> QED BY <1>2, <1>3, <1>4

\* The check of "init" lets no address through that needs more than a byte.
LEMMA ValidIsLow == \A i \in Ids : ValidId(i) => i \in Hosts /\ i \in LowBytes
BY IdsAreNat DEF LowBytes, Hosts, ValidId

\* The last byte of an address is a byte.
LEMMA LowIsLow == \A i \in Nat : Low(i) \in LowBytes
BY DEF LowBytes, Low

\* "init" makes a valid identifier the hardware address.
LEMMA JoinedAlike ==
    ASSUME NEW x, IsNode(x), IsTyped(x), ValidId(x.id), NEW r \in BOOLEAN, NEW p \in BOOLEAN,
           NEW g
    PROVE  Alike(x, Joined(x, r, p, g))
<1>1. x.id \in LowBytes
    BY ValidIsLow DEF IsTyped
<1> QED BY <1>1 DEF Alike, IsNode, Fields, IsTyped, Joined

\* "init" starts the monitor.
LEMMA MonitorAlike ==
    ASSUME NEW x, IsNode(x), IsTyped(x), NEW l
    PROVE  Alike(x, WithMonitor(x, l))
<1>1. CASE x.monitor
    BY <1>1, BrokenAlike DEF WithMonitor
<1>2. CASE ~x.monitor
    <2>1. WithMonitor(x, l) = [x EXCEPT !.monitor = TRUE, !.ll = l]
        BY <1>2 DEF WithMonitor
    <2> QED BY <2>1 DEF Alike, IsNode, Fields, IsTyped
<1> QED BY <1>1, <1>2

\* The transceiver is told to ignore an address.
LEMMA IgnoringAlike ==
    ASSUME NEW x, IsNode(x), IsTyped(x), NEW a, NEW c \in BOOLEAN
    PROVE  Alike(x, Ignoring(x, a, c))
<1> DEFINE g == IF c THEN x.ignored \cup {a} ELSE x.ignored
<1>1. Ignoring(x, a, c) = [x EXCEPT !.tcmd = TRUE, !.ignored = g]
    BY DEF Ignoring
<1> HIDE DEF g
<1> QED BY <1>1 DEF Alike, IsNode, Fields, IsTyped

\* "ign" may read memory at 0.
LEMMA IgnoringCmdAlike ==
    ASSUME NEW x, IsNode(x), IsTyped(x), NEW a, NEW c \in BOOLEAN, NEW r \in BOOLEAN
    PROVE  Alike(x, IgnoringCmd(x, a, c, r))
BY IgnoringAlike, BrokenAlike DEF IgnoringCmd

\* The static address is written.
LEMMA AddressedAlike ==
    ASSUME NEW x, IsNode(x), IsTyped(x), NEW to \in LowBytes, NEW o \in BOOLEAN
    PROVE  /\ Alike(x, Addressed(x, to, o))
           /\ Addressed(x, to, o).dest = to /\ Addressed(x, to, o).hw = x.hw
BY DEF Alike, IsNode, Fields, IsTyped, Addressed

\* The monitor notes the source of a frame.
LEMMA NotedAlike ==
    ASSUME NEW x, IsNode(x), IsTyped(x), NEW m
    PROVE  Alike(x, Noted(x, m))
BY DEF Alike, IsNode, Fields, IsTyped, Noted

\* recvfrom() takes the datagram that has waited longest.
LEMMA TakenAlike ==
    ASSUME NEW x, IsNode(x), IsTyped(x), x.inbox # <<>>
    PROVE  Alike(x, Taken(x)) /\ Head(x.inbox) \in Datagrams
<1>1. x.inbox \in Seq(Datagrams)
    BY DEF IsTyped
<1>2. PICK t : t = Tail(x.inbox)
    OBVIOUS
<1>3. t \in Seq(Datagrams) /\ Head(x.inbox) \in Datagrams
    BY <1>1, <1>2
<1>4. Taken(x) = [x EXCEPT !.inbox = t]
    BY <1>2 DEF Taken
<1> QED BY <1>3, <1>4 DEF Alike, IsNode, Fields, IsTyped

\* A datagram waits at the socket bound to its port.
LEMMA QueuedAlike ==
    ASSUME NEW x, IsNode(x), IsTyped(x), NEW m \in Datagrams
    PROVE  Alike(x, Queued(x, m))
<1>1. PICK t : t = Append(x.inbox, m)
    OBVIOUS
<1>2. t \in Seq(Datagrams)
    BY <1>1 DEF IsTyped
<1>3. Queued(x, m) = x \/ Queued(x, m) = [x EXCEPT !.inbox = t]
    BY <1>1 DEF Queued
<1>4. Alike(x, x)
    BY DEF Alike
<1>5. Alike(x, [x EXCEPT !.inbox = t])
    BY <1>2 DEF Alike, IsNode, Fields, IsTyped
<1> QED BY <1>3, <1>4, <1>5

\* A line for the visualisation is printed.
LEMMA ShownAlike ==
    ASSUME NEW x, IsNode(x), IsTyped(x), NEW e
    PROVE  Alike(x, [x EXCEPT !.shown = e])
BY DEF Alike, IsNode, Fields, IsTyped

\* The LED changes.
LEMMA LedAlike ==
    ASSUME NEW x, IsNode(x), IsTyped(x), NEW e
    PROVE  Alike(x, [x EXCEPT !.led = e])
BY DEF Alike, IsNode, Fields, IsTyped

\* A node before its main().
LEMMA FreshIsGood ==
    ASSUME NEW p \in Programs, NEW a \in Ids
    PROVE  /\ NodeGood(Fresh(p, a)) /\ Fresh(p, a).program = p /\ Fresh(p, a).status = "up"
           /\ Fresh(p, a).server = FALSE /\ Fresh(p, a).monitor = FALSE /\ Fresh(p, a).socket = FALSE
           /\ Fresh(p, a).id = a
<1> DEFINE x == Fresh(p, a)
<1>1. 0 \in Ids /\ 0 \in LowBytes /\ 0 \in Owed
    <2>1. 0 \in LowBytes /\ 0 \in Owed
        BY DEF LowBytes, Owed
    <2> QED BY <2>1, IdsAreNat
<1>2. <<>> \in Seq(Datagrams)
    OBVIOUS
<1>3. IsNode(x)
    BY DEF Fresh, IsNode, Fields
<1>4. /\ x.program = p /\ x.board = 0 /\ x.status = "up" /\ x.id = a
    /\ x.hw = 0 /\ x.port = 0 /\ x.dest = 0
    /\ x.inbox = <<>> /\ x.left = 0 /\ x.peer = 0
    /\ x.is_root = FALSE /\ x.provider = FALSE /\ x.sender = FALSE
    /\ x.server = FALSE /\ x.socket = FALSE /\ x.served = FALSE
    /\ x.tcmd = FALSE /\ x.monitor = FALSE
    BY DEF Fresh
<1> HIDE DEF x
<1>5. IsTyped(x)
    <2>1. /\ x.is_root \in BOOLEAN /\ x.provider \in BOOLEAN /\ x.sender \in BOOLEAN
          /\ x.server \in BOOLEAN /\ x.socket \in BOOLEAN /\ x.served \in BOOLEAN
          /\ x.tcmd \in BOOLEAN /\ x.monitor \in BOOLEAN
        BY <1>4
    <2>2. /\ x.program \in Programs /\ x.board \in Nat /\ x.status \in States
        BY <1>4 DEF States
    <2>3. /\ x.id \in Ids /\ x.hw \in LowBytes /\ x.port \in Ids /\ x.dest \in LowBytes
    /\ x.inbox \in Seq(Datagrams) /\ x.left \in Owed /\ x.peer \in LowBytes
        BY <1>1, <1>2, <1>4
    <2> QED BY <2>1, <2>2, <2>3 DEF IsTyped
<1>6. Answering(x) /\ OneThread(x)
    BY <1>4 DEF Answering, OneThread
<1>7. NodeGood(x)
    BY <1>3, <1>5, <1>6 DEF NodeGood
<1> QED BY <1>4, <1>7 DEF x

\* What a node sends that has an address is a letter if its answer is addressed right.
LEMMA SentLetters ==
    ASSUME NEW x, IsTyped(x), NEW prefix \in {"fe80", "abcd"}, NEW to \in Ids,
           NEW port \in Ids, NEW data \in Contents, data[1] = "answer" => to = data[2]
    PROVE  Sent(x, prefix, to, port, data) \subseteq Letters
<1> DEFINE m == Datagram(x, prefix, to, port, data)
<1>1. CASE x.hw = 0
    BY <1>1 DEF Sent
<1>2. CASE x.hw # 0
    <2>1. x.hw \in Hosts /\ x.hw \in LowBytes
        BY <1>2 DEF Hosts, LowBytes, IsTyped
    <2>2. HopLimit \in 0..HopLimit
        BY ConstantsAssumption
    <2>3. x.board \in Nat
        BY DEF IsTyped
    <2>4. m = [from |-> x.hw, by |-> x.board, at |-> x.hw, hops |-> HopLimit,
               prefix |-> prefix, to |-> to, port |-> port, data |-> data]
        BY DEF Datagram
    <2>5. m \in Datagrams
        BY <2>1, <2>2, <2>3, <2>4 DEF Datagrams
    <2>6. m.to = to /\ m.data = data
        BY <2>4
    <2>7. m \in Letters
        BY <2>5, <2>6 DEF Letters
    <2> QED BY <1>2, <2>7 DEF Sent
<1> QED BY <1>1, <1>2

\* The same for what goes to the static address.
LEMMA SentToLetters ==
    ASSUME NEW x, IsTyped(x), NEW port \in Ids, NEW data \in Contents,
           data[1] = "answer" => x.dest = data[2]
    PROVE  SentTo(x, port, data) \subseteq Letters
<1>1. x.dest \in Ids
    BY IdsAreNat DEF IsTyped
<1>2. Sent(x, "fe80", x.dest, port, data) \subseteq Letters
    BY <1>1, SentLetters
<1> QED BY <1>2 DEF SentTo

\* The ports have 16 bits.
LEMMA PortsAreIds == ApplicationPort \in Ids /\ ServerPort \in Ids /\ 7 \in Ids /\ 0 \in Ids
BY WordIs DEF Ids, ApplicationPort, ServerPort

\* Texts and numbers may be carried.
LEMMA WordsHave == Texts \subseteq Words /\ Nat \subseteq Words
BY DEF Words

\* A text, an event and an answer are what datagrams carry.
LEMMA TextIsContent == \A t \in Words : <<t>> \in Contents /\ <<t>>[1] = t
BY DEF Contents

\* An event is named first.
LEMMA EventIsContent == \A t, i, j \in Words : <<t, i, j>> \in Contents /\ <<t, i, j>>[1] = t
BY DEF Contents

\* An answer has the asker second.
LEMMA AnswerIsContent ==
    \A t, i \in Words : <<t, i>> \in Contents /\ <<t, i>>[1] = t /\ <<t, i>>[2] = i
BY DEF Contents

\* What "server" may do: with udpif.c it breaks nothing, and a server that works stays.
Started(x, y) ==
    /\ NodeGood(y) /\ y.program = x.program
    /\ x.program \in WithUdpif =>
           /\ y.status # "broken"
           /\ x.served => y.served /\ y.port = x.port

\* Starting the thread breaks a node only if the thread is there already.
LEMMA ServingStarts ==
    ASSUME NEW x, NodeGood(x), NEW port \in Ids, NEW o \in BOOLEAN, NEW b \in BOOLEAN
    PROVE  /\ NodeGood(Serving(x, port, o, b)) /\ Serving(x, port, o, b).program = x.program
           /\ x.status = "up" /\ ~x.server => Serving(x, port, o, b).status # "broken"
<1>1. CASE x.server
    <2>1. Alike(x, Broken(x))
        BY BrokenAlike DEF NodeGood
    <2>2. NodeGood(Broken(x)) /\ Broken(x).program = x.program
        BY <2>1, AlikeGood DEF Alike
    <2>3. Serving(x, port, o, b) = Broken(x)
        BY <1>1 DEF Serving
    <2> QED BY <1>1, <2>2, <2>3
<1>2. CASE ~x.server
    <2>1. PICK s : s = IF o /\ b THEN x.status ELSE "stuck"
        OBVIOUS
    <2>2. PICK d \in BOOLEAN : d = (o /\ b)
        OBVIOUS
    <2> DEFINE y == [x EXCEPT !.server = TRUE, !.socket = o, !.served = d, !.port = port,
                                !.status = s]
    <2>3. Serving(x, port, o, b) = y
        BY <1>2, <2>1, <2>2 DEF Serving
    <2>4. s \in States /\ IsNode(x) /\ IsTyped(x)
        BY <2>1 DEF States, IsTyped, NodeGood
    <2>5. /\ IsNode(y) /\ IsTyped(y) /\ y.program = x.program /\ y.left = x.left /\ y.peer = x.peer
          /\ y.server = TRUE /\ y.socket = o /\ y.served = d /\ y.status = s
        BY <2>4 DEF IsNode, Fields, IsTyped
    <2> HIDE DEF y
    <2>6. Answering(y)
        BY <2>5 DEF Answering, NodeGood
    <2>7. OneThread(y)
        BY <2>1, <2>2, <2>5 DEF OneThread
    <2>8. x.status = "up" => s # "broken"
        BY <2>1
    <2> QED BY <2>3, <2>5, <2>6, <2>7, <2>8 DEF NodeGood
<1>3. x.server \in BOOLEAN
    BY DEF NodeGood, IsTyped
<1> QED BY <1>1, <1>2, <1>3

\* udpif_start_server() does nothing when the socket is open; when it is not, no thread
\* that could be broken is there, or the shell would not run.
LEMMA GuardedStarts ==
    ASSUME NEW x, NodeGood(x), x.status = "up", x.program \in WithUdpif, NEW port \in Ids,
           NEW o \in BOOLEAN, NEW b \in BOOLEAN
    PROVE  Started(x, IF x.socket THEN x ELSE Serving(x, port, o, b))
<1>1. CASE x.socket
    BY <1>1 DEF Started
<1>2. CASE ~x.socket
    <2>1. ~x.server /\ ~x.served
        BY <1>2 DEF NodeGood, OneThread
    <2> QED BY <1>2, <2>1, ServingStarts DEF Started
<1>3. x.socket \in BOOLEAN
    BY DEF NodeGood, IsTyped
<1> QED BY <1>1, <1>2, <1>3

\* "server" takes a port or the default one.
Arguments == {<<>>, <<7>>}
LEMMA ArgumentIsPort ==
    \A argv \in Arguments :
        Argument(argv, ApplicationPort) \in Ids /\ Argument(argv, ServerPort) \in Ids
BY PortsAreIds DEF Argument, Arguments

\* "server" of every program.
LEMMA ServerStarts ==
    ASSUME NEW x, NodeGood(x), x.status = "up", NEW argv \in Arguments,
           NEW o \in BOOLEAN, NEW b \in BOOLEAN
    PROVE  Started(x, AfterServer(x, argv, o, b))
<1>1. CASE x.program = "RUM2"
    <2>1. AfterServer(x, argv, o, b)
              = IF x.socket THEN x ELSE Serving(x, Argument(argv, ApplicationPort), o, b)
        BY <1>1 DEF AfterServer, rum2_udpif_shell_server, udpif_start_server
    <2> QED BY <1>1, <2>1, ArgumentIsPort, GuardedStarts DEF WithUdpif
<1>2. CASE x.program = "cebit_router"
    <2>1. AfterServer(x, argv, o, b)
              = IF x.socket THEN x ELSE Serving(x, Argument(argv, ApplicationPort), o, b)
        BY <1>2 DEF AfterServer, cebit_udpif_shell_server, cebit_udpif_start_server
    <2> QED BY <1>2, <2>1, ArgumentIsPort, GuardedStarts DEF WithUdpif
<1>3. CASE x.program = "light"
    <2>1. AfterServer(x, argv, o, b)
              = IF x.socket THEN x ELSE Serving(x, Argument(argv, ApplicationPort), o, b)
        BY <1>3 DEF AfterServer, light_udpif_shell_server, light_udpif_start_server
    <2> QED BY <1>3, <2>1, ArgumentIsPort, GuardedStarts DEF WithUdpif
<1>4. CASE x.program = "accel_udp"
    <2>1. AfterServer(x, argv, o, b)
              = IF x.socket THEN x ELSE Serving(x, Argument(argv, ServerPort), o, b)
        BY <1>4 DEF AfterServer, accel_udpif_shell_server, accel_udpif_start_server
    <2> QED BY <1>4, <2>1, ArgumentIsPort, GuardedStarts DEF WithUdpif
<1>5. CASE x.program \in {"RUM", "rpl_udp_router", "udp-server", "router"}
    <2>1. AfterServer(x, argv, o, b) = Serving(x, ServerPort, o, b)
        BY <1>5 DEF AfterServer, rum_udp_server, rpl_udp_server, srv_udp_server,
            rtr_udp_server
    <2>2. x.program \notin WithUdpif
        BY <1>5 DEF WithUdpif
    <2> DEFINE y == Serving(x, ServerPort, o, b)
    <2>3. NodeGood(y) /\ y.program = x.program
        BY PortsAreIds, ServingStarts
    <2> HIDE DEF y
    <2>4. Started(x, y)
        BY <2>2, <2>3 DEF Started
    <2> QED BY <2>1, <2>4 DEF y
<1> QED BY <1>1, <1>2, <1>3, <1>4, <1>5 DEF NodeGood, IsTyped, Programs

\* What every other handler leaves: the server as it is, and no new state but "broken".
Kept(x, y) ==
    /\ NodeGood(y) /\ y.program = x.program
    /\ y.server = x.server /\ y.socket = x.socket /\ y.served = x.served /\ y.port = x.port
    /\ y.status \in {x.status, "broken"}

\* Alike nodes keep their server.
LEMMA AlikeKept ==
    ASSUME NEW x, NodeGood(x), NEW y, Alike(x, y)
    PROVE  Kept(x, y)
BY AlikeGood DEF Kept, Alike

\* Handlers that keep the server can follow each other.
LEMMA KeptTrans ==
    ASSUME NEW x, NEW y, NEW z, Kept(x, y), Kept(y, z)
    PROVE  Kept(x, z)
BY DEF Kept

\* A handler may do nothing.
LEMMA KeptSelf ==
    ASSUME NEW x, NodeGood(x)
    PROVE  Kept(x, x)
BY DEF Kept

\* A node is alike to itself.
LEMMA AlikeSelf ==
    ASSUME NEW x, IsNode(x), IsTyped(x)
    PROVE  Alike(x, x)
BY DEF Alike

\* "set" of every program.
LEMMA SetKeeps ==
    ASSUME NEW x, NodeGood(x), NEW i \in Nat
    PROVE  Kept(x, AfterSet(x, i))
<1>1. AfterSet(x, i) = SetId(x, i)
    BY DEF NodeGood, IsTyped, Programs, AfterSet, rum2_rpl_udp_set_id, cebit_rpl_udp_set_id,
        light_rpl_udp_set_id, accel_rpl_udp_set_id, rum_rpl_udp_set_id, rpl_set_id,
        srv_rpl_udp_set_id, rtr_rpl_udp_set_id
<1> QED BY <1>1, SetIdAlike, AlikeKept DEF NodeGood

\* "init": the interface gets its addresses, the monitor is started.
LEMMA JoinedMonitorAlike ==
    ASSUME NEW x, IsNode(x), IsTyped(x), ValidId(x.id), NEW r \in BOOLEAN, NEW p \in BOOLEAN,
           NEW g, NEW l
    PROVE  Alike(x, WithMonitor(Joined(x, r, p, g), l))
<1>1. PICK y : y = Joined(x, r, p, g)
    OBVIOUS
<1>2. Alike(x, y)
    BY <1>1, JoinedAlike
<1>3. Alike(y, WithMonitor(y, l))
    BY <1>2, MonitorAlike DEF Alike
<1> QED BY <1>1, <1>2, <1>3, AlikeTrans

\* "init" of every program.
LEMMA InitKeeps ==
    ASSUME NEW x, NodeGood(x), NEW c \in {"n", "r"}
    PROVE  Kept(x, AfterInit(x, c))
<1> DEFINE y == AfterInit(x, c)
<1>0. IsNode(x) /\ IsTyped(x)
    BY DEF NodeGood
<1> SUFFICES Alike(x, y)
    BY AlikeKept
<1>1. CASE x.program = "RUM2" /\ ValidId(x.id)
    <2>1. PICK z : z = WithMonitor(Joined(x, c = "r", TRUE, Global(x)), 0)
        OBVIOUS
    <2>2. Alike(x, z)
        BY <1>0, <1>1, <2>1, JoinedMonitorAlike
    <2>3. Alike(z, WithNeighbours(z, {z.id - 1, z.id + 1}))
        BY <2>2, NeighboursAlike DEF Alike
    <2>4. y = WithNeighbours(z, {z.id - 1, z.id + 1})
        BY <1>1, <2>1 DEF AfterInit, rum2_rpl_udp_init, rum2_fill_nc
    <2> QED BY <2>2, <2>3, <2>4, AlikeTrans
<1>2. CASE x.program \in {"cebit_router", "light", "accel_udp", "rpl_udp_router"} /\ ValidId(x.id)
    <2>1. \/ y = WithMonitor(Joined(x, c = "r", c = "n", Global(x)), 0)
          \/ y = WithMonitor(Joined(x, c = "r", c = "n", {}), 0)
          \/ y = WithMonitor(Joined(x, c = "r", c = "n", {<<"abcd:ef12", x.id>>}), 0)
        <3>1. CASE x.program = "cebit_router"
            BY <1>2, <3>1 DEF AfterInit, cebit_rpl_udp_init
        <3>2. CASE x.program = "light"
            BY <1>2, <3>2 DEF AfterInit, light_rpl_udp_init
        <3>3. CASE x.program = "accel_udp"
            BY <1>2, <3>3 DEF AfterInit, accel_rpl_udp_init
        <3>4. CASE x.program = "rpl_udp_router"
            <4>1. y = rpl_init(x, c)
                BY <3>4 DEF AfterInit
            <4> QED BY <1>2, <4>1 DEF rpl_init
        <3> QED BY <1>2, <3>1, <3>2, <3>3, <3>4
    <2>2. \A g : Alike(x, WithMonitor(Joined(x, c = "r", c = "n", g), 0))
        BY <1>0, <1>2, JoinedMonitorAlike
    <2> QED BY <2>1, <2>2
<1>3. CASE x.program = "RUM" /\ ValidId(x.id)
    <2>1. \A r, p \in BOOLEAN : Alike(x, WithMonitor(Joined(x, r, p, {}), 0))
        BY <1>0, <1>3, JoinedMonitorAlike
    <2>2. PICK r \in BOOLEAN, p \in BOOLEAN : r = (c = "r") /\ p = ~(c = "r")
        OBVIOUS
    <2>3. y = WithMonitor(Joined(x, r, p, {}), 0)
        BY <1>3, <2>2 DEF AfterInit, rum_rpl_udp_init, rum_init
    <2> QED BY <2>1, <2>3
<1>4. CASE x.program \in {"udp-server", "router"}
    BY <1>0, <1>4, AlikeSelf DEF AfterInit, srv_rpl_udp_init, rtr_rpl_udp_init
<1>5. CASE ~ValidId(x.id)
    <2>1. y = x
        BY <1>5, <1>0 DEF AfterInit, IsTyped, Programs, rum2_rpl_udp_init,
            cebit_rpl_udp_init, light_rpl_udp_init, accel_rpl_udp_init, rpl_init,
            rum_rpl_udp_init, rum_init, srv_rpl_udp_init, rtr_rpl_udp_init
    <2> QED BY <1>0, <2>1, AlikeSelf
<1> QED BY <1>0, <1>1, <1>2, <1>3, <1>4, <1>5 DEF IsTyped, Programs
\* What a command or a thread makes of a node: a node as good, and letters.
Handles(x, r) == Kept(x, r.node) /\ r.out \subseteq Letters

\* udpif_send() writes the static address and sends to it.
LEMMA UdpifSends ==
    ASSUME NEW x, NodeGood(x), NEW to \in LowBytes, NEW port \in Ids, NEW data \in Contents,
           data[1] = "answer" => to = data[2], NEW o \in BOOLEAN
    PROVE  LET y == Addressed(x, to, o) IN Kept(x, y) /\ SentTo(y, port, data) \subseteq Letters
<1>1. PICK y : y = Addressed(x, to, o)
    OBVIOUS
<1>2. Alike(x, y) /\ y.dest = to
    BY <1>1, AddressedAlike DEF NodeGood
<1>3. SentTo(y, port, data) \subseteq Letters
    BY <1>2, SentToLetters DEF Alike
<1> QED BY <1>1, <1>2, <1>3, AlikeKept

\* A socket that is opened for one text.
LEMMA OnceSends ==
    ASSUME NEW x, NodeGood(x), NEW prefix \in {"fe80", "abcd"}, NEW to \in Hosts,
           NEW data \in Contents, data[1] # "answer", NEW o \in BOOLEAN
    PROVE  Handles(x, Once(x, prefix, to, data, o))
<1>1. to % Word \in Ids
    BY IdsAreNat, ModIsId
<1>2. Sent(x, prefix, to % Word, ServerPort, data) \subseteq Letters
    BY <1>1, SentLetters, PortsAreIds DEF NodeGood
<1>3. Once(x, prefix, to, data, o).node = x /\ Once(x, prefix, to, data, o).out \subseteq Letters
    BY <1>2 DEF Once
<1> QED BY <1>3, KeptSelf DEF Handles

\* "send" of every program.
LEMMA SendHandles ==
    ASSUME NEW x, NodeGood(x), NEW to \in Hosts, NEW t \in Texts, NEW o \in BOOLEAN
    PROVE  Handles(x, AfterSend(x, to, <<t>>, o))
<1>1. PICK data : data = <<t>>
    OBVIOUS
<1>2. data \in Contents /\ data[1] # "answer"
    BY <1>1, TextIsContent, WordsHave, ConstantsAssumption
<1>3. PICK low \in LowBytes : low = Low(to)
    BY LowIsLow, IdsAreNat
<1>4. PICK y : y = Addressed(x, low, o)
    OBVIOUS
<1>5. \A port \in Ids : Kept(x, y) /\ SentTo(y, port, data) \subseteq Letters
    BY <1>2, <1>4, UdpifSends
<1>6. ApplicationPort \in Ids /\ ServerPort \in Ids
    BY PortsAreIds
<1>7. CASE x.program \in {"RUM2", "cebit_router", "light"}
    <2>1. AfterSend(x, to, data, o) = [node |-> y, out |-> SentTo(y, ApplicationPort, data)]
        BY <1>3, <1>4, <1>7 DEF AfterSend, rum2_udpif_shell_send, udpif_send,
            cebit_udpif_shell_send, cebit_udpif_send, light_udpif_shell_send,
            light_udpif_send
    <2> QED BY <1>1, <1>5, <1>6, <2>1 DEF Handles
<1>8. CASE x.program = "accel_udp"
    <2>1. AfterSend(x, to, data, o) = [node |-> y, out |-> SentTo(y, ServerPort, data)]
        BY <1>3, <1>4, <1>8 DEF AfterSend, accel_udpif_shell_send, accel_send_address,
            accel_send_data
    <2> QED BY <1>1, <1>5, <1>6, <2>1 DEF Handles
<1>9. CASE x.program \in {"RUM", "rpl_udp_router", "udp-server", "router"}
    <2>1. \/ AfterSend(x, to, data, o) = Once(x, "abcd", to, data, o)
          \/ AfterSend(x, to, data, o) = Once(x, "fe80", to, data, o)
        BY <1>9 DEF AfterSend, rum_udp_send, rpl_udp_send, srv_udp_send, rtr_udp_send
    <2> QED BY <1>1, <1>2, <2>1, OnceSends
<1> QED BY <1>7, <1>8, <1>9 DEF NodeGood, IsTyped, Programs

\* "ign" of every program.
LEMMA IgnoreKeeps ==
    ASSUME NEW x, NodeGood(x), NEW a, NEW r \in BOOLEAN
    PROVE  Kept(x, AfterIgnore(x, a, r))
<1> DEFINE y == AfterIgnore(x, a, r)
<1>0. IsNode(x) /\ IsTyped(x)
    BY DEF NodeGood
<1>1. \A c \in BOOLEAN : Alike(x, Ignoring(x, a, c)) /\ Alike(x, IgnoringCmd(x, a, c, r))
    BY <1>0, IgnoringAlike, IgnoringCmdAlike
<1>2. Alike(x, Broken(x))
    BY <1>0, BrokenAlike
<1>3. \/ \E c \in BOOLEAN : y = Ignoring(x, a, c) \/ y = IgnoringCmd(x, a, c, r)
      \/ y = Broken(x)
    BY <1>0 DEF IsTyped, Programs, AfterIgnore, rum2_rpl_udp_ignore_cmd,
        cebit_rpl_udp_ignore_cmd, light_rpl_udp_ignore_cmd,
        light_rpl_udp_ignore, accel_rpl_udp_ignore_cmd, accel_rpl_udp_ignore,
        rum_rpl_udp_ignore, rpl_ignore, srv_rpl_udp_ignore, srv_helper_ignore, rtr_rpl_udp_ignore
<1> QED BY <1>1, <1>2, <1>3, AlikeKept

\* The LEDs of light.
LEMMA LightKeeps ==
    ASSUME NEW x, NodeGood(x), NEW s, NEW d
    PROVE  Kept(x, light_on_data(x, s, d)) /\ \A c : Kept(x, light_set_rgb(x, c))
<1>1. \A c : Kept(x, light_set_rgb(x, c))
    BY LedAlike, AlikeKept DEF light_set_rgb, NodeGood
<1>2. light_on_data(x, s, d) = x \/ \E c : light_on_data(x, s, d) = light_set_rgb(x, c)
    BY DEF light_on_data
<1> QED BY <1>1, <1>2, KeptSelf

\* The monitor notes the frame and may print a line.
LEMMA ShowingKeeps ==
    ASSUME NEW x, NodeGood(x), NEW e
    PROVE  Kept(x, [x EXCEPT !.shown = e])
BY ShownAlike, AlikeKept DEF NodeGood

\* The monitor of every program.
LEMMA FrameKeeps ==
    ASSUME NEW x, NodeGood(x), NEW m
    PROVE  Kept(x, AfterFrame(x, m))
<1>1. PICK z : z = Noted(x, m)
    OBVIOUS
<1>2. Kept(x, z)
    BY <1>1, NotedAlike, AlikeKept DEF NodeGood
<1>3. \A e : Kept(x, [z EXCEPT !.shown = e])
    BY <1>2, ShowingKeeps, KeptTrans DEF Kept
<1>4. \A s : /\ Kept(z, rum2_viz_udp_pkt(z, s)) /\ Kept(z, cebit_viz_udp_pkt(z, s))
             /\ Kept(z, light_viz_udp_pkt(z, s)) /\ Kept(z, accel_viz_udp_pkt(z, s))
    BY <1>2, ShowingKeeps DEF Kept, rum2_viz_udp_pkt, cebit_viz_udp_pkt, light_viz_udp_pkt,
        accel_viz_udp_pkt
<1>5. \A w : NodeGood(w) => Kept(w, rum2_viz_udp_snd(w, 51)) /\ Kept(w, cebit_viz_udp_snd(w, 51))
    BY ShowingKeeps, KeptSelf DEF rum2_viz_udp_snd, cebit_viz_udp_snd
<1>6. CASE ~x.monitor
    BY <1>6, KeptSelf DEF AfterFrame
<1>7. CASE x.monitor /\ x.program = "RUM2"
    <2>1. PICK w : w = rum2_viz_udp_pkt(z, z.ll)
        OBVIOUS
    <2>2. AfterFrame(x, m) = w \/ AfterFrame(x, m) = rum2_viz_udp_snd(w, 51)
        BY <1>1, <1>7, <2>1 DEF AfterFrame, rum2_rpl_udp_monitor
    <2>3. Kept(x, w)
        BY <1>2, <1>4, <2>1, KeptTrans
    <2>4. Kept(w, rum2_viz_udp_snd(w, 51))
        BY <1>5, <2>3 DEF Kept
    <2> QED BY <2>2, <2>3, <2>4, KeptTrans
<1>8. CASE x.monitor /\ x.program = "cebit_router"
    <2>1. PICK w : w = cebit_viz_udp_pkt(z, z.ll)
        OBVIOUS
    <2>2. AfterFrame(x, m) = w \/ AfterFrame(x, m) = cebit_viz_udp_snd(w, 51)
        BY <1>1, <1>8, <2>1 DEF AfterFrame, cebit_rpl_udp_monitor
    <2>3. Kept(x, w)
        BY <1>2, <1>4, <2>1, KeptTrans
    <2>4. Kept(w, cebit_viz_udp_snd(w, 51))
        BY <1>5, <2>3 DEF Kept
    <2> QED BY <2>2, <2>3, <2>4, KeptTrans
<1>9. CASE x.monitor /\ x.program \in {"light", "accel_udp"}
    <2>1. \/ AfterFrame(x, m) = light_viz_udp_pkt(z, z.ll)
          \/ AfterFrame(x, m) = accel_viz_udp_pkt(z, z.ll)
        BY <1>1, <1>9 DEF AfterFrame, light_rpl_udp_monitor, accel_rpl_udp_monitor
    <2> QED BY <1>2, <1>4, <2>1, KeptTrans
<1>10. CASE x.monitor /\ x.program \in {"RUM", "rpl_udp_router", "udp-server", "router"}
    <2>1. AfterFrame(x, m) = z
        BY <1>1, <1>10 DEF AfterFrame, rum_rpl_udp_monitor, rpl_monitor, srv_rpl_udp_monitor
    <2> QED BY <1>2, <2>1
<1> QED BY <1>6, <1>7, <1>8, <1>9, <1>10 DEF NodeGood, IsTyped, Programs

\* router passes a datagram on, and the application server reads it.
LEMMA RelayingKeeps ==
    ASSUME NEW x, NodeGood(x), NEW b, NEW c
    PROVE  /\ Kept(x, [x EXCEPT !.buffer = b, !.rmsgs = c])
           /\ Kept(x, [x EXCEPT !.rmsgs = c])
<1>1. Alike(x, [x EXCEPT !.buffer = b, !.rmsgs = c])
    BY DEF Alike, IsNode, Fields, IsTyped, NodeGood
<1>2. Alike(x, [x EXCEPT !.rmsgs = c])
    BY DEF Alike, IsNode, Fields, IsTyped, NodeGood
<1> QED BY <1>1, <1>2, AlikeKept
\* One more answer of RUM2 goes to the last byte of the asker's address.
LEMMA AnswerHandles ==
    ASSUME NEW w, NodeGood(w), NEW p \in Hosts, NEW o \in BOOLEAN
    PROVE  Handles(w, udpif_send(w, Low(p), ApplicationPort, <<"answer", p>>, o))
<1>1. Low(p) = p
    BY DEF Low, Hosts
<1>2. PICK data : data = <<"answer", p>>
    OBVIOUS
<1>3. data \in Contents /\ data[2] = p /\ p \in LowBytes
    <2>1. "answer" \in Words /\ p \in LowBytes
        BY IdsAreNat DEF Words
    <2>2. p \in Words
        BY <2>1, WordsHave, IdsAreNat
    <2> QED BY <1>2, <2>1, <2>2, AnswerIsContent
<1>4. PICK y : y = Addressed(w, p, o)
    OBVIOUS
<1>5. udpif_send(w, Low(p), ApplicationPort, data, o)
          = [node |-> y, out |-> SentTo(y, ApplicationPort, data)]
    BY <1>1, <1>4 DEF udpif_send
<1>6. Kept(w, y) /\ SentTo(y, ApplicationPort, data) \subseteq Letters
    BY <1>3, <1>4, PortsAreIds, UdpifSends
<1> QED BY <1>2, <1>5, <1>6 DEF Handles

\* RUM2 notes who asked and how many answers are left.
LEMMA OwingKeeps ==
    ASSUME NEW x, NodeGood(x), x.program = "RUM2", NEW p \in Hosts, NEW k \in Owed
    PROVE  Kept(x, [x EXCEPT !.peer = p, !.left = k])
<1> DEFINE w == [x EXCEPT !.peer = p, !.left = k]
<1>0. IsNode(x) /\ IsTyped(x) /\ p \in LowBytes
    BY IdsAreNat DEF NodeGood
<1>3. /\ IsNode(w) /\ IsTyped(w) /\ w.program = "RUM2" /\ w.peer = p /\ w.status = x.status
      /\ w.server = x.server /\ w.socket = x.socket /\ w.served = x.served /\ w.port = x.port
    BY <1>0 DEF IsNode, Fields, IsTyped
<1> HIDE DEF w
<1>4. NodeGood(w)
    <2>1. Answering(w)
        BY <1>3 DEF Answering
    <2>2. OneThread(w)
        BY <1>3 DEF OneThread, NodeGood
    <2> QED BY <1>3, <2>1, <2>2 DEF NodeGood
<1>5. Kept(x, w)
    BY <1>3, <1>4 DEF Kept
<1> QED BY <1>5 DEF w

\* RUM2's server takes a datagram or sends one more answer.
LEMMA Rum2Serves ==
    ASSUME NEW x, NodeGood(x), x.program = "RUM2", x.left > 0 \/ x.inbox # <<>>,
           NEW o \in BOOLEAN
    PROVE  Handles(x, rum2_server_loop(x, o))
<1>0. IsNode(x) /\ IsTyped(x)
    BY DEF NodeGood
<1>1. CASE x.left > 0
    <2>1. PICK p \in Hosts : p = x.peer
        BY <1>1 DEF NodeGood, Answering
    <2>2. PICK k \in Owed : k = x.left - 1
        BY <1>0, <1>1 DEF IsTyped, Owed
    <2>3. PICK w : w = [x EXCEPT !.left = k]
        OBVIOUS
    <2>4. w = [x EXCEPT !.peer = p, !.left = k]
        BY <1>0, <2>1, <2>3 DEF IsNode, Fields
    <2>5. Kept(x, w)
        BY <2>4, OwingKeeps
    <2>6. rum2_server_loop(x, o) = udpif_send(w, Low(p), ApplicationPort, <<"answer", p>>, o)
        BY <1>1, <2>1, <2>2, <2>3 DEF rum2_server_loop, rum2_answer
    <2>7. Handles(w, udpif_send(w, Low(p), ApplicationPort, <<"answer", p>>, o))
        BY <2>5, AnswerHandles DEF Kept
    <2> QED BY <2>5, <2>6, <2>7, KeptTrans DEF Handles
<1>2. CASE ~(x.left > 0)
    <2>1. PICK m : m = Head(x.inbox)
        OBVIOUS
    <2>2. m \in Datagrams
        BY <1>0, <1>2, <2>1, TakenAlike
    <2>3. PICK z : z = Taken(x)
        OBVIOUS
    <2>4. Kept(x, z)
        BY <1>0, <1>2, <2>3, TakenAlike, AlikeKept
    <2>5. PICK y : y = rum2_default_data_handler(z, Low(m.from), m.data)
        OBVIOUS
    <2>6. Kept(x, y)
        <3>1. NodeGood(z)
            BY <2>4 DEF Kept
        <3>2. Kept(z, y)
            BY <2>5, <3>1, ShowingKeeps DEF rum2_default_data_handler, rum2_viz_udp_pkt
        <3> QED BY <2>4, <3>2, KeptTrans
    <2>7. PICK p \in Hosts : p = m.from
        BY <2>2 DEF Datagrams
    <2>8. PICK k \in Owed : k = 3
        BY DEF Owed
    <2>9. PICK w : w = [y EXCEPT !.peer = p, !.left = k]
        OBVIOUS
    <2>10. Kept(x, w)
        <3>1. NodeGood(y) /\ y.program = "RUM2"
            BY <2>6 DEF Kept
        <3>2. Kept(y, w)
            BY <2>9, <3>1, OwingKeeps
        <3> QED BY <2>6, <3>2, KeptTrans
    <2>11. PICK v : v = [y EXCEPT !.peer = p, !.left = 4]
        OBVIOUS
    <2>12. v.peer = p /\ [v EXCEPT !.left = @ - 1] = w
        <3>1. IsNode(y)
            BY <2>6 DEF Kept, NodeGood
        <3>2. v.peer = p /\ v.left = 4
            BY <3>1, <2>11 DEF IsNode, Fields
        <3>3. [v EXCEPT !.left = k] = w
            BY <3>1, <2>9, <2>11 DEF IsNode, Fields
        <3>4. 4 - 1 = k
            BY <2>8
        <3> QED BY <3>2, <3>3, <3>4
    <2>13. rum2_answer(v, o) = udpif_send(w, Low(p), ApplicationPort, <<"answer", p>>, o)
        BY <2>12, Zenon DEF rum2_answer
    <2>14. Handles(w, udpif_send(w, Low(p), ApplicationPort, <<"answer", p>>, o))
        BY <2>10, AnswerHandles DEF Kept
    <2>15. \/ rum2_server_loop(x, o) = rum2_answer(v, o)
           \/ rum2_server_loop(x, o) = Silent(y)
        BY <1>2, <2>1, <2>3, <2>5, <2>7, <2>11 DEF rum2_server_loop
    <2>16. Handles(x, rum2_answer(v, o))
        BY <2>10, <2>13, <2>14, KeptTrans DEF Handles
    <2>17. Handles(x, Silent(y))
        BY <2>6 DEF Handles, Silent
    <2> QED BY <2>15, <2>16, <2>17
<1> QED BY <1>1, <1>2
\* The thread that serves UDP takes one request, or sends one more answer.
LEMMA ServeHandles ==
    ASSUME NEW x, NodeGood(x), x.left > 0 \/ x.inbox # <<>>, NEW o \in BOOLEAN
    PROVE  Handles(x, AfterServe(x, o))
<1>0. IsNode(x) /\ IsTyped(x)
    BY DEF NodeGood
<1>1. CASE x.program = "RUM2"
    BY <1>1, Rum2Serves DEF AfterServe
<1>2. CASE x.program # "RUM2"
    <2>1. x.left = 0
        BY <1>2 DEF NodeGood, Answering
    <2>2. PICK z : z = Taken(x)
        OBVIOUS
    <2>3. Alike(x, z) /\ Head(x.inbox) \in Datagrams
        BY <1>0, <2>1, <2>2, TakenAlike
    <2>4. Kept(x, z) /\ NodeGood(z)
        BY <2>3, AlikeKept DEF Kept
    <2>5. PICK p \in Hosts : p = Head(x.inbox).from
        BY <2>3 DEF Datagrams
    <2>6. p \in Ids /\ p \in Words
        BY WordsHave, IdsAreNat
    <2>7. \A r : r.node = z /\ r.out = {} => Handles(x, r)
        BY <2>4 DEF Handles
    <2>8. \A y : Kept(z, y) => Handles(x, Silent(y))
        BY <2>4, KeptTrans DEF Handles, Silent
    <2>9. CASE x.program = "cebit_router"
        <3>1. \A s, d : Kept(z, cebit_default_data_handler(z, s, d))
            BY <2>4, ShowingKeeps DEF cebit_default_data_handler, cebit_viz_udp_pkt
        <3> QED BY <2>2, <2>8, <2>9, <3>1 DEF AfterServe, cebit_server_loop
    <2>10. CASE x.program = "light"
        <3>1. \A s, d : Kept(z, light_on_data(z, s, d))
            BY <2>4, LightKeeps
        <3> QED BY <2>2, <2>8, <2>10, <3>1 DEF AfterServe, light_server_loop
    <2>11. CASE x.program = "accel_udp"
        <3>1. PICK data : data = <<"temperature">>
            OBVIOUS
        <3>2. "temperature" \in Words
            BY DEF Words
        <3>3. data \in Contents /\ data[1] # "answer"
            BY <3>1, <3>2, TextIsContent
        <3>4. Sent(x, "fe80", p, ServerPort, data) \subseteq Letters
            BY <1>0, <2>6, <3>3, SentLetters, PortsAreIds
        <3>5. AfterServe(x, o) = [node |-> z, out |-> Sent(x, "fe80", p, ServerPort, data)]
            BY <2>2, <2>5, <2>11, <3>1 DEF AfterServe, accel_server_loop
        <3> QED BY <2>4, <3>4, <3>5 DEF Handles
    <2>12. CASE x.program = "RUM"
        <3>1. PICK data : data = <<"answer", p>>
            OBVIOUS
        <3>2. "answer" \in Words
            BY DEF Words
        <3>3. data \in Contents /\ data[2] = p
            BY <2>6, <3>1, <3>2, AnswerIsContent
        <3>4. Sent(x, "fe80", p, 0, data) \subseteq Letters
            BY <1>0, <2>6, <3>3, SentLetters, PortsAreIds
        <3>5. AfterServe(x, o) = [node |-> z, out |-> Sent(x, "fe80", p, 0, data)]
            BY <2>2, <2>5, <2>12, <3>1 DEF AfterServe, rum_init_udp_server
        <3> QED BY <2>4, <3>4, <3>5 DEF Handles
    <2>13. CASE x.program = "rpl_udp_router"
        BY <2>2, <2>8, <2>4, <2>13, KeptSelf DEF AfterServe, rpl_init_udp_server
    <2>14. CASE x.program = "udp-server"
        <3>1. \A s : Kept(z, srv_inet_request(z, s))
            BY <2>4, ShowingKeeps DEF srv_inet_request
        <3> QED BY <2>2, <2>8, <2>14, <3>1 DEF AfterServe, srv_init_udp_server
    <2>15. CASE x.program = "router"
        <3>1. PICK y : y = [z EXCEPT !.buffer = Head(x.inbox).data, !.rmsgs = @ + 1]
            OBVIOUS
        <3>2. Kept(z, y)
            BY <2>4, <3>1, RelayingKeeps
        <3>3. AfterServe(x, o) = Silent(y)
            BY <2>2, <2>15, <3>1 DEF AfterServe, rtr_init_udp_server
        <3> QED BY <2>8, <3>2, <3>3
    <2> QED BY <1>0, <1>2, <2>9, <2>10, <2>11, <2>12, <2>13, <2>14, <2>15 DEF IsTyped,
        Programs
<1> QED BY <1>1, <1>2

\* Where a node stands does not matter to its program.
LEMMA BoardIsGood ==
    ASSUME NEW x, NodeGood(x), NEW n \in Nat
    PROVE  NodeGood([x EXCEPT !.board = n])
<1>1. Alike(x, [x EXCEPT !.board = n])
    BY DEF Alike, IsNode, Fields, IsTyped, NodeGood
<1> QED BY <1>1, AlikeGood

\* The identifiers the programs start with.
LEMMA FirstIds == {0, 1, 2, 3, 31, 51} \subseteq Ids
BY WordIs DEF Ids

\* "init" as main() calls it, for the programs that do.
LEMMA MainInitKeeps ==
    ASSUME NEW x, NodeGood(x)
    PROVE  /\ Kept(x, light_rpl_udp_init(x, "n")) /\ Kept(x, accel_rpl_udp_init(x, "n"))
           /\ Kept(x, srv_rpl_ex_init(x, "r")) /\ Kept(x, rtr_rpl_ex_init(x, "n"))
<1>0. IsNode(x) /\ IsTyped(x)
    BY DEF NodeGood
<1>1. Kept(x, x)
    BY KeptSelf
<1>2. ASSUME ValidId(x.id), NEW r \in BOOLEAN, NEW p \in BOOLEAN, NEW g
      PROVE Kept(x, Joined(x, r, p, g)) /\ Kept(x, WithMonitor(Joined(x, r, p, g), 0))
    BY <1>0, <1>2, JoinedAlike, JoinedMonitorAlike, AlikeKept
<1>3. Kept(x, light_rpl_udp_init(x, "n"))
    <2>1. light_rpl_udp_init(x, "n")
              = IF ValidId(x.id) THEN WithMonitor(Joined(x, FALSE, TRUE, Global(x)), 0) ELSE x
        BY DEF light_rpl_udp_init
    <2> QED BY <1>1, <1>2, <2>1
<1>4. Kept(x, accel_rpl_udp_init(x, "n"))
    <2>1. accel_rpl_udp_init(x, "n")
              = IF ValidId(x.id) THEN WithMonitor(Joined(x, FALSE, TRUE, {}), 0) ELSE x
        BY DEF accel_rpl_udp_init
    <2> QED BY <1>1, <1>2, <2>1
<1>5. Kept(x, srv_rpl_ex_init(x, "r"))
    <2>1. srv_rpl_ex_init(x, "r")
              = IF ValidId(x.id) THEN WithMonitor(Joined(x, TRUE, FALSE, {}), 0) ELSE x
        BY DEF srv_rpl_ex_init
    <2> QED BY <1>1, <1>2, <2>1
<1>6. Kept(x, rtr_rpl_ex_init(x, "n"))
    <2>1. rtr_rpl_ex_init(x, "n") = IF ValidId(x.id) THEN Joined(x, FALSE, TRUE, {}) ELSE x
        BY DEF rtr_rpl_ex_init
    <2> QED BY <1>1, <1>2, <2>1
<1> QED BY <1>3, <1>4, <1>5, <1>6

\* main() of every program.
LEMMA BootIsGood ==
    ASSUME NEW p \in Programs
    PROVE  NodeGood(Boot(p))
<1>1. \A x, S : NodeGood(x) => NodeGood(WithNeighbours(x, S))
    BY NeighboursAlike, AlikeGood DEF NodeGood
<1>2. \A x, a : NodeGood(x) => NodeGood(Ignoring(x, a, TRUE))
    BY IgnoringAlike, AlikeGood DEF NodeGood
<1>3. \A x, port : NodeGood(x) /\ port \in Ids => NodeGood(Serving(x, port, TRUE, TRUE))
    BY ServingStarts
<1>4. \A q \in Programs, a \in {0, 1, 2, 3, 31, 51} : NodeGood(Fresh(q, a))
    BY FreshIsGood, FirstIds
<1>5. \A x : NodeGood(x) => /\ NodeGood(light_rpl_udp_init(x, "n"))
                            /\ NodeGood(accel_rpl_udp_init(x, "n"))
                            /\ NodeGood(srv_rpl_ex_init(x, "r")) /\ NodeGood(rtr_rpl_ex_init(x, "n"))
    BY MainInitKeeps DEF Kept
<1>6. ApplicationPort \in Ids /\ ServerPort \in Ids
    BY PortsAreIds
<1>7. CASE p = "RUM2"
    <2>1. PICK x : x = Fresh("RUM2", 31)
        OBVIOUS
    <2>2. NodeGood(x)
        BY <1>4, <1>7, <2>1
    <2>3. Boot(p) = udpif_start_server(x, ApplicationPort, TRUE, TRUE)
        BY <1>7, <2>1 DEF Boot, rum2_main
    <2> QED BY <1>3, <1>6, <2>2, <2>3 DEF udpif_start_server
<1>8. CASE p = "cebit_router"
    <2>1. PICK x : x = WithNeighbours(Fresh("cebit_router", 31), 1..15)
        OBVIOUS
    <2>2. NodeGood(x)
        BY <1>1, <1>4, <1>8, <2>1
    <2>3. Boot(p) = cebit_udpif_start_server(x, ApplicationPort, TRUE, TRUE)
        BY <1>8, <2>1 DEF Boot, cebit_main, cebit_fill_nc
    <2> QED BY <1>3, <1>6, <2>2, <2>3 DEF cebit_udpif_start_server
<1>9. CASE p = "light"
    <2>1. PICK x : x = WithNeighbours(Fresh("light", 51), {33, 51})
        OBVIOUS
    <2>2. NodeGood(x)
        BY <1>1, <1>4, <1>9, <2>1
    <2>3. PICK y : y = Ignoring(Ignoring(Ignoring(Ignoring(x, 23, TRUE), 31, TRUE),
                                         32, TRUE), 41, TRUE)
        OBVIOUS
    <2>4. NodeGood(y)
        BY <1>2, <2>2, <2>3
    <2>5. PICK z : z = light_rpl_udp_init(y, "n")
        OBVIOUS
    <2>6. NodeGood(z)
        BY <1>5, <2>4, <2>5
    <2>7. light_fill_nc(Fresh("light", 51)) = y
        BY <2>1, <2>3 DEF light_fill_nc, light_rpl_udp_ignore
    <2>8. Boot(p) = light_udpif_start_server(z, ApplicationPort, TRUE, TRUE)
        BY <1>9, <2>5, <2>7 DEF Boot, light_main
    <2> QED BY <1>3, <1>6, <2>6, <2>8 DEF light_udpif_start_server
<1>10. CASE p = "accel_udp"
    <2>1. PICK y : y = accel_fill_nc(Fresh("accel_udp", 3))
        OBVIOUS
    <2>2. NodeGood(y)
        BY <1>1, <1>2, <1>4, <1>10, <2>1 DEF accel_fill_nc, accel_rpl_udp_ignore
    <2>3. PICK z : z = accel_rpl_udp_init(y, "n")
        OBVIOUS
    <2>4. NodeGood(z)
        BY <1>5, <2>2, <2>3
    <2>5. Boot(p) = accel_udpif_start_server(z, ServerPort, TRUE, TRUE)
        BY <1>10, <2>1, <2>3 DEF Boot, accel_main
    <2> QED BY <1>3, <1>6, <2>4, <2>5 DEF accel_udpif_start_server
<1>11. CASE p = "RUM"
    <2>1. Boot(p) = WithNeighbours(Fresh(p, 0), 0..19)
        BY <1>11 DEF Boot, rum_main, rum_fill_nc
    <2>2. NodeGood(Fresh(p, 0))
        BY <1>4
    <2> QED BY <1>1, <2>1, <2>2
<1>12. CASE p = "rpl_udp_router"
    BY <1>4, <1>12 DEF Boot, rpl_main
<1>13. CASE p = "udp-server"
    <2>1. PICK x : x = srv_fill_nc(Fresh("udp-server", 1))
        OBVIOUS
    <2>2. NodeGood(x)
        BY <1>1, <1>4, <1>13, <2>1 DEF srv_fill_nc
    <2>3. PICK y : y = srv_helper_ignore(x, 3)
        OBVIOUS
    <2>4. NodeGood(y)
        BY <1>2, <2>2, <2>3 DEF srv_helper_ignore
    <2>5. PICK z : z = srv_rpl_ex_init(y, "r")
        OBVIOUS
    <2>6. NodeGood(z)
        BY <1>5, <2>4, <2>5
    <2>7. Boot(p) = Serving(z, ServerPort, TRUE, TRUE)
        BY <1>13, <2>1, <2>3, <2>5 DEF Boot, srv_main, srv_udp_server
    <2> QED BY <1>3, <1>6, <2>6, <2>7
<1>14. CASE p = "router"
    <2>1. PICK x : x = rtr_fill_nc(Fresh("router", 2))
        OBVIOUS
    <2>2. NodeGood(x)
        BY <1>1, <1>4, <1>14, <2>1 DEF rtr_fill_nc
    <2>3. PICK z : z = rtr_rpl_ex_init(x, "n")
        OBVIOUS
    <2>4. NodeGood(z)
        BY <1>5, <2>2, <2>3
    <2>5. Boot(p) = Serving(z, ServerPort, TRUE, TRUE)
        BY <1>14, <2>1, <2>3 DEF Boot, rtr_main, rtr_udp_server
    <2> QED BY <1>3, <1>6, <2>4, <2>5
<1> QED BY <1>7, <1>8, <1>9, <1>10, <1>11, <1>12, <1>13, <1>14 DEF Programs

\* What the gyroscope's thread is typed by.
Steps == {"sleep", "address", "send"}
Seen == {-1} \cup Directions
Numbers == 0..(Byte - 1)
Repeats == 0..(REP_LIMIT + 1)

\* The thread's messages are no answers.
Telling(d) == d \in Contents /\ d[1] # "answer"

\* The thread's record is typed.
ThreadGood(s) ==
    /\ DOMAIN s = {"state", "rep_count", "evt_no", "sequ_no", "cmd", "to", "step"}
    /\ s.state \in Seen /\ s.rep_count \in Repeats
    /\ s.evt_no \in Numbers /\ s.sequ_no \in Numbers
    /\ Telling(s.cmd) /\ s.to = 1 /\ s.step \in Steps

\* What the thread knows of the last two directions, c and d.
Follows(s, c, d) ==
    /\ s.state = d
    /\ s.rep_count = IF d = -1 \/ c # d THEN 0 ELSE REP_LIMIT + 1

\* Numbers of events and messages wrap.
LEMMA NumbersWrap == \A i \in Nat : i % Byte \in Numbers
BY ConstantsAssumption DEF Numbers

\* They are numbers.
LEMMA NumbersAreNat == Numbers \subseteq Nat
BY ConstantsAssumption DEF Numbers

\* An event goes to the observers: only its message and the numbers change.
LEMMA EventIsSent ==
    ASSUME NEW s, ThreadGood(s), NEW e \in {"CONFIRM", "WARN", "ALARM"}
    PROVE  LET r == send_event(s, e)
           IN  ThreadGood(r) /\ r.state = s.state /\ r.rep_count = s.rep_count /\ r.step = "address"
<1>1. s.evt_no \in Nat /\ s.sequ_no \in Nat /\ s.evt_no \in Numbers /\ s.sequ_no \in Numbers
    BY NumbersAreNat DEF ThreadGood
<1>2. PICK no \in Numbers : no = IF e = "CONFIRM" THEN s.evt_no ELSE (s.evt_no + 1) % Byte
    BY <1>1, NumbersWrap
<1>3. PICK q \in Numbers : q = (s.sequ_no + 1) % Byte
    BY <1>1, NumbersWrap
<1>4. PICK c : c = <<e, no, s.sequ_no>>
    OBVIOUS
<1>5. Telling(c)
    <2>1. e \in Words /\ e # "answer"
        BY DEF Words
    <2>2. no \in Words /\ s.sequ_no \in Words
        BY <1>1, NumbersAreNat, WordsHave
    <2> QED BY <1>4, <2>1, <2>2, EventIsContent DEF Telling
<1> DEFINE r == [s EXCEPT !.evt_no = no, !.cmd = c, !.sequ_no = q, !.to = 1, !.step = "address"]
<1>6. send_event(s, e) = r
    BY <1>2, <1>3, <1>4 DEF send_event
<1>7. ThreadGood(r) /\ r.state = s.state /\ r.rep_count = s.rep_count /\ r.step = "address"
    BY <1>5 DEF ThreadGood, Steps
<1> QED BY <1>6, <1>7

\* The repetitions of the last direction are counted up to the limit.
LEMMA CountedFollows ==
    ASSUME NEW s, ThreadGood(s), NEW b \in Seen, NEW c \in Seen, Follows(s, b, c),
           NEW d \in Directions
    PROVE  LET r == Counted(s, d)
           IN  /\ ThreadGood(r) /\ r.step = s.step /\ r.state = d
               /\ r.rep_count = IF c # d THEN 0 ELSE IF b # c THEN REP_LIMIT ELSE REP_LIMIT + 1
<1>0. d \in Seen /\ d # -1
    BY DEF Seen, Directions
<1>1. CASE s.state = d
    <2>1. PICK k : k = IF s.rep_count < REP_LIMIT THEN s.rep_count + 1 ELSE s.rep_count
        OBVIOUS
    <2>2. k \in Repeats /\ k = IF b # c THEN REP_LIMIT ELSE REP_LIMIT + 1
        <3>1. c # -1
            BY <1>0, <1>1 DEF Follows
        <3>2. s.rep_count = IF b # c THEN 0 ELSE REP_LIMIT + 1
            BY <3>1 DEF Follows
        <3>3. k = IF b # c THEN REP_LIMIT ELSE REP_LIMIT + 1
            BY <2>1, <3>2 DEF REP_LIMIT
        <3> QED BY <3>3 DEF Repeats, REP_LIMIT
    <2>3. Counted(s, d) = [s EXCEPT !.rep_count = k]
        BY <1>1, <2>1 DEF Counted
    <2>4. /\ ThreadGood([s EXCEPT !.rep_count = k])
          /\ [s EXCEPT !.rep_count = k].rep_count = k
          /\ [s EXCEPT !.rep_count = k].state = s.state
          /\ [s EXCEPT !.rep_count = k].step = s.step
        BY <2>2 DEF ThreadGood
    <2>5. c = d
        BY <1>1 DEF Follows
    <2> QED BY <1>1, <2>2, <2>3, <2>4, <2>5
<1>2. CASE s.state # d
    <2>1. Counted(s, d) = [s EXCEPT !.state = d, !.rep_count = 0]
        BY <1>2 DEF Counted
    <2>2. 0 \in Repeats
        BY DEF Repeats, REP_LIMIT
    <2>3. c # d
        BY <1>2 DEF Follows
    <2>4. LET r == [s EXCEPT !.state = d, !.rep_count = 0]
          IN  ThreadGood(r) /\ r.state = d /\ r.rep_count = 0 /\ r.step = s.step
        BY <1>0, <2>2 DEF ThreadGood
    <2> QED BY <2>1, <2>3, <2>4
<1> QED BY <1>1, <1>2

\* An orientation is announced when it comes for the second time in a row.
LEMMA CheckStateFollows ==
    ASSUME NEW s, ThreadGood(s), NEW b \in Seen, NEW c \in Seen, Follows(s, b, c),
           NEW d \in Directions, s.step = "sleep"
    PROVE  LET r == check_state(s, d)
           IN  /\ ThreadGood(r) /\ Follows(r, c, d)
               /\ r.step # "sleep" <=> d \in 1..3 /\ c = d /\ b # c
<1>1. PICK x : x = Counted(s, d)
    OBVIOUS
<1>2. /\ ThreadGood(x) /\ x.step = "sleep" /\ x.state = d
      /\ x.rep_count = IF c # d THEN 0 ELSE IF b # c THEN REP_LIMIT ELSE REP_LIMIT + 1
    BY <1>1, CountedFollows
<1>3. CASE x.rep_count # REP_LIMIT
    <2>1. check_state(s, d) = x
        BY <1>1, <1>3 DEF check_state
    <2>2. Follows(x, c, d)
        BY <1>2, <1>3 DEF Follows, Directions, REP_LIMIT
    <2> QED BY <1>2, <1>3, <2>1, <2>2 DEF REP_LIMIT
<1>4. CASE x.rep_count = REP_LIMIT
    <2>1. PICK past : past = [x EXCEPT !.rep_count = REP_LIMIT + 1]
        OBVIOUS
    <2>2. c = d /\ b # c
        BY <1>2, <1>4 DEF REP_LIMIT
    <2>3. PICK l \in Repeats : l = REP_LIMIT + 1
        BY DEF Repeats, REP_LIMIT
    <2>4. ThreadGood(past) /\ past.state = d /\ past.rep_count = REP_LIMIT + 1 /\ past.step = "sleep"
        BY <1>2, <2>1, <2>3 DEF ThreadGood
    <2>5. \A r : r.state = d /\ r.rep_count = REP_LIMIT + 1 => Follows(r, c, d)
        BY <2>2 DEF Follows, Directions
    <2>6. CASE d = 0
        <3>1. check_state(s, d) = past
            BY <1>1, <1>2, <1>4, <2>1, <2>6 DEF check_state
        <3> QED BY <2>4, <2>5, <2>6, <3>1
    <2>7. CASE d \in 1..3
        <3>1. \E e \in {"CONFIRM", "WARN", "ALARM"} : check_state(s, d) = send_event(past, e)
            BY <1>1, <1>2, <1>4, <2>1, <2>7 DEF check_state, evt_handler_ok,
                evt_handler_alarm, evt_handler_warn
        <3> QED BY <2>2, <2>4, <2>5, <2>7, <3>1, EventIsSent
    <2> QED BY <2>6, <2>7 DEF Directions
<1> QED BY <1>3, <1>4

\* The inductive invariant: good nodes, letters in the air, a thread that knows the last
\* directions, a budget that is not overdrawn.
NodesGood == \A n \in DOMAIN node : NodeGood(node[n])
NetGood == net \subseteq Letters
SenseGood ==
    /\ ThreadGood(sense)
    /\ seen \in Seq(Seen) /\ Len(seen) = 3 /\ Follows(sense, seen[2], seen[3])
    /\ said \in Seq(Contents)
BudgetGood == left \in [Kinds -> Nat]
IInv == NodesGood /\ NetGood /\ SenseGood /\ BudgetGood

\* What a step may do to a node and its server.
NodesStay == \A n \in DOMAIN node :
    \/ Kept(node[n], node'[n]) /\ left'["server"] = left["server"]
    \/ node'[n] = node[n]
    \/ node[n].status = "up" /\ Started(node[n], node'[n])

\* When a step announces an event.
Announces ==
    seen' # seen =>
          (said' # said <=> /\ seen'[3] \in 1..3
                            /\ seen'[2] = seen'[3] /\ seen'[1] # seen'[2])

\* One node is replaced by a good one.
LEMMA OneChanges ==
    ASSUME NodesGood, NEW n \in nodes, NEW x, NodeGood(x), Becomes(n, x)
    PROVE  /\ NodesGood' /\ node'[n] = x
           /\ \A k \in nodes \ {n} : node'[k] = node[k]
BY DEF NodesGood, Becomes, nodes

\* One node is replaced by one that keeps its server.
LEMMA OneKept ==
    ASSUME NodesGood, NEW n \in nodes, NEW x, Kept(node[n], x), Becomes(n, x),
           left'["server"] = left["server"]
    PROVE  NodesGood' /\ NodesStay
<1>1. NodeGood(x)
    BY DEF Kept
<1>2. NodesGood' /\ node'[n] = x /\ \A k \in nodes \ {n} : node'[k] = node[k]
    BY <1>1, OneChanges
<1> QED BY <1>2 DEF NodesStay, nodes

\* A command costs what is left of its kind.
LEMMA Spending ==
    ASSUME BudgetGood, NEW k \in Kinds, Spend(k)
    PROVE  BudgetGood' /\ (k # "server" => left'["server"] = left["server"])
<1>1. left[k] \in Nat /\ left[k] > 0 /\ left' = [left EXCEPT ![k] = left[k] - 1]
    BY DEF BudgetGood, Spend
<1>2. left[k] - 1 \in Nat
    BY <1>1
<1>3. "server" \in Kinds
    BY DEF Kinds
<1> QED BY <1>1, <1>2, <1>3 DEF BudgetGood

\* Where the gyroscope's thread does not run nothing is announced.
LEMMA SenseStays ==
    ASSUME SenseGood, UNCHANGED <<sense, seen, said>>
    PROVE  SenseGood' /\ Announces
BY DEF SenseGood, Announces

\* What all commands do.
LEMMA Commands ==
    ASSUME BudgetGood, SenseGood, NEW n \in nodes, NEW k \in Kinds, Command(n, k)
    PROVE  /\ BudgetGood' /\ SenseGood' /\ Announces /\ node[n].status = "up"
           /\ k # "server" => left'["server"] = left["server"]
BY Spending, SenseStays DEF Command, Up

\* The kinds of commands.
LEMMA KindsAre ==
    {"set", "init", "server", "send", "ign", "light", "foreign", "sample"} \subseteq Kinds
BY DEF Kinds

\* The commands of the shells.
LEMMA ShellStep ==
    ASSUME IInv, NEW n \in nodes, Shell(n)
    PROVE  IInv' /\ NodesStay /\ Announces
<1>0. NodesGood /\ NetGood /\ SenseGood /\ BudgetGood /\ NodeGood(node[n])
    BY DEF IInv, NodesGood, nodes
<1>1. CASE Set(n)
    <2>1. PICK i \in NewIds : Becomes(n, AfterSet(node[n], i))
        BY <1>1 DEF Set
    <2>2. i \in Nat
        BY ConstantsAssumption
    <2>3. Kept(node[n], AfterSet(node[n], i))
        BY <1>0, <2>2, SetKeeps
    <2>4. Command(n, "set") /\ net' = net
        BY <1>1 DEF Set
    <2>5. BudgetGood' /\ SenseGood' /\ Announces /\ left'["server"] = left["server"]
        BY <1>0, <2>4, Commands, KindsAre
    <2>6. NodesGood' /\ NodesStay
        BY <1>0, <2>1, <2>3, <2>5, OneKept
    <2> QED BY <1>0, <2>4, <2>5, <2>6 DEF IInv, NetGood
<1>2. CASE Initialize(n)
    <2>1. PICK c \in {"n", "r"} : Becomes(n, AfterInit(node[n], c))
        BY <1>2 DEF Initialize
    <2>3. Kept(node[n], AfterInit(node[n], c))
        BY <1>0, InitKeeps
    <2>4. Command(n, "init") /\ net' = net
        BY <1>2 DEF Initialize
    <2>5. BudgetGood' /\ SenseGood' /\ Announces /\ left'["server"] = left["server"]
        BY <1>0, <2>4, Commands, KindsAre
    <2>6. NodesGood' /\ NodesStay
        BY <1>0, <2>1, <2>3, <2>5, OneKept
    <2> QED BY <1>0, <2>4, <2>5, <2>6 DEF IInv, NetGood
<1>3. CASE Server(n)
    <2>1. PICK argv \in Arguments, o \in BOOLEAN, b \in BOOLEAN :
              Becomes(n, AfterServer(node[n], argv, o, b))
        BY <1>3 DEF Server, Arguments
    <2>4. Command(n, "server") /\ net' = net
        BY <1>3 DEF Server
    <2>5. BudgetGood' /\ SenseGood' /\ Announces /\ node[n].status = "up"
        BY <1>0, <2>4, Commands, KindsAre
    <2>6. Started(node[n], AfterServer(node[n], argv, o, b))
        BY <1>0, <2>5, ServerStarts
    <2>7. NodeGood(AfterServer(node[n], argv, o, b))
        BY <2>6 DEF Started
    <2>8. /\ NodesGood' /\ node'[n] = AfterServer(node[n], argv, o, b)
          /\ \A k \in nodes \ {n} : node'[k] = node[k]
        BY <1>0, <2>1, <2>7, OneChanges
    <2>9. NodesStay
        BY <2>5, <2>6, <2>8 DEF NodesStay, nodes
    <2> QED BY <1>0, <2>4, <2>5, <2>8, <2>9 DEF IInv, NetGood
<1>4. CASE Send(n)
    <2>1. PICK to \in Addresses \ {node[n].hw}, t \in Texts, o \in BOOLEAN :
              LET sent == AfterSend(node[n], to, <<t>>, o)
              IN  Becomes(n, sent.node) /\ net' = net \cup sent.out
        BY <1>4 DEF Send
    <2>2. to \in Hosts
        <3>1. PICK k \in nodes : to = node[k].hw /\ to # 0
            BY <2>1 DEF Addresses
        <3>2. to \in LowBytes
            BY <1>0, <3>1 DEF NodesGood, nodes, NodeGood, IsTyped
        <3> QED BY <3>1, <3>2 DEF LowBytes, Hosts
    <2>3. Handles(node[n], AfterSend(node[n], to, <<t>>, o))
        BY <1>0, <2>2, SendHandles
    <2>4. Command(n, "send")
        BY <1>4 DEF Send
    <2>5. BudgetGood' /\ SenseGood' /\ Announces /\ left'["server"] = left["server"]
        BY <1>0, <2>4, Commands, KindsAre
    <2>6. NodesGood' /\ NodesStay
        BY <1>0, <2>1, <2>3, <2>5, OneKept DEF Handles
    <2>7. NetGood'
        BY <1>0, <2>1, <2>3 DEF Handles, NetGood
    <2> QED BY <2>5, <2>6, <2>7 DEF IInv
<1>5. CASE Ignore(n)
    <2>1. PICK a \in Addresses, r \in BOOLEAN : Becomes(n, AfterIgnore(node[n], a, r))
        BY <1>5 DEF Ignore
    <2>3. Kept(node[n], AfterIgnore(node[n], a, r))
        BY <1>0, IgnoreKeeps
    <2>4. Command(n, "ign") /\ net' = net
        BY <1>5 DEF Ignore
    <2>5. BudgetGood' /\ SenseGood' /\ Announces /\ left'["server"] = left["server"]
        BY <1>0, <2>4, Commands, KindsAre
    <2>6. NodesGood' /\ NodesStay
        BY <1>0, <2>1, <2>3, <2>5, OneKept
    <2> QED BY <1>0, <2>4, <2>5, <2>6 DEF IInv, NetGood
<1>6. CASE Light(n)
    <2>4. Command(n, "light") /\ net' = net
        BY <1>6 DEF Light
    <2>1. PICK x : Becomes(n, x) /\ \/ \E c : x = light_set_rgb(node[n], c)
                                    \/ \E s, d : x = light_on_data(node[n], s, d)
        BY <1>6 DEF Light
    <2>3. Kept(node[n], x)
        BY <1>0, <2>1, LightKeeps
    <2>5. BudgetGood' /\ SenseGood' /\ Announces /\ left'["server"] = left["server"]
        BY <1>0, <2>4, Commands, KindsAre
    <2>6. NodesGood' /\ NodesStay
        BY <1>0, <2>1, <2>3, <2>5, OneKept
    <2> QED BY <1>0, <2>4, <2>5, <2>6 DEF IInv, NetGood
<1> QED BY <1>1, <1>2, <1>3, <1>4, <1>5, <1>6 DEF Shell

\* A datagram that is forwarded keeps its destination and what it carries.
LEMMA ForwardedLetters ==
    ASSUME NEW x, NodeGood(x), NEW m \in Letters
    PROVE  Forwarded(x, m) \subseteq Letters
<1>1. CASE m.hops = 0
    BY <1>1 DEF Forwarded
<1>2. CASE m.hops # 0
    <2>1. PICK h : h = m.hops - 1
        OBVIOUS
    <2>2. m \in Datagrams /\ (m.data[1] = "answer" => m.to = m.data[2])
        BY DEF Letters
    <2>3. h \in 0..HopLimit
        BY <1>2, <2>1, <2>2, ConstantsAssumption DEF Datagrams
    <2>4. x.board \in Nat /\ x.hw \in LowBytes
        BY DEF NodeGood, IsTyped
    <2>5. PICK f : f = [m EXCEPT !.by = x.board, !.at = x.hw, !.hops = h]
        OBVIOUS
    <2>6. f \in Datagrams /\ f.to = m.to /\ f.data = m.data
        BY <2>2, <2>3, <2>4, <2>5 DEF Datagrams
    <2>7. Forwarded(x, m) = {f}
        BY <1>2, <2>1, <2>5 DEF Forwarded
    <2>8. f \in Letters
        BY <2>2, <2>6 DEF Letters
    <2> QED BY <2>7, <2>8
<1> QED BY <1>1, <1>2

\* A datagram is lost.
LEMMA LoseStep ==
    ASSUME IInv, NEW m \in net, Lose(m)
    PROVE  IInv' /\ NodesStay /\ Announces
<1>0. NodesGood /\ NetGood /\ SenseGood /\ BudgetGood
    BY DEF IInv
<1>1. SenseGood' /\ Announces
    BY <1>0, SenseStays DEF Lose
<1>2. NodesGood' /\ NetGood' /\ BudgetGood' /\ NodesStay
    BY <1>0 DEF Lose, NodesGood, NetGood, BudgetGood, NodesStay
<1> QED BY <1>1, <1>2 DEF IInv

\* A datagram is received: noted, queued or forwarded.
LEMMA ReceiveStep ==
    ASSUME IInv, NEW m \in net, NEW n \in nodes, Receive(m, n)
    PROVE  IInv' /\ NodesStay /\ Announces
<1>0. NodesGood /\ NetGood /\ SenseGood /\ BudgetGood /\ NodeGood(node[n]) /\ m \in Letters
    BY DEF IInv, NodesGood, nodes, NetGood
<1>1. SenseGood' /\ Announces /\ left' = left /\ BudgetGood'
    BY <1>0, SenseStays DEF Receive, BudgetGood
<1>2. PICK x : x = AfterFrame(node[n], m)
    OBVIOUS
<1>3. Kept(node[n], x) /\ NodeGood(x)
    BY <1>0, <1>2, FrameKeeps DEF Kept
<1>4. Kept(node[n], Queued(x, m))
    <2>1. m \in Datagrams
        BY <1>0 DEF Letters
    <2> QED BY <1>3, <2>1, QueuedAlike, AlikeKept, KeptTrans DEF NodeGood
<1>5. \/ Becomes(n, Queued(x, m)) /\ net' = net \ {m}
      \/ Becomes(n, x) /\ net' = (net \ {m}) \cup Forwarded(x, m)
    BY <1>2 DEF Receive
<1>6. NodesGood' /\ NodesStay
    BY <1>0, <1>1, <1>3, <1>4, <1>5, OneKept
<1>7. NetGood'
    BY <1>0, <1>3, <1>5, ForwardedLetters DEF NetGood
<1> QED BY <1>1, <1>6, <1>7 DEF IInv

\* A host behind the gateway sends.
LEMMA ForeignStep ==
    ASSUME IInv, NEW n \in nodes, Foreign(n)
    PROVE  IInv' /\ NodesStay /\ Announces
<1>0. NodesGood /\ NetGood /\ SenseGood /\ BudgetGood /\ NodeGood(node[n])
    BY DEF IInv, NodesGood, nodes
<1>1. SenseGood' /\ Announces
    BY <1>0, SenseStays DEF Foreign
<1>2. BudgetGood'
    BY <1>0, Spending, KindsAre DEF Foreign
<1>3. NodesGood' /\ NodesStay
    BY <1>0 DEF Foreign, NodesGood, NodesStay
<1>4. PICK d \in {<<t>> : t \in Texts} \cup {<<"ALARM", 1, 1>>} :
           net' = net \cup {[from |-> Gateway, by |-> 0, at |-> Gateway, hops |-> 0,
                             prefix |-> "fe80", to |-> node[n].hw, port |-> node[n].port, data |-> d]}
    BY DEF Foreign
<1>5. d \in Contents /\ d[1] # "answer"
    <2>1. CASE d \in {<<t>> : t \in Texts}
        BY <2>1, TextIsContent, WordsHave, ConstantsAssumption
    <2>2. CASE d = <<"ALARM", 1, 1>>
        <3>1. "ALARM" \in Words /\ 1 \in Words
            BY DEF Words
        <3> QED BY <2>2, <3>1, EventIsContent
    <2> QED BY <2>1, <2>2
<1>6. node[n].hw \in Ids /\ node[n].port \in Ids
    BY <1>0, IdsAreNat DEF NodeGood, IsTyped
<1>7. Gateway \in Hosts /\ Gateway \in LowBytes /\ 0 \in 0..HopLimit /\ 0 \in Nat
    BY ConstantsAssumption DEF Gateway, Hosts, LowBytes
<1>8. PICK f : f = [from |-> Gateway, by |-> 0, at |-> Gateway, hops |-> 0, prefix |-> "fe80",
                             to |-> node[n].hw, port |-> node[n].port, data |-> d]
    OBVIOUS
<1>9. f \in Datagrams /\ f.data = d
    BY <1>5, <1>6, <1>7, <1>8 DEF Datagrams
<1>10. f \in Letters
    BY <1>5, <1>9 DEF Letters
<1>11. NetGood'
    BY <1>0, <1>4, <1>8, <1>10 DEF NetGood
<1> QED BY <1>1, <1>2, <1>3, <1>11 DEF IInv

\* The threads that serve UDP, and the application server.
LEMMA ServeStep ==
    ASSUME IInv, NEW n \in nodes, Serve(n) \/ ReadRelayed(n)
    PROVE  IInv' /\ NodesStay /\ Announces
<1>0. NodesGood /\ NetGood /\ SenseGood /\ BudgetGood /\ NodeGood(node[n])
    BY DEF IInv, NodesGood, nodes
<1>1. SenseGood' /\ Announces /\ left' = left /\ BudgetGood'
    BY <1>0, SenseStays DEF Serve, ReadRelayed, BudgetGood
<1>2. CASE Serve(n)
    <2>1. PICK o \in BOOLEAN : LET served == AfterServe(node[n], o)
           IN  Becomes(n, served.node) /\ net' = net \cup served.out
        BY <1>2 DEF Serve
    <2>2. node[n].left > 0 \/ node[n].inbox # <<>>
        BY <1>2 DEF Serve
    <2>3. Handles(node[n], AfterServe(node[n], o))
        BY <1>0, <2>2, ServeHandles
    <2>4. NodesGood' /\ NodesStay
        BY <1>0, <1>1, <2>1, <2>3, OneKept DEF Handles
    <2>5. NetGood'
        BY <1>0, <2>1, <2>3 DEF Handles, NetGood
    <2> QED BY <1>1, <2>4, <2>5 DEF IInv
<1>3. CASE ReadRelayed(n)
    <2>1. PICK x : x = ccnl_riot_appserver(node[n])
        OBVIOUS
    <2>2. Kept(node[n], x)
        BY <1>0, <2>1, RelayingKeeps DEF ccnl_riot_appserver
    <2>3. Becomes(n, x) /\ net' = net
        BY <1>3, <2>1 DEF ReadRelayed
    <2>4. NodesGood' /\ NodesStay
        BY <1>0, <1>1, <2>2, <2>3, OneKept
    <2> QED BY <1>0, <1>1, <2>3, <2>4 DEF IInv, NetGood
<1> QED BY <1>2, <1>3
\* What Append() adds is at the end.
LEMMA Appended ==
    ASSUME NEW S, NEW t \in Seq(S), NEW d \in S
    PROVE  /\ Append(t, d) \in Seq(S) /\ Len(Append(t, d)) = Len(t) + 1
           /\ \A i \in 1..Len(t) : Append(t, d)[i] = t[i]
           /\ Append(t, d)[Len(t) + 1] = d
<1>1. Append(t, d) \in Seq(S) /\ Len(Append(t, d)) = Len(t) + 1
    OBVIOUS
<1>2. \A i \in 1..Len(t) : Append(t, d)[i] = t[i]
    OBVIOUS
<1>3. Append(t, d)[Len(t) + 1] = d
    OBVIOUS
<1> QED BY <1>1, <1>2, <1>3

\* The history of three directions takes another.
LEMMA Shifted ==
    ASSUME NEW S, NEW s \in Seq(S), Len(s) = 3, NEW d \in S
    PROVE  /\ s[2] \in S /\ s[3] \in S
           /\ Append(Tail(s), d) \in Seq(S) /\ Len(Append(Tail(s), d)) = 3
           /\ Append(Tail(s), d)[1] = s[2] /\ Append(Tail(s), d)[2] = s[3]
           /\ Append(Tail(s), d)[3] = d
<1>1. s[2] \in S /\ s[3] \in S
    OBVIOUS
<1>2. PICK t : t = Tail(s)
    OBVIOUS
<1>3. t \in Seq(S) /\ Len(t) = 2 /\ t[1] = s[2] /\ t[2] = s[3]
    <2>1. s # <<>>
        OBVIOUS
    <2>2. /\ t \in Seq(S) /\ Len(t) = Len(s) - 1
          /\ \A i \in 1..Len(t) : t[i] = s[i + 1]
        BY <1>2, <2>1, HeadTailProperties
    <2> QED BY <2>2
<1>4. PICK u : u = Append(t, d)
    OBVIOUS
<1>5. /\ u \in Seq(S) /\ Len(u) = Len(t) + 1 /\ u[Len(t) + 1] = d
      /\ \A i \in 1..Len(t) : u[i] = t[i]
    <2>1. t \in Seq(S)
        BY <1>3
    <2> QED BY ONLY <2>1, <1>4, d \in S, Appended
<1>6. u \in Seq(S) /\ Len(u) = 3 /\ u[1] = t[1] /\ u[2] = t[2] /\ u[3] = d
    <2>1. Len(t) = 2 /\ 1 \in 1..2 /\ 2 \in 1..2 /\ 2 + 1 = 3
        BY <1>3
    <2> QED BY <1>5, <2>1
<1> QED BY <1>1, <1>2, <1>3, <1>4, <1>6

\* The gyroscope's thread.
LEMMA SenseStep ==
    ASSUME IInv, NEW n \in nodes, sensethread(n) \/ SenseAddresses(n) \/ SenseSends(n)
    PROVE  IInv' /\ NodesStay /\ Announces
<1>0. NodesGood /\ NetGood /\ SenseGood /\ BudgetGood /\ NodeGood(node[n]) /\ ThreadGood(sense)
    BY DEF IInv, NodesGood, nodes, SenseGood
<1>1. CASE sensethread(n)
    <2>1. BudgetGood' /\ left'["server"] = left["server"] /\ net' = net
        BY <1>0, <1>1, Spending, KindsAre DEF sensethread
    <2>2. PICK d \in Directions : sense' = check_state(sense, d) /\ seen' = Append(Tail(seen), d)
        BY <1>1 DEF sensethread
    <2>3. PICK b, c : b = seen[2] /\ c = seen[3] /\ Follows(sense, b, c)
        BY <1>0 DEF SenseGood
    <2>4. d \in Seen
        BY DEF Seen
    <2>5. /\ b \in Seen /\ c \in Seen /\ seen' \in Seq(Seen) /\ Len(seen') = 3
          /\ seen'[1] = b /\ seen'[2] = c /\ seen'[3] = d
        <3>1. seen \in Seq(Seen) /\ Len(seen) = 3
            BY <1>0 DEF SenseGood
        <3> QED BY <2>2, <2>3, <2>4, <3>1, Shifted
    <2>6. PICK r : r = check_state(sense, d)
        OBVIOUS
    <2>7. /\ ThreadGood(r) /\ Follows(r, c, d)
          /\ r.step # "sleep" <=> d \in 1..3 /\ c = d /\ b # c
        BY <1>0, <1>1, <2>3, <2>5, <2>6, CheckStateFollows DEF sensethread
    <2>8. sense' = r
        BY <2>2, <2>6
    <2>9. said' = IF r.step = "sleep" THEN said ELSE Append(said, r.cmd)
        BY <1>1, <2>8 DEF sensethread
    <2>10. said \in Seq(Contents) /\ r.cmd \in Contents
        BY <1>0, <2>7 DEF SenseGood, ThreadGood, Telling
    <2>11. said' \in Seq(Contents) /\ (said' # said <=> r.step # "sleep")
        BY <2>9, <2>10
    <2>12. SenseGood'
        <3>1. ThreadGood(sense') /\ Follows(sense', c, d)
            BY <2>7, <2>8
        <3> QED BY <2>5, <2>11, <3>1 DEF SenseGood
    <2>13. Announces
        <3>2. said' # said <=> d \in 1..3 /\ c = d /\ b # c
            BY <2>7, <2>11
        <3> QED BY <2>5, <3>2, Zenon DEF Announces
    <2>14. Becomes(n, IF r.step = "sleep" THEN node[n] ELSE [node[n] EXCEPT !.led = r.cmd[1]])
        BY <1>1, <2>8 DEF sensethread
    <2>15. Kept(node[n], node[n]) /\ \A e : Kept(node[n], [node[n] EXCEPT !.led = e])
        BY <1>0, KeptSelf, LedAlike, AlikeKept DEF NodeGood
    <2>16. NodesGood' /\ NodesStay
        BY <1>0, <2>1, <2>14, <2>15, OneKept
    <2> QED BY <1>0, <2>1, <2>12, <2>13, <2>16 DEF IInv, NetGood
<1>2. CASE SenseAddresses(n)
    <2>1. PICK o \in BOOLEAN : Becomes(n, accel_send_address(node[n], Observers[sense.to], o))
        BY <1>2 DEF SenseAddresses
    <2>2. Observers[sense.to] = 1 /\ 1 \in LowBytes
        BY <1>0 DEF ThreadGood, Observers, LowBytes
    <2>3. Kept(node[n], accel_send_address(node[n], Observers[sense.to], o))
        BY <1>0, <2>2, AddressedAlike, AlikeKept DEF accel_send_address, NodeGood
    <2>4. UNCHANGED <<net, seen, said, left>> /\ sense' = [sense EXCEPT !.step = "send"]
        BY <1>2 DEF SenseAddresses
    <2>5. NodesGood' /\ NodesStay
        BY <1>0, <2>1, <2>3, <2>4, OneKept
    <2>6. ThreadGood(sense') /\ sense'.state = sense.state /\ sense'.rep_count = sense.rep_count
        BY <1>0, <2>4 DEF ThreadGood, Steps
    <2>7. SenseGood' /\ Announces
        BY <1>0, <2>4, <2>6 DEF SenseGood, Follows, Announces
    <2> QED BY <1>0, <2>4, <2>5, <2>7 DEF IInv, NetGood, BudgetGood
<1>3. CASE SenseSends(n)
    <2>1. /\ net' = net \cup SentTo(node[n], ServerPort, sense.cmd) /\ sense' = NextObserver(sense)
          /\ UNCHANGED <<node, seen, said, left>>
        BY <1>3 DEF SenseSends, accel_send_data
    <2>2. SentTo(node[n], ServerPort, sense.cmd) \subseteq Letters
        BY <1>0, PortsAreIds, SentToLetters DEF NodeGood, ThreadGood, Telling
    <2>3. sense' = [sense EXCEPT !.to = 1, !.step = "sleep"]
        BY <1>0, <2>1 DEF NextObserver, ThreadGood, Observers
    <2>4. ThreadGood(sense') /\ sense'.state = sense.state /\ sense'.rep_count = sense.rep_count
        BY <1>0, <2>3 DEF ThreadGood, Steps
    <2>5. SenseGood' /\ Announces
        BY <1>0, <2>1, <2>4 DEF SenseGood, Follows, Announces
    <2>6. NodesGood' /\ NodesStay /\ BudgetGood'
        BY <1>0, <2>1 DEF NodesGood, NodesStay, BudgetGood
    <2> QED BY <1>0, <2>1, <2>2, <2>5, <2>6 DEF IInv, NetGood
<1> QED BY <1>1, <1>2, <1>3

\* No step disturbs the inductive invariant.
LEMMA StepKeeps == IInv /\ [Next]_vars => IInv' /\ ((NodesStay /\ Announces) \/ UNCHANGED vars)
<1> SUFFICES ASSUME IInv, [Next]_vars PROVE IInv' /\ ((NodesStay /\ Announces) \/ UNCHANGED vars)
    OBVIOUS
<1>1. CASE UNCHANGED vars
    BY <1>1 DEF vars, IInv, NodesGood, NetGood, SenseGood, BudgetGood
<1>2. CASE Next
    <2>1. ASSUME NEW n \in nodes, Shell(n) \/ Foreign(n) \/ Serve(n) \/ ReadRelayed(n)
                        \/ sensethread(n) \/ SenseAddresses(n) \/ SenseSends(n)
          PROVE  IInv' /\ NodesStay /\ Announces
        BY <2>1, ShellStep, ForeignStep, ServeStep, SenseStep
    <2>2. ASSUME NEW m \in net, Lose(m) PROVE IInv' /\ NodesStay /\ Announces
        BY <2>2, LoseStep
    <2>3. ASSUME NEW m \in net, NEW n \in nodes, Receive(m, n) PROVE IInv' /\ NodesStay /\ Announces
        BY <2>3, ReceiveStep
    <2> QED BY <1>2, <2>1, <2>2, <2>3, Zenon DEF Next, Deliver
<1> QED BY <1>1, <1>2

\* It holds at the start.
LEMMA InitGood == Init => IInv
<1> SUFFICES ASSUME Init PROVE IInv
    OBVIOUS
<1>1. PICK s \in Setups : /\ node = [n \in DOMAIN s.programs |->
                                         [Boot(s.programs[n]) EXCEPT !.board = n]]
                          /\ left = s.budget
    BY DEF Init
<1>2. s.programs \in Seq(Programs) /\ s.budget \in [Kinds -> Nat]
    BY ConstantsAssumption
<1>3. ASSUME NEW n \in DOMAIN s.programs
      PROVE  NodeGood([Boot(s.programs[n]) EXCEPT !.board = n])
    <2>1. n \in Nat /\ s.programs[n] \in Programs
        BY <1>2
    <2> QED BY <2>1, BootIsGood, BoardIsGood
<1>4. NodesGood
    BY <1>1, <1>3 DEF NodesGood
<1>5. ThreadGood(AtStart)
    <2>1. Telling(<<"none", 0, 0>>)
        <3>1. "none" \in Words /\ 0 \in Words
            BY DEF Words
        <3> QED BY <3>1, EventIsContent DEF Telling
    <2>2. 0 \in Numbers /\ 0 \in Repeats /\ -1 \in Seen /\ "sleep" \in Steps
        BY ConstantsAssumption DEF Numbers, Repeats, Seen, Steps, REP_LIMIT
    <2> QED BY <2>1, <2>2 DEF ThreadGood, AtStart
<1>6. SenseGood
    <2>1. sense = AtStart /\ seen = <<-1, -1, -1>> /\ said = <<>>
        BY DEF Init
    <2>2. -1 \in Seen /\ Follows(AtStart, -1, -1)
        BY DEF Seen, Follows, AtStart
    <2>3. said \in Seq(Contents)
        BY <2>1
    <2>4. seen \in Seq(Seen) /\ Len(seen) = 3 /\ seen[2] = -1 /\ seen[3] = -1
        BY <2>1, <2>2
    <2> QED BY <1>5, <2>1, <2>2, <2>3, <2>4 DEF SenseGood
<1>7. NetGood /\ BudgetGood
    BY <1>1, <1>2 DEF Init, NetGood, BudgetGood
<1> QED BY <1>4, <1>6, <1>7 DEF IInv

\* Every reachable state has good nodes, letters in the air and a thread that knows the
\* last directions, whatever the user enters, whatever sockets fail and whatever is lost.
THEOREM AlwaysGood == Spec => []IInv
<1>1. Init => IInv
    BY InitGood
<1>2. IInv /\ [Next]_vars => IInv'
    BY StepKeeps
<1> QED BY <1>1, <1>2, PTL DEF Spec

\* The type invariant follows.
LEMMA TypesFollow == IInv => TypeOK
<1> SUFFICES ASSUME IInv PROVE TypeOK
    OBVIOUS
<1>1. ASSUME NEW n \in nodes
      PROVE  /\ node[n].program \in Programs /\ node[n].id \in 0..(Word - 1)
             /\ node[n].hw \in 0..255 /\ node[n].left \in 0..3
             /\ node[n].status \in {"up", "stuck", "broken"}
             /\ \A k \in DOMAIN node[n].inbox : node[n].inbox[k].to \in 0..(Word - 1)
    <2>1. IsTyped(node[n])
        BY DEF IInv, NodesGood, nodes, NodeGood
    <2>2. node[n].program \in Programs
        BY <2>1 DEF IsTyped
    <2>3. node[n].id \in 0..(Word - 1)
        <3>1. node[n].id \in Ids
            BY <2>1 DEF IsTyped
        <3> QED BY <3>1, Zenon DEF Ids
    <2>4. /\ node[n].hw \in 0..255 /\ node[n].left \in 0..3
          /\ node[n].status \in {"up", "stuck", "broken"}
        BY <2>1 DEF IsTyped, LowBytes, Owed, States
    <2>5. ASSUME NEW k \in DOMAIN node[n].inbox PROVE node[n].inbox[k].to \in 0..(Word - 1)
        <3>1. node[n].inbox[k] \in Datagrams
            BY <2>1 DEF IsTyped
        <3>2. node[n].inbox[k].to \in Ids
            BY <3>1 DEF Datagrams
        <3> QED BY <3>2, Zenon DEF Ids
    <2> QED BY <2>2, <2>3, <2>4, <2>5, Zenon
<1>2. ASSUME NEW m \in net
      PROVE  m.hops \in 0..HopLimit /\ m.from \in 1..255
    BY DEF IInv, NetGood, Letters, Datagrams, Hosts
<1>3. /\ sense.state \in {-1} \cup Directions /\ sense.rep_count \in 0..(REP_LIMIT + 1)
      /\ sense.evt_no \in 0..(Byte - 1) /\ sense.sequ_no \in 0..(Byte - 1)
      /\ sense.step \in {"sleep", "address", "send"}
    <2>1. /\ sense.state \in Seen /\ sense.rep_count \in Repeats
          /\ sense.evt_no \in Numbers /\ sense.sequ_no \in Numbers /\ sense.step \in Steps
        BY DEF IInv, SenseGood, ThreadGood
    <2>2. sense.state \in {-1} \cup Directions
        BY <2>1 DEF Seen
    <2>3. sense.rep_count \in 0..(REP_LIMIT + 1)
        BY <2>1 DEF Repeats
    <2>4. sense.evt_no \in 0..(Byte - 1) /\ sense.sequ_no \in 0..(Byte - 1)
        BY <2>1 DEF Numbers
    <2>5. sense.step \in {"sleep", "address", "send"}
        BY <2>1 DEF Steps
    <2> QED BY <2>2, <2>3, <2>4, <2>5, Zenon
<1> QED BY <1>1, <1>2, <1>3, Zenon DEF TypeOK

\* TypeOK: the addresses the stack uses fit into a byte because "init" checks them, RUM2
\* owes at most three answers after each, datagrams have bounded hops and real senders.
THEOREM TypeCorrect == Spec => []TypeOK
BY AlwaysGood, TypesFollow, PTL

\* AnswersFindTheAsker: RUM2's server sends its four answers, with pauses, to the last byte
\* of the asker's address, and that byte is the whole address.
THEOREM AskersAreAnswered == Spec => []AnswersFindTheAsker
<1>1. IInv => AnswersFindTheAsker
    BY DEF IInv, NetGood, Letters, AnswersFindTheAsker
<1> QED BY <1>1, AlwaysGood, PTL

\* What OneServer says of a step.
OneServerStep == \A n \in nodes : Guarded(n) =>
           /\ left'["server"] # left["server"] /\ node'[n].status = "broken"
                  => node[n].status = "broken"
           /\ node[n].served => node'[n].served /\ node'[n].port = node[n].port

\* It holds of every step from a state that satisfies the inductive invariant.
LEMMA StayServes == IInv /\ NodesStay => OneServerStep
<1> SUFFICES ASSUME IInv, NodesStay, NEW n \in nodes, Guarded(n)
             PROVE  /\ left'["server"] # left["server"] /\ node'[n].status = "broken"
                           => node[n].status = "broken"
                    /\ node[n].served => node'[n].served /\ node'[n].port = node[n].port
    BY DEF OneServerStep
<1>1. CASE Kept(node[n], node'[n]) /\ left'["server"] = left["server"]
    BY <1>1 DEF Kept
<1>2. CASE node'[n] = node[n]
    BY <1>2
<1>3. CASE node[n].status = "up" /\ Started(node[n], node'[n])
    BY <1>3 DEF Started, Guarded, WithUdpif
<1> QED BY <1>1, <1>2, <1>3 DEF NodesStay, nodes

\* OneServer: where udpif.c looks at its socket before it starts the server's thread, no
\* second thread is started on the stack of the first, and a server that works keeps its port.
THEOREM ServersAreStartedOnce == Spec => OneServer
<1>1. IInv /\ [Next]_vars => [OneServerStep]_vars
    BY StepKeeps, StayServes
<1>2. Spec => [][OneServerStep]_vars
    BY <1>1, AlwaysGood, PTL DEF Spec
<1> QED BY <1>2 DEF OneServer, OneServerStep

\* AnnouncedOnce: check_state() announces an orientation exactly when it is the second
\* of its kind in a row.
THEOREM NewsIsAnnouncedOnce == Spec => AnnouncedOnce
<1>1. IInv /\ [Next]_vars => [Announces]_vars
    BY StepKeeps
<1>2. Spec => [][Announces]_vars
    BY <1>1, AlwaysGood, PTL DEF Spec
<1> QED BY <1>2 DEF AnnouncedOnce, Announces

=============================================================================
