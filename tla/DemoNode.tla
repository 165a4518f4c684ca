------------------------------ MODULE DemoNode ------------------------------
(***************************************************************************)
(* A node of the UDP demos (RUM, RUM2, cebit_router, rpl_udp_router and    *)
(* the light, sensor, router and server of inria-industry): the state its  *)
(* program keeps, what it asks RIOT's network stack to keep, and the steps *)
(* that all of these programs take in the same way.  What each program     *)
(* makes of them is in UdpifDemos and UdpDemos, the network in DemoNet.    *)
(*                                                                         *)
(* A handler is a function of the record x of its node.  Threads of one    *)
(* priority run until they wait: shell and server thread do not interrupt  *)
(* each other, the monitor (PRIORITY_MAIN - 2) comes before both.          *)
(***************************************************************************)
EXTENDS Integers, Sequences, FiniteSets

CONSTANTS
    HopLimit    \* bound: how often a datagram may be forwarded

Gateway == 23           \* GW_ADDRESS
ServerPort == 65281     \* SERVER_PORT, 0xFF01
Programs == {"RUM2", "cebit_router", "light", "accel_udp",
             "RUM", "rpl_udp_router", "udp-server", "router"}

(* Node board before its main(): id is what "set" sets, hw and global what the *)
(* stack uses; ll is the monitor's ll_src and shown the last "fw" line;    *)
(* server to port describe the server's thread and its socket, inbox what   *)
(* waits there, peer and left the answers it still owes; dest is the static             *)
(* socket_addr, sender says whether the static socket is open.             *)
Fresh(program, address) ==
    [program |-> program, board |-> 0, id |-> address, hw |-> 0, global |-> {}, is_root |-> FALSE,
     provider |-> FALSE, nc |-> {}, ignored |-> {}, tcmd |-> FALSE,
     monitor |-> FALSE, ll |-> 0, shown |-> <<0, 0>>, status |-> "up",
     server |-> FALSE, socket |-> FALSE, served |-> FALSE, port |-> 0, inbox |-> <<>>, peer |-> 0, left |-> 0,
     sender |-> FALSE, dest |-> 0, led |-> "off", buffer |-> <<>>, rmsgs |-> 0]

(* thread_create() on the stack of a thread that is alive: from then on    *)
(* nothing is known about the node.                                        *)
Broken(x) == [x EXCEPT !.status = "broken"]

Silent(x) == [node |-> x, out |-> {}]       \* nothing is sent
Taken(x) == [x EXCEPT !.inbox = Tail(@)]    \* what recvfrom() takes

Low(a) == a % 256                   \* the last byte of an address, uint8[15]
ValidId(i) == i # 0 /\ i <= 255     \* not (!id || (id > 255))

Word == 65536                       \* radio_address_t has 16 bits
SetId(x, i) == [x EXCEPT !.id = i % Word]

(* From net_if_set_hardware_address() to the end of "init": the link-local *)
(* address follows the hardware address, a global one may be added.        *)
Joined(x, root, provider, global) ==
    [x EXCEPT !.hw = x.id, !.is_root = @ \/ root, !.provider = @ \/ provider,
              !.global = @ \cup global]

WithMonitor(x, ll_src) ==
    IF x.monitor THEN Broken(x) ELSE [x EXCEPT !.monitor = TRUE, !.ll = ll_src]

WithNeighbours(x, S) == [x EXCEPT !.nc = @ \cup S]

(* The program tells the transceiver to ignore a; unless it is compiled    *)
(* with DBG_IGNORE the transceiver does not know the message.              *)
Ignoring(x, a, compiled) ==
    [x EXCEPT !.tcmd = TRUE, !.ignored = IF compiled THEN @ \cup {a} ELSE @]

(* The handler prints through tcmd.data, a null pointer before the first   *)
(* use: where memory at 0 cannot be read the node ends.                    *)
IgnoringCmd(x, a, compiled, readable) ==
    IF x.tcmd \/ readable THEN Ignoring(x, a, compiled) ELSE Broken(x)

(* The static socket is opened when it is first needed; without one        *)
(* sendto() fails.                                                         *)
Addressed(x, to, opens) == [x EXCEPT !.sender = @ \/ opens, !.dest = to]

Datagram(x, prefix, to, port, data) ==
    [from |-> x.hw, by |-> x.board, at |-> x.hw, hops |-> HopLimit, prefix |-> prefix, to |-> to,
     port |-> port, data |-> data]

(* Before "init" the interface has no address and nothing is sent.         *)
Sent(x, prefix, to, port, data) ==
    IF x.hw = 0 THEN {} ELSE {Datagram(x, prefix, to, port, data)}
SentTo(x, port, data) == IF x.sender THEN Sent(x, "fe80", x.dest, port, data) ELSE {}

(* The server's thread starts whether or not its socket could be opened   *)
(* and bound.  Without one recvfrom() fails at once, for ever, and no      *)
(* thread of the same or a lower priority runs again.                      *)
Serving(x, port, opened, bound) ==
    IF x.server THEN Broken(x)
    ELSE [x EXCEPT !.server = TRUE, !.socket = opened, !.served = opened /\ bound, !.port = port,
                   !.status = IF opened /\ bound THEN @ ELSE "stuck"]

(* Received by the transceiver and, if for this node, by IP: the monitor   *)
(* is told of the frame and then of the datagram.                          *)
Noted(x, m) == [x EXCEPT !.ll = m.at]

IsFor(x, m) == IF m.prefix = "fe80" THEN m.to = x.hw ELSE <<m.prefix, m.to>> \in x.global

Queued(x, m) ==
    IF x.server /\ x.served /\ m.port = x.port THEN [x EXCEPT !.inbox = Append(@, m)] ELSE x

(* The next hops of a datagram: a neighbour is reached directly, the rest  *)
(* directly too or, with a routing provider, over any neighbour.           *)
NextHops(x, to) ==
    IF to \in x.nc THEN {to} ELSE {to} \cup (IF x.provider THEN x.nc ELSE {})

Forwarded(x, m) ==
    IF m.hops = 0 THEN {} ELSE {[m EXCEPT !.by = x.board, !.at = x.hw, !.hops = @ - 1]}

=============================================================================
