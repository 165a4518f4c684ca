------------------------------ MODULE DemoNet ------------------------------
(***************************************************************************)
(* The UDP demos at work: two or three nodes that run the programs of      *)
(* UdpifDemos and UdpDemos, the user at their shells, the gyroscope, and a *)
(* network that loses and reorders datagrams.  Commands are budgeted.      *)
(***************************************************************************)
EXTENDS Gyroscope, UdpDemos

CONSTANTS
    Setups,     \* networks: the nodes' programs, and as a bound the budget,
                \* how often each kind of command is given
    NewIds,     \* the addresses the user sets
    Texts       \* the texts the user sends

(* The kinds of commands, of what comes from outside and of samples.       *)
Kinds == {"set", "init", "server", "send", "ign", "light", "foreign", "sample"}

(* Addresses are entered as unsigned numbers; "answer" marks RUM's and     *)
(* RUM2's answers and is no text of the user's.                            *)
ASSUME ConstantsAssumption ==
    /\ HopLimit \in Nat
    /\ Byte \in Nat \ {0}
    /\ \A s \in Setups : s.programs \in Seq(Programs) /\ s.budget \in [Kinds -> Nat]
    /\ NewIds \subseteq Nat
    /\ "answer" \notin Texts

VARIABLES
    node,       \* the records of the nodes
    net,        \* the datagrams in the air
    sense,      \* the gyroscope's thread, where a node runs accel_udp
    seen,       \* history: its last three directions
    said,       \* history: the events it announced
    left        \* what is left of the budget

vars == <<node, net, sense, seen, said, left>>
nodes == DOMAIN node

(* main() of each program                                                  *)
Boot(program) ==
    CASE program = "RUM2" -> rum2_main
      [] program = "cebit_router" -> cebit_main
      [] program = "light" -> light_main
      [] program = "accel_udp" -> accel_main
      [] program = "RUM" -> rum_main
      [] program = "rpl_udp_router" -> rpl_main
      [] program = "udp-server" -> srv_main
      [] program = "router" -> rtr_main

Init ==
    /\ \E s \in Setups : /\ node = [n \in DOMAIN s.programs |->
                                     [Boot(s.programs[n]) EXCEPT !.board = n]]
                         /\ left = s.budget
    /\ net = {}
    /\ sense = AtStart
    /\ seen = <<-1, -1, -1>>
    /\ said = <<>>

----------------------------------------------------------------------------
(* The commands of the shells                                              *)

Up(n) == node[n].status = "up"
Spend(k) == left[k] > 0 /\ left' = [left EXCEPT ![k] = @ - 1]
Becomes(n, x) == node' = [node EXCEPT ![n] = x]
Command(n, k) == Up(n) /\ Spend(k) /\ UNCHANGED <<sense, seen, said>>

AfterSet(x, i) ==
    CASE x.program = "RUM2" -> rum2_rpl_udp_set_id(x, i)
      [] x.program = "cebit_router" -> cebit_rpl_udp_set_id(x, i)
      [] x.program = "light" -> light_rpl_udp_set_id(x, i)
      [] x.program = "accel_udp" -> accel_rpl_udp_set_id(x, i)
      [] x.program = "RUM" -> rum_rpl_udp_set_id(x, i)
      [] x.program = "rpl_udp_router" -> rpl_set_id(x, i)
      [] x.program = "udp-server" -> srv_rpl_udp_set_id(x, i)
      [] x.program = "router" -> rtr_rpl_udp_set_id(x, i)

AfterInit(x, c) ==
    CASE x.program = "RUM2" -> rum2_rpl_udp_init(x, c)
      [] x.program = "cebit_router" -> cebit_rpl_udp_init(x, c)
      [] x.program = "light" -> light_rpl_udp_init(x, c)
      [] x.program = "accel_udp" -> accel_rpl_udp_init(x, c)
      [] x.program = "RUM" -> rum_rpl_udp_init(x, c)
      [] x.program = "rpl_udp_router" -> rpl_init(x, c)
      [] x.program = "udp-server" -> srv_rpl_udp_init(x, c)
      [] x.program = "router" -> rtr_rpl_udp_init(x, c)

AfterServer(x, argv, opened, bound) ==
    CASE x.program = "RUM2" -> rum2_udpif_shell_server(x, argv, opened, bound)
      [] x.program = "cebit_router" -> cebit_udpif_shell_server(x, argv, opened, bound)
      [] x.program = "light" -> light_udpif_shell_server(x, argv, opened, bound)
      [] x.program = "accel_udp" -> accel_udpif_shell_server(x, argv, opened, bound)
      [] x.program = "RUM" -> rum_udp_server(x, opened, bound)
      [] x.program = "rpl_udp_router" -> rpl_udp_server(x, opened, bound)
      [] x.program = "udp-server" -> srv_udp_server(x, opened, bound)
      [] x.program = "router" -> rtr_udp_server(x, opened, bound)

AfterSend(x, to, text, opens) ==
    CASE x.program = "RUM2" -> rum2_udpif_shell_send(x, to, text, opens)
      [] x.program = "cebit_router" -> cebit_udpif_shell_send(x, to, text, opens)
      [] x.program = "light" -> light_udpif_shell_send(x, to, text, opens)
      [] x.program = "accel_udp" -> accel_udpif_shell_send(x, to, text, opens)
      [] x.program = "RUM" -> rum_udp_send(x, to, text, opens)
      [] x.program = "rpl_udp_router" -> rpl_udp_send(x, to, text, opens)
      [] x.program = "udp-server" -> srv_udp_send(x, to, text, opens)
      [] x.program = "router" -> rtr_udp_send(x, to, text, opens)

AfterIgnore(x, a, readable) ==
    CASE x.program = "RUM2" -> rum2_rpl_udp_ignore_cmd(x, a, readable)
      [] x.program = "cebit_router" -> cebit_rpl_udp_ignore_cmd(x, a, readable)
      [] x.program = "light" -> light_rpl_udp_ignore_cmd(x, a, readable)
      [] x.program = "accel_udp" -> accel_rpl_udp_ignore_cmd(x, a, readable)
      [] x.program = "RUM" -> rum_rpl_udp_ignore(x, a)
      [] x.program = "rpl_udp_router" -> rpl_ignore(x, a)
      [] x.program = "udp-server" -> srv_rpl_udp_ignore(x, a, readable)
      [] x.program = "router" -> rtr_rpl_udp_ignore(x, a)

Addresses == {node[n].hw : n \in nodes} \ {0}

Set(n) ==
    /\ Command(n, "set")
    /\ \E i \in NewIds : Becomes(n, AfterSet(node[n], i))
    /\ UNCHANGED net
Initialize(n) ==
    /\ Command(n, "init")
    /\ \E c \in {"n", "r"} : Becomes(n, AfterInit(node[n], c))
    /\ UNCHANGED net
Server(n) ==
    /\ Command(n, "server")
    /\ \E argv \in {<<>>, <<7>>}, opened, bound \in BOOLEAN :
           Becomes(n, AfterServer(node[n], argv, opened, bound))
    /\ UNCHANGED net
(* To another node: accel_udp, sent to itself over a router, would answer  *)
(* itself for ever.                                                        *)
Send(n) ==
    /\ Command(n, "send")
    /\ \E to \in Addresses \ {node[n].hw}, text \in Texts, opens \in BOOLEAN :
           LET sent == AfterSend(node[n], to, <<text>>, opens)
           IN  Becomes(n, sent.node) /\ net' = net \cup sent.out
Ignore(n) ==
    /\ Command(n, "ign")
    /\ \E a \in Addresses, readable \in BOOLEAN : Becomes(n, AfterIgnore(node[n], a, readable))
    /\ UNCHANGED net

(* "confirm", "warn", "alarm", "light-off" and "color" of light            *)
Light(n) ==
    /\ node[n].program = "light" /\ Command(n, "light")
    /\ \/ \E e \in {"CONFIRM", "WARN", "ALARM"} :
              Becomes(n, light_on_data(node[n], 99, <<e, 12, 33>>))
       \/ \E c \in {"off", "colour"} : Becomes(n, light_set_rgb(node[n], c))
    /\ UNCHANGED net

----------------------------------------------------------------------------
(* External: the network.  A frame of node by is taken by any other that   *)
(* by may have meant, unless it ignores the frame's source at.             *)

Reaches(m, n) ==
    /\ node[n].hw # 0 /\ m.at \notin node[n].ignored
    /\ \/ m.by = 0
       \/ m.by # 0 /\ m.by # n /\ node[n].hw \in NextHops(node[m.by], m.to)

AfterFrame(x, m) ==
    IF ~x.monitor THEN x
    ELSE CASE x.program = "RUM2" -> rum2_rpl_udp_monitor(x, m)
           [] x.program = "cebit_router" -> cebit_rpl_udp_monitor(x, m)
           [] x.program = "light" -> light_rpl_udp_monitor(x, m)
           [] x.program = "accel_udp" -> accel_rpl_udp_monitor(x, m)
           [] x.program = "RUM" -> rum_rpl_udp_monitor(x, m)
           [] x.program = "rpl_udp_router" -> rpl_monitor(x, m)
           [] OTHER -> srv_rpl_udp_monitor(x, m)

Receive(m, n) ==
    /\ Reaches(m, n) /\ node[n].status # "broken"
    /\ LET x == AfterFrame(node[n], m)
       IN  IF IsFor(x, m)
           THEN Becomes(n, Queued(x, m)) /\ net' = net \ {m}
           ELSE Becomes(n, x) /\ net' = (net \ {m}) \cup Forwarded(x, m)
    /\ UNCHANGED <<sense, seen, said, left>>

Lose(m) ==
    /\ net' = net \ {m}
    /\ UNCHANGED <<node, sense, seen, said, left>>

Deliver == \E m \in net : Lose(m) \/ \E n \in nodes : Receive(m, n)

(* A host behind the gateway sends to a node.                              *)
Foreign(n) ==
    /\ node[n].hw # 0 /\ node[n].server /\ Spend("foreign")
    /\ \E data \in {<<t>> : t \in Texts} \cup {<<"ALARM", 1, 1>>} :
           net' = net \cup {[from |-> Gateway, by |-> 0, at |-> Gateway, hops |-> 0, prefix |-> "fe80",
                             to |-> node[n].hw, port |-> node[n].port, data |-> data]}
    /\ UNCHANGED <<node, sense, seen, said>>

----------------------------------------------------------------------------
(* The threads that serve UDP, and the gyroscope's                         *)

AfterServe(x, opens) ==
    CASE x.program = "RUM2" -> rum2_server_loop(x, opens)
      [] x.program = "cebit_router" -> cebit_server_loop(x)
      [] x.program = "light" -> light_server_loop(x)
      [] x.program = "accel_udp" -> accel_server_loop(x)
      [] x.program = "RUM" -> rum_init_udp_server(x)
      [] x.program = "rpl_udp_router" -> rpl_init_udp_server(x)
      [] x.program = "udp-server" -> srv_init_udp_server(x)
      [] x.program = "router" -> rtr_init_udp_server(x)

Serve(n) ==
    /\ Up(n) /\ (node[n].left > 0 \/ node[n].inbox # <<>>)
    /\ \E opens \in BOOLEAN :
           LET served == AfterServe(node[n], opens)
           IN  Becomes(n, served.node) /\ net' = net \cup served.out
    /\ UNCHANGED <<sense, seen, said, left>>

ReadRelayed(n) ==
    /\ Up(n) /\ node[n].rmsgs > 0
    /\ Becomes(n, ccnl_riot_appserver(node[n]))
    /\ UNCHANGED <<net, sense, seen, said, left>>

IsSensor(n) == node[n].program = "accel_udp" /\ Up(n)

sensethread(n) ==
    /\ IsSensor(n) /\ sense.step = "sleep" /\ Spend("sample")
    /\ \E dir \in Directions :
           /\ sense' = check_state(sense, dir)
           /\ seen' = Append(Tail(seen), dir)
    /\ said' = IF sense'.step = "sleep" THEN said ELSE Append(said, sense'.cmd)
    /\ Becomes(n, IF sense'.step = "sleep" THEN node[n]
                  ELSE [node[n] EXCEPT !.led = sense'.cmd[1]])
    /\ UNCHANGED net

SenseAddresses(n) ==
    /\ IsSensor(n) /\ sense.step = "address"
    /\ \E opens \in BOOLEAN :
           Becomes(n, accel_send_address(node[n], Observers[sense.to], opens))
    /\ sense' = [sense EXCEPT !.step = "send"]
    /\ UNCHANGED <<net, seen, said, left>>

SenseSends(n) ==
    /\ IsSensor(n) /\ sense.step = "send"
    /\ net' = net \cup accel_send_data(node[n], ServerPort, sense.cmd)
    /\ sense' = NextObserver(sense)
    /\ UNCHANGED <<node, seen, said, left>>

Shell(n) ==
    Set(n) \/ Initialize(n) \/ Server(n) \/ Send(n) \/ Ignore(n) \/ Light(n)

Next ==
    \/ \E n \in nodes : \/ Shell(n) \/ Foreign(n) \/ Serve(n) \/ ReadRelayed(n)
                        \/ sensethread(n) \/ SenseAddresses(n) \/ SenseSends(n)
    \/ Deliver

Spec == Init /\ [][Next]_vars

(* What is in the air arrives or is lost; a server's thread goes on.       *)
FairSpec == Spec /\ WF_vars(Deliver) /\ \A n \in 1..3 : WF_vars(n \in nodes /\ Serve(n))


----------------------------------------------------------------------------
(* Properties                                                              *)

(* Type correctness: addresses of nodes stay within 16 bits, LEDs and      *)
(* threads within their states, what waits at a server was meant for it.   *)
TypeOK ==
    /\ \A n \in nodes :
           /\ node[n].program \in Programs /\ node[n].id \in 0..(Word - 1)
           /\ node[n].hw \in 0..255 /\ node[n].left \in 0..3
           /\ node[n].status \in {"up", "stuck", "broken"}
           /\ \A k \in DOMAIN node[n].inbox : node[n].inbox[k].to \in 0..(Word - 1)
    /\ \A m \in net : m.hops \in 0..HopLimit /\ m.from \in 1..255
    /\ sense.state \in {-1} \cup Directions /\ sense.rep_count \in 0..(REP_LIMIT + 1)
    /\ sense.evt_no \in 0..(Byte - 1) /\ sense.sequ_no \in 0..(Byte - 1)
    /\ sense.step \in {"sleep", "address", "send"}

(* An answer of RUM2 goes to the node that asked, although all that is     *)
(* left of that node's address is its last byte: "init" accepts no address *)
(* that needs more, and a later "set" does not change what the stack uses. *)
AnswersFindTheAsker ==
    \A m \in net : m.data[1] = "answer" => m.to = m.data[2]

(* In the programs built on udpif.c the command "server" never starts a    *)
(* second thread on the stack of the first, whatever sockets fail, and a   *)
(* server that works keeps the port it was started with.                   *)
Guarded(n) == node[n].program \in {"RUM2", "cebit_router", "light", "accel_udp"}
OneServer ==
    [][\A n \in nodes : Guarded(n) =>
           /\ left'["server"] # left["server"] /\ node'[n].status = "broken"
                  => node[n].status = "broken"
           /\ node[n].served => node'[n].served /\ node'[n].port = node[n].port]_vars

(* An orientation is announced when it has been seen twice in a row, then, *)
(* and never again while it lasts.                                         *)
AnnouncedOnce ==
    [][seen' # seen =>
          (said' # said <=> /\ seen'[3] \in 1..3
                            /\ seen'[2] = seen'[3] /\ seen'[1] # seen'[2])]_vars

(* When nobody enters anything more and the sensor rests, the network      *)
(* falls silent: no two programs answer each other for ever.               *)
FallsSilent == <>[](net = {})

=============================================================================
