------------------------------ MODULE UdpDemos ------------------------------
(***************************************************************************)
(* The programs with one socket per command and a server thread without a  *)
(* guard: RUM, rpl_udp_router and, from inria-industry, udp-server and     *)
(* router (the last two with accel_udp are the demo of IETF 90).  Handlers *)
(* are functions as in UdpifDemos; opens, opened and bound say whether     *)
(* RIOT opens or binds a socket.                                           *)
(***************************************************************************)
EXTENDS DemoNode

(* A sending socket is opened for the command and closed after it.         *)
Once(x, prefix, to, text, opens) ==
    [node |-> x, out |-> IF opens THEN Sent(x, prefix, to % Word, ServerPort, text) ELSE {}]

(***************************************************************************)
(* RUM.  It adds no global address, but sends to one.                      *)
(***************************************************************************)
rum_fill_nc(x) == WithNeighbours(x, 0..19)
rum_init(x, as_root) ==
    IF ValidId(x.id) THEN WithMonitor(Joined(x, as_root, ~as_root, {}), 0) ELSE x
rum_rpl_udp_init(x, command) == rum_init(x, command = "r")
rum_rpl_udp_set_id(x, i) == SetId(x, i)
rum_rpl_udp_monitor(x, m) == Noted(x, m)
rum_rpl_udp_ignore(x, a) == Ignoring(x, a, FALSE)
rum_udp_server(x, opened, bound) == Serving(x, ServerPort, opened, bound)
rum_init_udp_server(x) ==
    [node |-> Taken(x),
     out |-> Sent(x, "fe80", Head(x.inbox).from, 0, <<"answer", Head(x.inbox).from>>)]
rum_udp_send(x, to, text, opens) == Once(x, "abcd", to, text, opens)
rum_main == rum_fill_nc(Fresh("RUM", 0))

(***************************************************************************)
(* rpl_udp_router.  Its global address and the one it sends to differ.     *)
(***************************************************************************)
rpl_init(x, command) ==
    IF command \in {"n", "r"} /\ ValidId(x.id)
    THEN WithMonitor(Joined(x, command = "r", command = "n", {<<"abcd:ef12", x.id>>}), 0)
    ELSE x
rpl_set_id(x, i) == SetId(x, i)
rpl_monitor(x, m) == Noted(x, m)
rpl_ignore(x, a) == Ignoring(x, a, FALSE)
rpl_udp_server(x, opened, bound) == Serving(x, ServerPort, opened, bound)
rpl_init_udp_server(x) == Silent(Taken(x))
rpl_udp_send(x, to, text, opens) == Once(x, "abcd", to, text, opens)
rpl_main == Fresh("rpl_udp_router", 0)

(***************************************************************************)
(* udp-server: the root of the demo, which shows on a web page what comes  *)
(* in.  Its command "init" calls RIOT's rpl_init() and not rpl_ex_init().  *)
(***************************************************************************)
srv_helper_ignore(x, a) == Ignoring(x, a, TRUE)
srv_fill_nc(x) == WithNeighbours(x, {x.id - 1, x.id + 1})
srv_rpl_udp_init(x, command) == x
srv_rpl_ex_init(x, command) ==
    IF command \in {"n", "r"} /\ ValidId(x.id)
    THEN WithMonitor(Joined(x, command = "r", command = "n", {}), 0)
    ELSE x
srv_rpl_udp_set_id(x, i) == SetId(x, i)
srv_rpl_udp_monitor(x, m) == Noted(x, m)
srv_rpl_udp_ignore(x, a, readable) ==
    IF x.tcmd \/ readable THEN srv_helper_ignore(x, a) ELSE Broken(x)
srv_udp_server(x, opened, bound) == Serving(x, ServerPort, opened, bound)

(* The last line printed is "bw <id> <payload> web".                       *)
srv_inet_request(x, src) == [x EXCEPT !.shown = <<x.id, IF src = 2 THEN 4 ELSE 6>>]
srv_init_udp_server(x) == Silent(srv_inet_request(Taken(x), Low(Head(x.inbox).from)))
srv_udp_send(x, to, text, opens) == Once(x, "fe80", to, text, opens)
srv_main ==
    srv_udp_server(srv_rpl_ex_init(srv_helper_ignore(srv_fill_nc(Fresh("udp-server", 1)), 3), "r"),
                   TRUE, TRUE)

(***************************************************************************)
(* router: passes what it receives on to CCN-lite's application server, as *)
(* a pointer to the one rmsg and the one buffer_main.  No monitor: it is   *)
(* compiled without WITH_MONITOR.                                          *)
(***************************************************************************)
rtr_fill_nc(x) == WithNeighbours(x, {x.id - 1, x.id + 1})
rtr_rpl_udp_init(x, command) == x
rtr_rpl_ex_init(x, command) ==
    IF command \in {"n", "r"} /\ ValidId(x.id)
    THEN Joined(x, command = "r", command = "n", {})
    ELSE x
rtr_rpl_udp_set_id(x, i) == SetId(x, i)
rtr_rpl_udp_ignore(x, a) == Ignoring(x, a, TRUE)
rtr_udp_server(x, opened, bound) == Serving(x, ServerPort, opened, bound)
rtr_init_udp_server(x) ==
    Silent([Taken(x) EXCEPT !.buffer = Head(x.inbox).data, !.rmsgs = @ + 1])
rtr_udp_send(x, to, text, opens) == Once(x, "fe80", to, text, opens)
rtr_main ==
    rtr_udp_server(rtr_rpl_ex_init(rtr_fill_nc(Fresh("router", 2)), "n"), TRUE, TRUE)

(* External: the application server, of a higher priority than the thread  *)
(* that serves UDP but not always waiting, reads what rmsg points to.      *)
ccnl_riot_appserver(x) == [x EXCEPT !.rmsgs = @ - 1]

=============================================================================
