----------------------------- MODULE UdpifDemos -----------------------------
(***************************************************************************)
(* The programs whose UDP interface is udpif.c: RUM2, cebit_router and,    *)
(* from inria-industry, light and accel_udp, the node with the gyroscope.  *)
(* Each keeps its own copy of rpl.c, helper.c, udpif.c and viz.c.          *)
(*                                                                         *)
(* A handler that may send yields [node |-> the record after it, out |->   *)
(* the datagrams].  opens, opened and bound say whether RIOT opens or      *)
(* binds a socket, readable whether memory at 0 can be read.               *)
(***************************************************************************)
EXTENDS DemoNode

ApplicationPort == 2350     \* APPLICATION_PORT of RUM2, cebit_router and light

Argument(argv, default) == IF argv = <<>> THEN default ELSE argv[1]
Global(x) == {<<"abcd:ef12", x.id>>}

udpif_send(x, to, port, data, opens) ==
    LET y == Addressed(x, to, opens) IN [node |-> y, out |-> SentTo(y, port, data)]
udpif_start_server_Unguarded(x, port, opened, bound) ==    \* Plausible bug: no check
    Serving(x, port, opened, bound)
udpif_start_server(x, port, opened, bound) ==
    IF x.socket THEN x ELSE Serving(x, port, opened, bound)

(***************************************************************************)
(* RUM2                                                                    *)
(***************************************************************************)
rum2_fill_nc(x) == WithNeighbours(x, {x.id - 1, x.id + 1})

rum2_rpl_udp_init_AnyAddress(x, command) ==     \* Plausible bug: 261 is taken for an address
    IF command \in {"n", "r"} /\ x.id # 0
    THEN rum2_fill_nc(WithMonitor(Joined(x, command = "r", TRUE, Global(x)), 0))
    ELSE x

rum2_rpl_udp_init(x, command) ==
    IF command \in {"n", "r"} /\ ValidId(x.id)
    THEN rum2_fill_nc(WithMonitor(Joined(x, command = "r", TRUE, Global(x)), 0))
    ELSE x

rum2_rpl_udp_set_id(x, i) == SetId(x, i)
rum2_viz_udp_pkt(x, src) == [x EXCEPT !.shown = <<src, x.id>>]
rum2_viz_udp_snd(x, dst) ==
    IF x.id \in {32, 33} THEN [x EXCEPT !.shown = <<x.id, dst>>] ELSE x
rum2_rpl_udp_monitor(x, m) ==
    LET noted == Noted(x, m)
        shown == rum2_viz_udp_pkt(noted, noted.ll)
    IN  IF Low(m.to) = 51 THEN rum2_viz_udp_snd(shown, 51) ELSE shown

rum2_rpl_udp_ignore_cmd(x, a, readable) == IgnoringCmd(x, a, FALSE, readable)

rum2_udpif_shell_server(x, argv, opened, bound) ==
    udpif_start_server(x, Argument(argv, ApplicationPort), opened, bound)
rum2_udpif_shell_send(x, to, text, opens) ==
    udpif_send(x, Low(to), ApplicationPort, text, opens)
rum2_default_data_handler(x, src, data) == rum2_viz_udp_pkt(x, src)

(* An answer to "r"; its second part, the asker, is only for the property. *)
rum2_answer_KeepsAddress(x, opens) ==       \* Plausible bug: socket_addr is set once
    LET y == [x EXCEPT !.left = @ - 1, !.sender = @ \/ opens,
                       !.dest = IF x.left = 4 THEN Low(x.peer) ELSE @]
    IN  [node |-> y, out |-> SentTo(y, ApplicationPort, <<"answer", x.peer>>)]
rum2_answer(x, opens) ==
    udpif_send([x EXCEPT !.left = @ - 1], Low(x.peer), ApplicationPort,
               <<"answer", x.peer>>, opens)

rum2_server_loop_AnswersAll(x, opens) ==    \* Plausible bug: answers are requests too
    IF x.left > 0 THEN rum2_answer(x, opens)
    ELSE LET m == Head(x.inbox)
             y == rum2_default_data_handler(Taken(x), Low(m.from), m.data)
         IN  rum2_answer([y EXCEPT !.peer = m.from, !.left = 4], opens)

(* A request is answered four times, with a pause after each answer.       *)
rum2_server_loop(x, opens) ==
    IF x.left > 0 THEN rum2_answer(x, opens)
    ELSE LET m == Head(x.inbox)
             y == rum2_default_data_handler(Taken(x), Low(m.from), m.data)
         IN  IF m.data[1] = "r"
             THEN rum2_answer([y EXCEPT !.peer = m.from, !.left = 4], opens)
             ELSE Silent(y)

rum2_main == udpif_start_server(Fresh("RUM2", 31), ApplicationPort, TRUE, TRUE)

(***************************************************************************)
(* cebit_router                                                            *)
(***************************************************************************)
cebit_fill_nc(x) == WithNeighbours(x, 1..15)

cebit_rpl_udp_init_AnyAddress(x, command) ==    \* Plausible bug: as for RUM2
    IF command \in {"n", "r"} /\ x.id # 0
    THEN WithMonitor(Joined(x, command = "r", command = "n", Global(x)), 0)
    ELSE x

cebit_rpl_udp_init(x, command) ==
    IF command \in {"n", "r"} /\ ValidId(x.id)
    THEN WithMonitor(Joined(x, command = "r", command = "n", Global(x)), 0)
    ELSE x

cebit_rpl_udp_set_id(x, i) == SetId(x, i)
cebit_viz_udp_pkt(x, src) == [x EXCEPT !.shown = <<src, x.id>>]
cebit_viz_udp_snd(x, dst) ==
    IF x.id \in {32, 33} THEN [x EXCEPT !.shown = <<x.id, dst>>] ELSE x
cebit_rpl_udp_monitor(x, m) ==
    LET noted == Noted(x, m)
        shown == cebit_viz_udp_pkt(noted, noted.ll)
    IN  IF Low(m.to) = 51 THEN cebit_viz_udp_snd(shown, 51) ELSE shown

cebit_rpl_udp_ignore_cmd(x, a, readable) == IgnoringCmd(x, a, TRUE, readable)

cebit_udpif_start_server(x, port, opened, bound) ==
    IF x.socket THEN x ELSE Serving(x, port, opened, bound)
cebit_udpif_shell_server(x, argv, opened, bound) ==
    cebit_udpif_start_server(x, Argument(argv, ApplicationPort), opened, bound)
cebit_udpif_send(x, to, port, data, opens) ==
    LET y == Addressed(x, to, opens) IN [node |-> y, out |-> SentTo(y, port, data)]
cebit_udpif_shell_send(x, to, text, opens) ==
    cebit_udpif_send(x, Low(to), ApplicationPort, text, opens)
cebit_default_data_handler(x, src, data) == cebit_viz_udp_pkt(x, src)
cebit_server_loop(x) ==
    LET m == Head(x.inbox)
    IN  Silent(cebit_default_data_handler(Taken(x), Low(m.from), m.data))

cebit_main ==
    cebit_udpif_start_server(cebit_fill_nc(Fresh("cebit_router", 31)), ApplicationPort, TRUE, TRUE)

(***************************************************************************)
(* light.  Its monitor does not initialise ll_src, but a frame always      *)
(* comes before the datagram it carries.                                   *)
(***************************************************************************)
light_rpl_udp_ignore(x, a) == Ignoring(x, a, TRUE)
light_fill_nc(x) ==
    LET y == WithNeighbours(x, {33, 51})
    IN  light_rpl_udp_ignore(light_rpl_udp_ignore(
            light_rpl_udp_ignore(light_rpl_udp_ignore(y, 23), 31), 32), 41)

light_rpl_udp_init(x, command) ==
    IF command \in {"n", "r"} /\ ValidId(x.id)
    THEN WithMonitor(Joined(x, command = "r", command = "n", Global(x)), 0)
    ELSE x

light_rpl_udp_set_id(x, i) == SetId(x, i)
light_viz_udp_pkt(x, src) == [x EXCEPT !.shown = <<src, x.id>>]
light_rpl_udp_monitor(x, m) == LET y == Noted(x, m) IN light_viz_udp_pkt(y, y.ll)
light_rpl_udp_ignore_cmd(x, a, readable) ==
    IF x.tcmd \/ readable THEN light_rpl_udp_ignore(x, a) ELSE Broken(x)

light_set_rgb(x, colour) == [x EXCEPT !.led = colour]   \* "light-off", "color"

(* Neither the number of the event nor that of the datagram is looked at.  *)
light_on_data(x, src, data) ==
    IF Len(data) # 3 THEN x
    ELSE CASE data[1] = "CONFIRM" -> light_set_rgb(x, "ok")
           [] data[1] = "WARN" -> light_set_rgb(x, "warn")
           [] data[1] = "ALARM" -> light_set_rgb(x, "alarm")
           [] OTHER -> x

light_udpif_start_server(x, port, opened, bound) ==
    IF x.socket THEN x ELSE Serving(x, port, opened, bound)
light_udpif_shell_server(x, argv, opened, bound) ==
    light_udpif_start_server(x, Argument(argv, ApplicationPort), opened, bound)
light_udpif_send(x, to, port, data, opens) ==
    LET y == Addressed(x, to, opens) IN [node |-> y, out |-> SentTo(y, port, data)]
light_udpif_shell_send(x, to, text, opens) ==
    light_udpif_send(x, Low(to), ApplicationPort, text, opens)
light_server_loop(x) ==
    LET m == Head(x.inbox)
    IN  Silent(light_on_data(Taken(x), Low(m.from), m.data))

light_main ==
    LET y == light_rpl_udp_init(light_fill_nc(Fresh("light", 51)), "n")
    IN  light_udpif_start_server(y, ApplicationPort, TRUE, TRUE)

(***************************************************************************)
(* accel_udp                                                               *)
(***************************************************************************)
Observers == <<1>>          \* OBSERVER_NODES

accel_rpl_udp_ignore(x, a) == Ignoring(x, a, TRUE)
accel_fill_nc(x) == accel_rpl_udp_ignore(WithNeighbours(x, {2}), 1)

accel_rpl_udp_init(x, command) ==
    IF command \in {"n", "r"} /\ ValidId(x.id)
    THEN WithMonitor(Joined(x, command = "r", command = "n", {}), 0)
    ELSE x

accel_rpl_udp_set_id(x, i) == SetId(x, i)
accel_viz_udp_pkt(x, src) == [x EXCEPT !.shown = <<x.id, src>>]
accel_rpl_udp_monitor(x, m) == LET y == Noted(x, m) IN accel_viz_udp_pkt(y, y.ll)
accel_rpl_udp_ignore_cmd(x, a, readable) ==
    IF x.tcmd \/ readable THEN accel_rpl_udp_ignore(x, a) ELSE Broken(x)

accel_udpif_start_server(x, port, opened, bound) ==
    IF x.socket THEN x ELSE Serving(x, port, opened, bound)
accel_udpif_shell_server(x, argv, opened, bound) ==
    accel_udpif_start_server(x, Argument(argv, ServerPort), opened, bound)

(* The shell interrupts sense's thread, so the two parts of udpif_send()   *)
(* are steps of their own there.                                           *)
accel_send_address(x, to, opens) == Addressed(x, to, opens)
accel_send_data(x, port, data) == SentTo(x, port, data)
accel_udpif_shell_send(x, to, text, opens) ==
    LET y == accel_send_address(x, Low(to), opens)
    IN  [node |-> y, out |-> accel_send_data(y, ServerPort, text)]

(* Every datagram is answered with the temperature, to SERVER_PORT.        *)
accel_server_loop(x) ==
    LET m == Head(x.inbox)
    IN  [node |-> Taken(x),
         out |-> Sent(x, "fe80", m.from, ServerPort, <<"temperature">>)]

accel_main ==
    LET y == accel_rpl_udp_init(accel_fill_nc(Fresh("accel_udp", 3)), "n")
    IN  accel_udpif_start_server(y, ServerPort, TRUE, TRUE)

=============================================================================
