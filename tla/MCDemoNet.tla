----------------------------- MODULE MCDemoNet -----------------------------
(***************************************************************************)
(* Instances of DemoNet for TLC: the demo of IETF 90, and pairs of the     *)
(* other programs.  261 is an address whose last byte is that of another.  *)
(***************************************************************************)
EXTENDS DemoNet, TLC

None == [k \in Kinds |-> 0]
Setup(programs, budget) == [programs |-> programs, budget |-> budget @@ None]

(* What the shells configure                                               *)
Shells == {<<"udp-server", "router", "accel_udp">>, <<"RUM2">>, <<"cebit_router", "light">>,
           <<"RUM">>, <<"rpl_udp_router">>}
Configured == [set |-> 1, init |-> 1, server |-> 2, send |-> 1, ign |-> 1]

MCSetups ==
    {Setup(s, Configured) : s \in Shells}
    \cup {Setup(<<"udp-server", "router", "accel_udp">>, [sample |-> 4, send |-> 1]),
          Setup(<<"udp-server", "router", "accel_udp">>, [send |-> 1, foreign |-> 1]),
          Setup(<<"RUM2", "RUM2">>, [set |-> 1, init |-> 2, send |-> 1, foreign |-> 1]),
          Setup(<<"RUM2">>, [set |-> 1, init |-> 2, foreign |-> 1]),
          Setup(<<"cebit_router", "light">>, [init |-> 1, send |-> 1, light |-> 1, foreign |-> 2]),
          Setup(<<"RUM", "RUM">>, [set |-> 2, init |-> 2, server |-> 1, send |-> 1, foreign |-> 1]),
          Setup(<<"rpl_udp_router", "rpl_udp_router">>,
                [set |-> 2, init |-> 2, server |-> 1, send |-> 1, foreign |-> 1])}
MCNewIds == {5, 261}
MCTexts == {"r", "t"}

=============================================================================
