----------------------------- MODULE CoapServer -----------------------------
(***************************************************************************)
(* The CoAP server (src/libcoap_server/server.c) as functions on its state *)
(* s: the clock base, zero when the clock is deleted; the observers of     *)
(* /time; the one asynchronous request it remembers.  s.out is what it     *)
(* sends; s.owed, the requests it has put off, is history.  The answer of  *)
(* .well-known/core, which libcoap gives, comes in blocks.                 *)
(***************************************************************************)
EXTENDS CoapClient

CONSTANTS
    Blocks,            \* the blocks of .well-known/core
    CLOCK_OFFSET       \* clock_offset of libcoap, 0 or 1 for any other value

init_resources ==
    [my_clock_base |-> CLOCK_OFFSET, dirty |-> FALSE, observers |-> {}, async |-> {},
     next |-> 0, out |-> {}, owed |-> {}]

\* The response to m, and s after it.
Answer(s, m, code) ==
    [s |-> s, response |-> [m EXCEPT !.to = m.from, !.from = m.to, !.code = code, !.path = <<>>,
                                     !.type = IF m.type = "CON" THEN "ACK" ELSE "NON",
                                     !.num = None, !.obs = FALSE]]

Exists(s) == IF s.my_clock_base # 0 THEN "205" ELSE "404"

hnd_get_index(s, m) == Answer(s, m, "205")

\* coap_add_observer() of libcoap keeps who asks, with his token, or finds him;
\* notifications are confirmed or not as the last request was.
coap_add_observer(s, m) ==
    LET o == [to |-> m.from, token |-> m.token, non |-> m.type = "NON", req |-> m.req]
        same == {p \in s.observers : p.to = o.to /\ p.token = o.token}
    IN  [s EXCEPT !.observers = (@ \ same) \cup
             (IF same = {} THEN {o} ELSE {[p EXCEPT !.non = o.non] : p \in same})]

hnd_get_time(s, m) ==
    LET t == IF m.obs THEN coap_add_observer(s, m) ELSE s
    IN  [Answer(t, m, Exists(t)) EXCEPT !.response.obs = m.obs \/ s.dirty]

\* base is what the payload means; an empty payload means the clock's own base.
hnd_put_time(s, m, base) ==
    Answer([s EXCEPT !.dirty = TRUE, !.my_clock_base = base], m,
           IF s.my_clock_base # 0 THEN "204" ELSE "201")

\* No code is set: the answer is empty.
hnd_delete_time(s, m) == Answer([s EXCEPT !.my_clock_base = 0], m, "empty")

\* Plausible bug: the next request takes the place of the one that waits.
hnd_get_async_Replaces(s, m, delay) ==
    Answer([s EXCEPT !.async = {[to |-> m.from, id |-> m.id, token |-> m.token, left |-> delay,
                                 req |-> m.req]},
                     !.owed = @ \cup {m.req}], m, "empty")

\* One request is remembered, and answered after a delay.
hnd_get_async(s, m, delay) ==
    IF s.async # {}
    THEN Answer(s, m, IF \A a \in s.async : a.id = m.id THEN "empty" ELSE "503")
    ELSE Answer([s EXCEPT !.async = {[to |-> m.from, id |-> m.id, token |-> m.token,
                                      left |-> delay, req |-> m.req]},
                          !.owed = @ \cup {m.req}], m, "empty")

\* The block of .well-known/core that m asks for.
CoreBlock(s, m) ==
    LET n == IF m.num = None THEN 0 ELSE m.num
    IN  [Answer(s, m, "205") EXCEPT !.response.num = n, !.response.more = n + 1 < Blocks]

\* libcoap looks for the resource and its handler.
handle_request(s, m, base, delay) ==
    CASE m.path = <<>> /\ m.code = "GET"         -> hnd_get_index(s, m)
      [] m.path = <<"core">> /\ m.code = "GET"   -> CoreBlock(s, m)
      [] m.path = <<"time">> /\ m.code = "GET"   -> hnd_get_time(s, m)
      [] m.path = <<"time">> /\ m.code = "PUT"   -> hnd_put_time(s, m, base)
      [] m.path = <<"time">> /\ m.code = "DELETE" -> hnd_delete_time(s, m)
      [] m.path = <<"async">> /\ m.code = "GET"  -> hnd_get_async(s, m, delay)
      [] m.path \in {<<>>, <<"core">>, <<"time">>, <<"async">>} -> Answer(s, m, "405")
      [] OTHER                                   -> Answer(s, m, "404")

\* coap_dispatch() of libcoap: an unknown code is rejected, a rejected
\* notification ends the subscription; an empty answer to what needs no
\* confirmation is not sent.
ServerDispatch(s, m, base, delay) ==
    IF m.type = "RST" THEN [s EXCEPT !.observers = {o \in @ : o.req # m.req}]
    ELSE IF m.type = "ACK" THEN s
    ELSE IF m.code = "731" THEN [s EXCEPT !.out = @ \cup {Empty(m, "RST")}]
    ELSE LET a == handle_request(s, m, base, delay)
             r == IF a.response.code = "empty" THEN Empty(m, "ACK") ELSE a.response
         IN  IF r.code = "empty" /\ m.type = "NON" THEN a.s
             ELSE [a.s EXCEPT !.out = @ \cup {r}]

\* A message the server sends by itself.
Own(s, to, type, code, token, obs, req) ==
    [to |-> to, from |-> "server", type |-> type, code |-> code, id |-> <<0, s.next>>,
     token |-> token, path |-> <<>>, num |-> None, more |-> FALSE, obs |-> obs, req |-> req]

\* The answer is due; without memory for it the server tries again later.  It
\* asks for a confirmation, but is not sent again without one.
check_async(s, memory) ==
    IF \A a \in s.async : a.left > 0 THEN s
    ELSE LET a == CHOOSE x \in s.async : TRUE
         IN  IF memory
             THEN [s EXCEPT !.async = {}, !.owed = @ \ {a.req}, !.next = @ + 1,
                            !.out = @ \cup {Own(s, a.to, "CON", "205", a.token, FALSE, a.req)}]
             ELSE [s EXCEPT !.async = {[a EXCEPT !.left = 1]}]

\* coap_check_notify() of libcoap: every observer of a dirty resource gets what
\* hnd_get_time() says without a request.
coap_check_notify(s) ==
    IF ~s.dirty THEN s
    ELSE [s EXCEPT !.dirty = FALSE, !.next = @ + 1,
             !.out = @ \cup {Own(s, o.to, IF o.non THEN "NON" ELSE "CON", Exists(s), o.token,
                                 TRUE, o.req) : o \in s.observers}]

\* The end of each round of the loop.
Round(s, memory) == coap_check_notify(check_async(s, memory))

=============================================================================
