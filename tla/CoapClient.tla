----------------------------- MODULE CoapClient -----------------------------
(***************************************************************************)
(* The CoAP client (src/libcoap_client/client.c): one shell command sends  *)
(* one request, and its loop runs until an answer came or time is over.    *)
(* Options, token, method, message type, the flag ready and the timer of a *)
(* subscription are static variables no command resets: the client's state *)
(* c outlives its commands.  Functions of the program are functions on c;  *)
(* c.out is what they send.                                                *)
(*                                                                         *)
(* The address a request goes to is never written: c.dst, what the stack   *)
(* holds, is the server or not.  No command sets a payload.  Time counts   *)
(* in units of the 30 seconds of obs_seconds.                              *)
(***************************************************************************)
EXTENDS Integers, Sequences, FiniteSets

CONSTANTS
    WAIT_SECONDS,      \* wait_seconds
    MAX_RETRANSMIT     \* COAP_MAX_RETRANSMIT of libcoap

None == -1             \* no option, no timer

\* A request with a message ID of its own, <<command, number>>.  The path is
\* that of the Uri-Path options; req, the request a message is about, is history.
Request(c, to, code, path, num, obs) ==
    LET id == <<c.cmd, c.next>>
    IN  [to |-> to, from |-> "client", type |-> c.msgtype, code |-> code, id |-> id,
         token |-> c.token, path |-> path, num |-> num, more |-> FALSE, obs |-> obs,
         req |-> id]

\* An empty message that answers m.
Empty(m, type) ==
    [m EXCEPT !.to = m.from, !.from = m.to, !.type = type, !.code = "empty", !.token = 0,
              !.path = <<>>, !.num = None, !.more = FALSE, !.obs = FALSE]

\* coap_send() and coap_send_confirmed() of libcoap.
coap_send(c, m) == [c EXCEPT !.out = @ \cup {m}, !.next = @ + 1]
coap_send_confirmed(c, m) ==
    [coap_send(c, m) EXCEPT !.sendq = @ \cup {[pdu |-> m, left |-> MAX_RETRANSMIT]}]
SendAs(c, type, m) == IF type = "CON" THEN coap_send_confirmed(c, m) ELSE coap_send(c, m)

\* The static variables before the first command.
Statics ==
    [path |-> <<>>, observe |-> FALSE, blocks |-> FALSE, num |-> 0, method |-> "GET",
     msgtype |-> "CON", token |-> 0, obs_seconds |-> 1, ready |-> FALSE,
     max_wait |-> 0, obs_wait |-> None,
     cmd |-> 0, running |-> FALSE, dst |-> "server", sendq |-> {}, next |-> 0, out |-> {},
     used |-> {}, fresh |-> TRUE, taken |-> <<>>]

-----------------------------------------------------------------------------
(***************************************************************************)
(* What comes in.  c.taken is history: the answers the command has taken.  *)
(***************************************************************************)

\* Plausible bug: tokens are compared by their lengths only.
check_token_Length(c, m) == (m.token = 0) = (c.token = 0)

check_token(c, m) == m.token = c.token

\* Plausible bug: blocks are counted by the client instead of by the answers.
NextBlock_Counts(c, m) ==
    Request(c, m.from, c.method, c.path,
            Cardinality({k \in DOMAIN c.taken : c.taken[k].more}), FALSE)

\* The request for the block after that of m.
NextBlock(c, m) ==
    Request(c, m.from, c.method, c.path, m.num + 1, FALSE)

\* What the answer holds is put out, an error on stderr.
append_to_output(c, m) == [c EXCEPT !.taken = Append(@, m)]

\* Plausible bug: the branch for the M bit goes on to the end of the function.
message_handler_FallsThrough(c, m, sent) ==
    IF ~check_token(c, m)
    THEN IF ~sent /\ m.type \in {"CON", "NON"} THEN coap_send(c, Empty(m, "RST")) ELSE c
    ELSE LET d == [append_to_output(c, m) EXCEPT
                       !.obs_wait = IF m.code = "205" /\ sent /\ m.obs THEN c.obs_seconds
                                    ELSE @,
                       !.ready = ~m.obs]
         IN  IF m.code = "205" /\ m.num # None /\ m.more
             THEN [SendAs(d, m.type, NextBlock(d, m)) EXCEPT !.max_wait = WAIT_SECONDS]
             ELSE d

\* Plausible bug: the M bit is not looked at.
message_handler_AsksOn(c, m, sent) ==
    IF ~check_token(c, m)
    THEN IF ~sent /\ m.type \in {"CON", "NON"} THEN coap_send(c, Empty(m, "RST")) ELSE c
    ELSE LET d == [append_to_output(c, m) EXCEPT
                       !.obs_wait = IF m.code = "205" /\ sent /\ m.obs THEN c.obs_seconds
                                    ELSE @]
         IN  IF m.code = "205" /\ m.num # None
             THEN [SendAs(d, m.type, NextBlock(d, m)) EXCEPT !.max_wait = WAIT_SECONDS]
             ELSE [d EXCEPT !.ready = ~m.obs]

\* message_handler(), for messages that are not empty; sent says whether the
\* message acknowledges a request.
message_handler(c, m, sent) ==
    IF ~check_token(c, m)
    THEN IF ~sent /\ m.type \in {"CON", "NON"} THEN coap_send(c, Empty(m, "RST")) ELSE c
    ELSE LET d == [append_to_output(c, m) EXCEPT
                       !.obs_wait = IF m.code = "205" /\ sent /\ m.obs THEN c.obs_seconds
                                    ELSE @]
         IN  IF m.code = "205" /\ m.num # None /\ m.more
             THEN [SendAs(d, m.type, NextBlock(d, m)) EXCEPT !.max_wait = WAIT_SECONDS]
             ELSE [d EXCEPT !.ready = ~m.obs]

\* coap_dispatch() of libcoap: acknowledgements take requests from the queue
\* of retransmissions, and what is to be confirmed is.
Dispatch(c, m) ==
    LET mine == {e \in c.sendq : m.type \in {"ACK", "RST"} /\ e.pdu.id = m.id}
        d == [c EXCEPT !.sendq = @ \ mine,
                       !.out = IF m.type = "CON" THEN @ \cup {Empty(m, "ACK")} ELSE @]
    IN  IF m.code = "empty" THEN d ELSE message_handler(d, m, mine # {})

\* The end of a subscription, a message with the code 7.31.
clear_obs(c) == SendAs(c, c.msgtype, Request(c, c.dst, "731", <<>>, None, FALSE))

-----------------------------------------------------------------------------
(***************************************************************************)
(* The command.  It takes one option [letter, arg] and a path.             *)
(***************************************************************************)

\* obs_seconds is read from optarg, which nobody sets: arg is any number.  Of
\* several Block options the server takes the first.
Option(c, k) ==
    CASE k.letter = "b" -> [c EXCEPT !.blocks = TRUE, !.num = IF c.blocks THEN @ ELSE k.arg]
      [] k.letter = "m" -> [c EXCEPT !.method = k.arg]
      [] k.letter = "N" -> [c EXCEPT !.msgtype = "NON"]
      [] k.letter = "s" -> [c EXCEPT !.observe = TRUE, !.obs_seconds = k.arg]
      [] k.letter = "T" -> [c EXCEPT !.token = k.arg]
      [] OTHER -> c

\* The segments of the path are added to those of all commands before.
cmdline_uri(c, k) == [c EXCEPT !.path = @ \o k.path]

set_blocksize(c) == IF c.blocks /\ c.method # "DELETE" THEN c.num ELSE None

coap_new_request(c) == Request(c, c.dst, c.method, c.path, set_blocksize(c), c.observe)

\* coap_cmd() up to its loop; has_context says whether there is a context.
coap_cmd(c, k, dst, has_context) ==
    LET u == [cmdline_uri(Option(c, k), k) EXCEPT !.cmd = @ + 1, !.dst = dst, !.taken = <<>>]
        f == [u EXCEPT !.fresh = u.token \notin u.used, !.used = @ \cup {u.token}, !.next = 0]
    IN  IF has_context
        THEN [SendAs(f, f.msgtype, coap_new_request(f)) EXCEPT !.running = TRUE,
                                                               !.max_wait = WAIT_SECONDS]
        ELSE f

\* Does the loop go on?
LoopOn(c) == c.running /\ ~(c.ready /\ c.sendq = {})

\* After the loop the context, and with it what was to be sent again, is gone.
Ended(c) == [c EXCEPT !.running = FALSE, !.sendq = {}]

\* libcoap sends e of the queue again, or gives up.
coap_retransmit(c, e) ==
    IF e.left = 0 THEN [c EXCEPT !.sendq = @ \ {e}]
    ELSE [c EXCEPT !.sendq = (@ \ {e}) \cup {[e EXCEPT !.left = @ - 1]},
                   !.out = @ \cup {e.pdu}]

\* Plausible bug: the subscription is prolonged, and the command waits for its end.
Timers_Prolong(c) ==
    IF c.obs_wait = 0 THEN [c EXCEPT !.obs_wait = c.obs_seconds]
    ELSE IF c.max_wait = 0 /\ c.obs_wait = None THEN Ended(c)
    ELSE c

\* The end of each round of the loop.
Timers(c) ==
    IF c.max_wait = 0 THEN Ended(c)
    ELSE IF c.obs_wait = 0 THEN [clear_obs(c) EXCEPT !.obs_wait = None, !.obs_seconds = 0]
    ELSE c

=============================================================================
