-------------------------------- MODULE Coap --------------------------------
(***************************************************************************)
(* The CoAP client and server of src/libcoap_client and src/libcoap_server *)
(* on a network that loses and reorders.  The user enters commands, other  *)
(* clients use the server, and the loops of client and server take a       *)
(* message at a time.  The loops poll: coap_read() returns when nothing is *)
(* there.                                                                  *)
(***************************************************************************)
EXTENDS CoapServer, Functions

CONSTANTS
    Scripts,           \* bounds: what the user enters, a sequence of commands
                       \* [letter, arg, path], what other clients ask for
                       \* meanwhile, a sequence of requests [code, path], how
                       \* many messages are lost, how often memory is short
    Delays             \* the delays in queries for /async

Methods == {"GET", "PUT", "POST", "DELETE"}
Segments == {"core", "time", "async"}

ASSUME CoapAssumption ==
    /\ \A s \in Scripts : \A k \in Range(s.user) :
          /\ k.letter = "b" => k.arg \in 0..(Blocks - 1)
          /\ k.letter = "m" => k.arg \in Methods
          /\ k.letter \in {"s", "T"} => k.arg \in Nat
          /\ k.path \in Seq(Segments)
    /\ \A s \in Scripts : s \in [user : Seq(Range(s.user)),
                                 others : Seq([code : Methods, path : Seq(Segments)]),
                                 losses : Nat, failures : Nat]
    /\ Delays \subseteq Nat
    /\ CLOCK_OFFSET \in {0, 1}
    /\ {WAIT_SECONDS, Blocks} \subseteq Nat \ {0}
    /\ MAX_RETRANSMIT \in Nat

VARIABLES
    client, server,
    net,               \* the messages on their way
    script             \* what is still to happen of a script

vars == <<client, server, net, script>>

TypeOK ==
    /\ client.max_wait \in 0..WAIT_SECONDS
    /\ client.obs_wait \in Nat \cup {None}
    /\ client.method \in Methods
    /\ client.path \in Seq(Segments)
    /\ client.out = {} /\ server.out = {} /\ ~server.dirty
    /\ client.running \/ client.sendq = {}
    /\ server.my_clock_base \in {0, 1}
    /\ Cardinality(server.async) <= 1
    /\ \A m \in net : m.num \in 0..(Blocks - 1) \cup {None}

Init ==
    /\ client = Statics
    /\ server = init_resources
    /\ net = {}
    /\ script \in Scripts

\* What is sent goes to the network, unless nobody is there.
ClientBecomes(c, frames) ==
    /\ client' = [c EXCEPT !.out = {}]
    /\ net' = frames \cup {m \in c.out : m.to = "server"}
    /\ UNCHANGED server
ServerBecomes(s, frames) ==
    /\ server' = [s EXCEPT !.out = {}]
    /\ net' = frames \cup {m \in s.out : m.to = "client"}
    /\ UNCHANGED client

\* There may be no memory for a context or a message.
Memory(enough) == enough \/ script.failures > 0
Without(enough) == [script EXCEPT !.failures = IF enough THEN @ ELSE @ - 1]

Command(dst, has_context) ==
    /\ ~client.running
    /\ script.user # <<>>
    /\ Memory(has_context)
    /\ script' = [Without(has_context) EXCEPT !.user = Tail(@)]
    /\ ClientBecomes(coap_cmd(client, Head(script.user), dst, has_context), net)

Retransmit ==
    /\ LoopOn(client)
    /\ \E e \in client.sendq : ClientBecomes(coap_retransmit(client, e), net)
    /\ UNCHANGED script

ClientReads(m) ==
    /\ LoopOn(client)
    /\ m.to = "client"
    /\ ClientBecomes(Timers(Dispatch(client, m)), net \ {m})
    /\ UNCHANGED script

\* A round of the loop in which nothing is read.
ClientPolls ==
    /\ LoopOn(client)
    /\ 0 \in {client.max_wait, client.obs_wait}
    /\ ClientBecomes(Timers(client), net)
    /\ UNCHANGED script

\* The loop sees that the work is done.
ClientIsReady ==
    /\ client.running /\ ~LoopOn(client)
    /\ ClientBecomes(Ended(client), net)
    /\ UNCHANGED script

\* Nobody reads a message that arrives between two commands, or the next
\* command does: they have the same port.
Unread(m) ==
    /\ ~client.running
    /\ m.to = "client"
    /\ ClientBecomes(client, net \ {m})
    /\ UNCHANGED script

\* Is an answer due for which there must be memory?
Due == \E a \in server.async : a.left = 0

ServerReads(m) ==
    /\ m.to = "server"
    /\ \E delay \in Delays, enough \in {TRUE, ~Due} :
          /\ Memory(enough)
          /\ script' = Without(enough)
          /\ ServerBecomes(Round(ServerDispatch(server, m, CLOCK_OFFSET, delay), enough),
                           net \ {m})

ServerPolls ==
    /\ Due
    /\ \E enough \in BOOLEAN :
          /\ Memory(enough)
          /\ script' = Without(enough)
          /\ ServerBecomes(Round(server, enough), net)

\* A request of another client.
ForeignRequest ==
    LET id == <<0, Len(script.others)>>
    IN  [to |-> "server", from |-> "other", type |-> "CON", code |-> Head(script.others).code,
         id |-> id, token |-> 0, path |-> Head(script.others).path, num |-> None,
         more |-> FALSE, obs |-> FALSE, req |-> id]

\* The server reads it; it may have a payload.
ServerReadsForeign ==
    /\ script.others # <<>>
    /\ \E base \in {0, 1}, delay \in Delays, enough \in {TRUE, ~Due} :
          /\ Memory(enough)
          /\ script' = [Without(enough) EXCEPT !.others = Tail(@)]
          /\ ServerBecomes(Round(ServerDispatch(server, ForeignRequest, base, delay), enough),
                           net)

Lose(m) ==
    /\ script.losses > 0
    /\ script' = [script EXCEPT !.losses = @ - 1]
    /\ net' = net \ {m}
    /\ UNCHANGED <<client, server>>

Less(n) == IF n > 0 THEN n - 1 ELSE n
Tick ==
    /\ client' = [client EXCEPT !.max_wait = IF client.running THEN Less(@) ELSE @,
                                !.obs_wait = Less(@)]
    /\ server' = [server EXCEPT !.async = {[a EXCEPT !.left = Less(@)] : a \in @}]
    /\ <<client, server>>' # <<client, server>>
    /\ UNCHANGED <<net, script>>

Next ==
    \/ \E dst \in {"server", "nowhere"}, has_context \in BOOLEAN : Command(dst, has_context)
    \/ Retransmit
    \/ ClientPolls
    \/ ClientIsReady
    \/ ServerPolls
    \/ \E m \in net : ClientReads(m) \/ Unread(m) \/ ServerReads(m) \/ Lose(m)
    \/ ServerReadsForeign
    \/ Tick

Spec == Init /\ [][Next]_vars

\* Both loops go round, and time passes.
FairSpec ==
    /\ Spec
    /\ WF_vars(Tick)
    /\ WF_vars(ClientPolls)
    /\ WF_vars(ClientIsReady)
    /\ WF_vars(ServerPolls)

-----------------------------------------------------------------------------
(***************************************************************************)
(* Properties.                                                             *)
(***************************************************************************)

\* A command whose token no earlier command had takes no answer to an earlier
\* request, whatever is still on its way: a late response, a notification, or
\* the answer to an asynchronous request whose command is over.
OwnAnswers ==
    client.fresh =>
        \A i \in DOMAIN client.taken : client.taken[i].req[1] = client.cmd

\* What a command with a token of its own puts out has no holes: after the
\* block asked for, a block comes only when the one before it has come, although
\* answers come twice and in any order.
BlocksFollow ==
    client.fresh =>
        \A i \in DOMAIN client.taken :
            client.taken[i].num > (IF client.blocks THEN client.num ELSE 0) =>
                \E j \in 1..(i - 1) : client.taken[j].num = client.taken[i].num - 1

\* "our job is done, we can exit at any time", at the end of message_handler():
\* the first command ends because time is over or with an answer, and not with
\* one after which a block is missing.
EndsAnswered ==
    [][client.cmd = 1 /\ client.running /\ ~client'.running
          => \/ client'.max_wait = 0
             \/ \E i \in DOMAIN client.taken : ~client.taken[i].more]_vars

\* Every command ends: each block sets the timer of the command again, but a
\* subscription, which keeps the loop from being ready, does not hold it.
CommandsEnd == client.running ~> ~client.running

\* Who was told with an empty answer that his request takes longer gets an
\* answer later, although the server remembers one request only, others ask
\* meanwhile and memory may be short.
PromisesAreKept ==
    \A r \in {<<1, 0>>, <<2, 0>>, <<0, 1>>} : r \in server.owed ~> r \notin server.owed

=============================================================================
