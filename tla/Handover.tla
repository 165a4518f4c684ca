------------------------------ MODULE Handover ------------------------------
(***************************************************************************)
(* Deputy mode of src/ccnl_caching (DOW_DEPUTY and DOW_INT_INT are 1): a   *)
(* node whose rest is over becomes deputy and asks for the store of the    *)
(* one before it, chunk by chunk, until that one answers with an           *)
(* acknowledgement and goes to rest.                                       *)
(*                                                                         *)
(* Each node has two threads.  The manager runs dow.c's loop, and inside   *)
(* it dow_takeover(), ccnl_helper_int() and _wait_for_chunk(), which       *)
(* receive from the same queue as the loop.  CCN-lite's thread calls       *)
(* ccnlriot_producer() and ccnlriot_consumer(), which write dow_state      *)
(* behind the manager's back and send it messages.                         *)
(*                                                                         *)
(* Left out here: data of inactive nodes and the Interests that announce   *)
(* them, subscriptions, the shell, and replacement in a full store (module *)
(* ContentStore).  An inactive node's radio is off.                        *)
(***************************************************************************)
EXTENDS Naturals, Sequences, FiniteSets

CONSTANTS
    Size,         \* dow_size: the number of nodes
    Datum,        \* the data that are generated
    Cap,          \* CCNLRIOT_CACHE_SIZE
    Retries,      \* CCNLRIOT_INT_RETRIES
    Period,       \* DOW_Y, in units of time each longer than a takeover
    Overlap,      \* whether takeovers may be longer, and meet each other
    Late,         \* whether a wait may end while the answer is under way
    MaxLoss,      \* bound: the frames that are lost
    MaxFlight,    \* bound: the frames that wait at a node when it is asked again
    MaxQueue      \* bound: the messages that wait; DOW_MSG_QUEUE_SIZE is 64

ASSUME ConstantsAssumption ==
    /\ Size \in Nat \ {0, 1}
    /\ IsFiniteSet(Datum) /\ Cardinality(Datum) <= Cap     \* no store is ever full
    /\ Cap \in Nat /\ {Retries, Period} \subseteq Nat \ {0}
    /\ {Overlap, Late} \subseteq BOOLEAN
    /\ {MaxLoss, MaxFlight, MaxQueue} \subseteq Nat

VARIABLES
    state,        \* dow_state of each node
    mgr,          \* where its manager is: pc, chunk number, attempt, wait timer
    alarm,        \* whether dow_timer is set
    rest,         \* dow_period_counter
    told,         \* _sleep_period
    since,        \* the time since _last_deputy_ts
    queue,        \* the manager's messages
    contents,     \* ccnl_relay.contents, head first
    inbox,        \* the frames that wait for CCN-lite's thread
    fresh,        \* the data not yet generated
    lost          \* the frames lost so far

restVars == <<alarm, rest, told, since>>
nodeVars == <<state, mgr, restVars, queue, contents>>
vars == <<nodeVars, inbox, fresh, lost>>

Node == 0..(Size - 1)      \* the positions that beaconing gave

Longest == (Size - 1) * Period     \* the rest between two shifts

Messages == {"SECOND", "INACTIVE", "RECEIVED", "RECEIVED_ACK", "TIMEOUT"}
Managers == [pc : {"loop", "chunk", "interest"}, cn : 0..(Cap + 1), cnt : 0..Retries, wait : BOOLEAN]
Frames ==
    [type : {"int"}, from : Node, num : 0..(Cap + 1)]
      \cup [type : {"chunk", "own"}, datum : Datum] \cup [type : {"ack"}]

TypeOK ==
    /\ state \in [Node -> {"DEPUTY", "HANDOVER", "INACTIVE"}]
    /\ mgr \in [Node -> Managers]
    /\ alarm \in [Node -> BOOLEAN]
    /\ {rest, told, since} \subseteq [Node -> 0..Longest]
    /\ queue \in [Node -> Seq(Messages)]
    /\ contents \in [Node -> Seq(Datum)]
    /\ inbox \in [Node -> Seq(Frames)]
    /\ fresh \subseteq Datum
    /\ lost \in 0..MaxLoss

Awake(n) == state[n] # "INACTIVE"
Stored(n) == {contents[n][i] : i \in DOMAIN contents[n]}

\* After beaconing: position 0 is deputy, without a timer, and the others rest
\* until it is their turn.  Its _last_deputy_ts is 0, the time when it was
\* switched on, so beaconing counts.
Init ==
    /\ state = [n \in Node |-> IF n = 0 THEN "DEPUTY" ELSE "INACTIVE"]
    /\ mgr = [n \in Node |-> [pc |-> "loop", cn |-> 0, cnt |-> 0, wait |-> FALSE]]
    /\ alarm = [n \in Node |-> n # 0]
    /\ rest = [n \in Node |-> n * Period]
    /\ told = rest
    /\ \E t \in (IF Overlap THEN 0 ELSE 1)..Longest :
           since = [n \in Node |-> IF n = 0 THEN t ELSE 0]
    /\ queue = [n \in Node |-> <<>>]
    /\ contents = [n \in Node |-> <<>>]
    /\ inbox = [n \in Node |-> <<>>]
    /\ fresh = Datum
    /\ lost = 0

-----------------------------------------------------------------------------
(***************************************************************************)
(* The manager thread.                                                     *)
(***************************************************************************)

\* msg_receive() at place pc returns message m.
Receive(n, pc, m) ==
    /\ mgr[n].pc = pc
    /\ queue[n] # <<>>
    /\ Head(queue[n]) = m
    /\ queue' = [queue EXCEPT ![n] = Tail(@)]

\* One Interest of ccnl_helper_int(), heard by whoever is awake, and the wait
\* for its answer: xtimer_remove() and xtimer_set_msg() set the timer anew.
Ask(n, c, k) ==
    /\ mgr' = [mgr EXCEPT ![n] = [pc |-> "chunk", cn |-> c, cnt |-> k, wait |-> TRUE]]
    /\ inbox' = [m \in Node |-> IF m # n /\ Awake(m)
                                THEN Append(inbox[m], [type |-> "int", from |-> n, num |-> c])
                                ELSE inbox[m]]

\* One Interest of ccnl_helper_int() in _populate_data(), without a number.
Announce(n, k) ==
    /\ mgr' = [mgr EXCEPT ![n] = [pc |-> "interest", cn |-> 0, cnt |-> k, wait |-> TRUE]]
    /\ UNCHANGED inbox

\* The timer of the wait is set anew.
KeepWaiting(n) ==
    /\ mgr' = [mgr EXCEPT ![n].wait = TRUE]
    /\ UNCHANGED inbox

\* The manager returns to its loop.
Return(n, wait) ==
    /\ mgr' = [mgr EXCEPT ![n] = [@ EXCEPT !.pc = "loop", !.wait = wait]]
    /\ UNCHANGED inbox

\* Plausible bug: the number is not advanced.
NextChunk_SameNumber(n, wait) ==
    IF mgr[n].cn <= Cap THEN Ask(n, mgr[n].cn, 1) ELSE Return(n, wait)

\* The loop of dow_takeover(): the next number after an answer or in vain.
NextChunk(n, wait) ==
    IF mgr[n].cn <= Cap THEN Ask(n, mgr[n].cn + 1, 1) ELSE Return(n, wait)

\* The loop of ccnl_helper_int() after a wait in vain.
TimedOut(n) ==
    IF mgr[n].cnt < Retries THEN Ask(n, mgr[n].cn, mgr[n].cnt + 1) ELSE NextChunk(n, mgr[n].wait)

\* Plausible bug: the timer is set for the next state, as without deputies.
dow_takeover_SetsTimer(n) ==
    /\ Receive(n, "loop", "SECOND")
    /\ state' = [state EXCEPT ![n] = "DEPUTY"]
    /\ Ask(n, 0, 1)
    /\ since' = [since EXCEPT ![n] = 0]
    /\ alarm' = [alarm EXCEPT ![n] = TRUE]
    /\ UNCHANGED <<rest, told, contents, fresh, lost>>

\* DOW_MSG_SECOND in the loop, in the second in which the rest is over.
dow_takeover(n) ==
    /\ Receive(n, "loop", "SECOND")
    /\ state' = [state EXCEPT ![n] = "DEPUTY"]
    /\ Ask(n, 0, 1)
    /\ since' = [since EXCEPT ![n] = 0]
    /\ UNCHANGED <<alarm, rest, told, contents, fresh, lost>>

\* DOW_MSG_INACTIVE in the loop: the others have their turn first.  It waits for
\* CCN-lite's thread, which handles what the node sent to itself before.
dow_sleep(n) ==
    /\ Receive(n, "loop", "INACTIVE")
    /\ \A i \in DOMAIN inbox[n] : inbox[n][i].type # "own"
    /\ state' = [state EXCEPT ![n] = "INACTIVE"]
    /\ alarm' = [alarm EXCEPT ![n] = TRUE]
    /\ rest' = [rest EXCEPT ![n] = Longest]
    /\ told' = [told EXCEPT ![n] = Longest]
    /\ UNCHANGED <<mgr, since, contents, inbox, fresh, lost>>

\* Messages the loop does not act on: a late acknowledgement or time-out, and
\* at a deputy the news of a chunk.
Disregard(n) ==
    /\ \/ Receive(n, "loop", "RECEIVED_ACK")
       \/ Receive(n, "loop", "TIMEOUT")
       \/ Receive(n, "loop", "RECEIVED") /\ state[n] = "DEPUTY"
    /\ UNCHANGED <<state, mgr, restVars, contents, inbox, fresh, lost>>

\* Elsewhere RECEIVED is taken for news of a datum of its own: _populate_data()
\* announces it and waits for an Interest.  The late news of a chunk has no
\* name; no node can answer what is sent for it.
_populate_data(n) ==
    /\ Receive(n, "loop", "RECEIVED")
    /\ state[n] # "DEPUTY"
    /\ Announce(n, 1)
    /\ UNCHANGED <<state, restVars, contents, fresh, lost>>

\* _wait_for_chunk() in dow_takeover() receives an answer.
GotAnswer(n) ==
    /\ \/ Receive(n, "chunk", "RECEIVED") /\ NextChunk(n, FALSE)
       \/ Receive(n, "chunk", "RECEIVED_ACK") /\ Return(n, FALSE)
    /\ UNCHANGED <<state, restVars, contents, fresh, lost>>

\* It receives the message of its timer, maybe of an earlier wait.
GotTimeout(n) ==
    /\ Receive(n, "chunk", "TIMEOUT")
    /\ TimedOut(n)
    /\ UNCHANGED <<state, restVars, contents, fresh, lost>>

\* Plausible bug: the request to go to rest is obeyed in the wait.
GotOther_Obeys(n) ==
    /\ Receive(n, "chunk", "INACTIVE")
    /\ state' = [state EXCEPT ![n] = "INACTIVE"]
    /\ alarm' = [alarm EXCEPT ![n] = TRUE]
    /\ rest' = [rest EXCEPT ![n] = Longest]
    /\ told' = [told EXCEPT ![n] = Longest]
    /\ UNCHANGED <<mgr, since, inbox, contents, fresh, lost>>

\* It receives what it does not wait for.  The elapsed time is subtracted once
\* more for each message, so the wait may be over then.
GotOther(n) ==
    /\ Receive(n, "chunk", "INACTIVE")
    /\ KeepWaiting(n) \/ TimedOut(n)
    /\ UNCHANGED <<state, restVars, contents, fresh, lost>>

\* The loop of ccnl_helper_int() in _populate_data() after a wait in vain.
AnnounceAgain(n) ==
    IF mgr[n].cnt < Retries THEN Announce(n, mgr[n].cnt + 1) ELSE Return(n, mgr[n].wait)

\* _wait_for_chunk() in _populate_data() waits for an Interest; other messages
\* are thrown away.  (The node is in HANDOVER, without a SECOND.)
AwaitInterest(n) ==
    /\ \/ Receive(n, "interest", "TIMEOUT") /\ AnnounceAgain(n)
       \/ /\ \E m \in {"INACTIVE", "RECEIVED", "RECEIVED_ACK"} : Receive(n, "interest", m)
          /\ KeepWaiting(n) \/ AnnounceAgain(n)
    /\ UNCHANGED <<state, restVars, contents, fresh, lost>>

\* DOW_MSG_NEWDATA in the loop of a deputy: dow_new_data() sends the datum to
\* its own store.  In HANDOVER, and in a wait, it is put off by a second.
dow_new_data(n) ==
    /\ mgr[n].pc = "loop"
    /\ state[n] = "DEPUTY"
    /\ \E d \in fresh :
          /\ fresh' = fresh \ {d}
          /\ inbox' = [inbox EXCEPT ![n] = Append(@, [type |-> "own", datum |-> d])]
    /\ UNCHANGED <<nodeVars, lost>>

Manager(n) ==
    \/ dow_takeover(n) \/ dow_sleep(n) \/ Disregard(n) \/ _populate_data(n)
    \/ GotAnswer(n) \/ GotTimeout(n) \/ GotOther(n) \/ AwaitInterest(n)

-----------------------------------------------------------------------------
(***************************************************************************)
(* CCN-lite's thread.                                                      *)
(***************************************************************************)

\* The next frame, of one of the types ts.
Incoming(n, ts) ==
    /\ inbox[n] # <<>>
    /\ Head(inbox[n]).type \in ts
    /\ Len(queue[n]) < MaxQueue

\* The frame is done with, and the answer goes to the one who asked, if it hears.
Answer(n, frame) ==
    LET to == Head(inbox[n]).from
        left(m) == IF m = n THEN Tail(inbox[m]) ELSE inbox[m]
    IN  inbox' = [m \in Node |-> IF m = to /\ Awake(m) THEN Append(left(m), frame) ELSE left(m)]

\* Plausible bug: a node that does not listen any more answers.
ccnlriot_producer_AtRest(n) ==
    /\ Incoming(n, {"int"})
    /\ state' = [state EXCEPT ![n] = "HANDOVER"]
    /\ LET num == Head(inbox[n]).num
       IN  IF num < Len(contents[n]) /\ num < Cap
           THEN /\ Answer(n, [type |-> "chunk", datum |-> contents[n][num + 1]])
                /\ UNCHANGED queue
           ELSE /\ Answer(n, [type |-> "ack"])
                /\ queue' = [queue EXCEPT ![n] = Append(@, "INACTIVE")]
    /\ UNCHANGED <<mgr, restVars, contents, fresh, lost>>

\* A deputy is asked for a number of its store: this is what makes it hand over.
\* Past the end it acknowledges, and tells its manager to go to rest.
ccnlriot_producer(n) ==
    /\ Incoming(n, {"int"})
    /\ Awake(n)
    /\ state' = [state EXCEPT ![n] = "HANDOVER"]
    /\ LET num == Head(inbox[n]).num
       IN  IF num < Len(contents[n]) /\ num < Cap
           THEN /\ Answer(n, [type |-> "chunk", datum |-> contents[n][num + 1]])
                /\ UNCHANGED queue
           ELSE /\ Answer(n, [type |-> "ack"])
                /\ queue' = [queue EXCEPT ![n] = Append(@, "INACTIVE")]
    /\ UNCHANGED <<mgr, restVars, contents, fresh, lost>>

\* Plausible bug: content is stored during a transfer too, which moves the chunks
\* that are still to be asked for.
StoreChunk_InHandover(n) ==
    /\ Incoming(n, {"chunk", "own"})
    /\ Awake(n)
    /\ LET f == Head(inbox[n])
       IN  /\ contents' = IF f.datum \in Stored(n) THEN contents
                          ELSE [contents EXCEPT ![n] = <<f.datum>> \o @]
           /\ queue' = IF f.type = "chunk" THEN [queue EXCEPT ![n] = Append(@, "RECEIVED")]
                       ELSE queue
    /\ inbox' = [inbox EXCEPT ![n] = Tail(@)]
    /\ UNCHANGED <<state, mgr, restVars, fresh, lost>>

\* A deputy gets a datum: it is stored unless it is there already, and the
\* manager hears of every chunk that came with a number.
StoreChunk(n) ==
    /\ Incoming(n, {"chunk", "own"})
    /\ state[n] = "DEPUTY"
    /\ LET f == Head(inbox[n])
       IN  /\ contents' = IF f.datum \in Stored(n) THEN contents
                          ELSE [contents EXCEPT ![n] = <<f.datum>> \o @]
           /\ queue' = IF f.type = "chunk" THEN [queue EXCEPT ![n] = Append(@, "RECEIVED")]
                       ELSE queue
    /\ inbox' = [inbox EXCEPT ![n] = Tail(@)]
    /\ UNCHANGED <<state, mgr, restVars, fresh, lost>>

\* An acknowledgement is passed on.
StoreAck(n) ==
    /\ Incoming(n, {"ack"})
    /\ state[n] # "HANDOVER"
    /\ queue' = [queue EXCEPT ![n] = Append(@, "RECEIVED_ACK")]
    /\ inbox' = [inbox EXCEPT ![n] = Tail(@)]
    /\ UNCHANGED <<state, mgr, restVars, contents, fresh, lost>>

\* In HANDOVER all content is dropped.  An inactive node ignores what it has got,
\* and what is still under way to it is lost: its radio is off.
Drop(n) ==
    /\ \/ Incoming(n, {"chunk", "own", "ack"}) /\ state[n] = "HANDOVER"
       \/ Incoming(n, {"int", "chunk", "ack"}) /\ state[n] = "INACTIVE"
    /\ inbox' = [inbox EXCEPT ![n] = Tail(@)]
    /\ UNCHANGED <<nodeVars, fresh, lost>>

Ccnl(n) == ccnlriot_producer(n) \/ StoreChunk(n) \/ StoreAck(n) \/ Drop(n)

-----------------------------------------------------------------------------
(***************************************************************************)
(* Timers and the link.                                                    *)
(***************************************************************************)

\* Nothing moves: messages and frames are handled within milliseconds.
Idle == \A n \in Node : queue[n] = <<>> /\ inbox[n] = <<>>

\* What is left of the rest of n after another unit of time.  When a rest as long
\* as this one has passed since _last_deputy_ts, the code takes it to be over.
RestLeft(n) == IF since[n] + 1 >= told[n] THEN 0 ELSE rest[n] - 1

\* A unit of time passes, with all its DOW_MSG_SECOND but the last of a rest.  The
\* rests that end with it end together, and have ended before the next one passes.
Tick ==
    /\ Idle
    /\ \A n \in Node : alarm[n] => rest[n] > 0
    /\ Overlap \/ \A n \in Node : mgr[n].pc = "loop"
    /\ \E n \in Node : alarm[n]
    /\ rest' = [n \in Node |-> IF alarm[n] THEN RestLeft(n) ELSE rest[n]]
    /\ since' = [n \in Node |-> IF since[n] < Longest THEN since[n] + 1 ELSE since[n]]
    /\ UNCHANGED <<state, mgr, alarm, told, queue, contents, inbox, fresh, lost>>

\* The last second of a rest.
Alarm(n) ==
    /\ alarm[n]
    /\ rest[n] = 0
    /\ Len(queue[n]) < MaxQueue
    /\ alarm' = [alarm EXCEPT ![n] = FALSE]
    /\ queue' = [queue EXCEPT ![n] = Append(@, "SECOND")]
    /\ UNCHANGED <<state, mgr, rest, told, since, contents, inbox, fresh, lost>>

\* The wait of _wait_for_chunk() is over.
WaitTimer(n) ==
    /\ mgr[n].wait
    /\ inbox[n] = <<>> /\ queue[n] = <<>>
    /\ Late \/ Idle
    /\ \A m \in Node : Len(inbox[m]) < MaxFlight
    /\ mgr' = [mgr EXCEPT ![n].wait = FALSE]
    /\ queue' = [queue EXCEPT ![n] = Append(@, "TIMEOUT")]
    /\ UNCHANGED <<state, restVars, contents, inbox, fresh, lost>>

\* A frame is lost on its way to n.
Lose(n) ==
    /\ lost < MaxLoss
    /\ inbox[n] # <<>>
    /\ Head(inbox[n]).type # "own"
    /\ lost' = lost + 1
    /\ inbox' = [inbox EXCEPT ![n] = Tail(@)]
    /\ UNCHANGED <<nodeVars, fresh>>

Next ==
    \/ Tick
    \/ \E n \in Node :
          \/ Manager(n) \/ dow_new_data(n) \/ Ccnl(n)
          \/ Alarm(n) \/ WaitTimer(n) \/ Lose(n)

Spec == Init /\ [][Next]_vars

\* Threads run, timers fire and time goes on; nothing is assumed about new data
\* and the link.
FairSpec ==
    /\ Spec
    /\ WF_vars(Tick)
    /\ \A n \in Node :
          WF_vars(Manager(n)) /\ WF_vars(Ccnl(n)) /\ WF_vars(WaitTimer(n)) /\ WF_vars(Alarm(n))

-----------------------------------------------------------------------------
(***************************************************************************)
(* Properties.                                                             *)
(***************************************************************************)

awake == {n \in Node : Awake(n)}
cache == UNION {Stored(n) : n \in awake}

Abstract == INSTANCE Deputy WITH First <- 0

\* Chunk by chunk, with Interests and answers lost, the protocol does what it is
\* for: a deputy goes to rest only when somebody else is awake and has all it has.
DeputySpec == Abstract!Spec

\* A deputy that is being relieved is sent to rest in the end, and the taker stays.
OneRemains == Abstract!OneRemains

\* Every node works and every node rests, over and over.
TakeTurns == \A n \in Node : []<>(state[n] = "DEPUTY") /\ []<>(state[n] = "INACTIVE")

Queued(q, m) == \E i \in DOMAIN q : q[i] = m
Once(q, m) == \A i, j \in DOMAIN q : q[i] = m /\ q[j] = m => i = j

\* A node at rest has one alarm to come, set or already sent, however often it
\* was told to rest; a node that is awake has none, so it never takes over twice.
OneAlarm ==
    \A n \in Node :
        /\ Once(queue[n], "SECOND")
        /\ alarm[n] => ~Queued(queue[n], "SECOND")
        /\ alarm[n] \/ Queued(queue[n], "SECOND") <=> ~Awake(n)

\* A manager that waits for an answer is awake to get it, whatever reaches its
\* queue meanwhile and whatever CCN-lite's thread makes of dow_state.
WaitersAreAwake == \A n \in Node : mgr[n].pc # "loop" => Awake(n)

\* Each acknowledgement that is repeated leaves one more INACTIVE in the queue.
\* None is left when the node is deputy again: it would end the new shift.
NoStaleRelief == \A n \in Node : Queued(queue[n], "INACTIVE") => state[n] # "DEPUTY"

\* A rest is as long as dow_sleep() made it, unless a second timer was missed: that
\* is what the code says when it ends one early (dow.c:247).  None is missed here.
RestsAreFull ==
    [][\A n \in Node : alarm[n] /\ alarm'[n] /\ rest'[n] = 0 => rest[n] <= 1]_vars

=============================================================================
