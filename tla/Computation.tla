---------------------------- MODULE Computation ----------------------------
(***************************************************************************)
(* One node of ccnl_computation as shipped (DOW_DEPUTY, DOW_INT_INT,       *)
(* DOW_PER and DOW_REBC_LAST 0, DOW_X * DOW_D one second): the shell, the  *)
(* manager thread, CCN-lite's thread and the store they share.             *)
(*                                                                         *)
(* The store is that of ContentStore, whose operators work on the state    *)
(* below; new are the IDs: a node remembers the highest one it met, and    *)
(* with DOW_HARDWIRED and an ID set by hand it stores the data of the      *)
(* CCNLRIOT_CACHE_SIZE - 1 nodes that come after it, itself included.      *)
(*                                                                         *)
(* Abstractions.  How timers are set and removed is DowManager's subject:  *)
(* here the message of each may come at any time.  Broadcasts of one node  *)
(* arrive in order, over one hop, if the radio is on.  DOW_BC_COUNT is 1,  *)
(* as on native.  The threads of the manager and of CCN-lite have one      *)
(* priority and run until they wait; the shell runs when both do.          *)
(***************************************************************************)
EXTENDS Integers, Sequences, FiniteSets, SequencesExt

CONSTANTS
    Ids,          \* the IDs of the nodes, small numbers if set by hand
    Self,         \* dow_my_id
    Peers,        \* the other nodes that run
    NumSrc,       \* dow_num_src, the second argument of "start"
    CpuId,        \* the CPU ID of each node, which its beacons carry
    W,            \* 2^32, where an unsigned number wraps
    LongMax,      \* LONG_MAX, where strtol() saturates
    PfxChars,     \* the prefix characters of sensors and subscriptions
    Site, Beacon, \* the characters of data without a sensor, and of beacons
    None,         \* no subscription
    PfxOf,        \* the prefix character of each other node's data
    Cap,          \* CCNLRIOT_CACHE_SIZE, and dow_cache_size
    MaxTs,        \* bound: the largest time stamp that occurs
    MaxSensors,   \* DOW_SENSOR_MAX_NR
    DebugChunks   \* the chunks entered with the shell command "dc"

\* What other nodes send, and what the user enters, does not bear this node's ID.
ASSUME ConstantsAssumption ==
    /\ Ids \subseteq Nat /\ Self \in Ids /\ Peers \subseteq Ids \ {Self}
    /\ CpuId \in [Ids -> Nat] /\ \A i \in Peers : CpuId[i] # Self
    /\ PfxOf \in [Ids -> PfxChars \cup {Site}]
    /\ Cap \in Nat \ {0} /\ MaxTs \in Nat \ {0} /\ LongMax \in Nat \ {0}
    /\ DebugChunks \subseteq {[name |-> [pfx |-> p, src |-> i], ts |-> t] :
            p \in PfxChars \cup {Site}, i \in Ids \ {Self}, t \in 1..MaxTs}

VARIABLES
    contents, firstTimeFull, flaggedCache,      \* the store
    registered, sensors,                        \* the subscription, the sensors
    clock, loopback,                            \* see ContentStore
    dowState,     \* dow_state
    pc,           \* where the manager is: "off" before the command "start"
    radioOn,      \* does the transceiver receive?
    manual,       \* dow_manual_id
    highest,      \* dow_highest_id
    datum,        \* the newest datum of this node
    heard         \* the time stamp of the last broadcast of each other node

storeVars == <<contents, firstTimeFull, flaggedCache>>
shellVars == <<registered, sensors>>
loopVars == <<dowState, pc, radioOn>>
vars == <<storeVars, shellVars, clock, loopback, loopVars, manual, highest, datum,
          heard>>

AllIds == Ids \cup {CpuId[i] : i \in Ids}

S == INSTANCE ContentStore
        WITH Sources <- AllIds, PfxChars <- PfxChars \cup {Beacon}, REBC_LAST <- FALSE,
             Repeats <- FALSE, oldData <- 0, sendOldData <- FALSE

NoDatum == [name |-> [pfx |-> Site, src |-> Self], ts |-> 0]
Chunks == [name : S!Names, ts : 1..MaxTs]
Entries == [name : S!Names, ts : Nat, user1 : BOOLEAN, user2 : BOOLEAN]

TypeOK ==
    /\ contents \in Seq(Entries)
    /\ Len(contents) <= Cap
    /\ firstTimeFull \in BOOLEAN
    /\ flaggedCache \in 0..Cap
    /\ registered \in PfxChars \cup {None}
    /\ sensors \in Seq(PfxChars)
    /\ clock \in 1..MaxTs
    /\ loopback \in Seq(Chunks)
    /\ dowState \in {"DEPUTY", "INACTIVE", "STOPPED"}
    /\ pc \in {"off", "receive", "beacon", "publish", "settle", "ended"}
    /\ {radioOn, manual} \subseteq BOOLEAN
    /\ highest \in 0..LongMax
    /\ datum \in Chunks \cup {NoDatum}
    /\ heard \in [Peers -> 0..MaxTs]

-----------------------------------------------------------------------------
(***************************************************************************)
(* CCN-lite's thread: what arrives.                                        *)
(***************************************************************************)

\* Plausible bug: the interval is taken to include its end.
_check_in_range_OneMore(start, val, interval, max) ==
    IF start > val THEN (max - start + val) % W <= interval
    ELSE val - start <= interval

\* _check_in_range(), in 32-bit unsigned arithmetic.
_check_in_range(start, val, interval, max) ==
    IF start > val THEN (max - start + val) % W < interval
    ELSE val - start < interval

_unflag_cs(s, source) == S!_unflag_cs(s, source)
ccnl_helper_reset(s) == S!ccnl_helper_reset(s)
cs_oldest_representative(s, c) == S!cs_oldest_representative(s, c)

\* CCN-lite's ccnl_content_add2cache(), as in ContentStore.
ccnl_content_add2cache(s, e) ==
    \/ /\ S!IsStored(s, e)
       /\ contents' = s
       /\ UNCHANGED <<firstTimeFull, flaggedCache>>
    \/ /\ Len(s) < Cap
       /\ contents' = Cons(e, s)
       /\ UNCHANGED <<firstTimeFull, flaggedCache>>
    \/ /\ Len(s) >= Cap
       /\ firstTimeFull' = TRUE
       /\ LET t == IF firstTimeFull THEN s ELSE ccnl_helper_reset(s)
              victims == cs_oldest_representative(t, e)
          IN  IF victims = {} THEN contents' = t /\ UNCHANGED flaggedCache
              ELSE \E v \in victims :
                     /\ contents' = Cons(e, RemoveAt(t, v))
                     /\ flaggedCache' = S!CountUser2(t)

\* _ccnl_helper_handle_content(): flag the newest entry, then store the chunk.
_ccnl_helper_handle_content(c) ==
    ccnl_content_add2cache(S!HandleScan(contents, c),
        [name |-> c.name, ts |-> c.ts, user1 |-> S!Younger(contents, c) = {}, user2 |-> TRUE])

\* Plausible bug: the flags of the source are taken away last.
CacheOwn_UnflagLast(c) ==
    ccnl_content_add2cache(_unflag_cs(contents, Self),
        [name |-> c.name, ts |-> c.ts, user1 |-> FALSE, user2 |-> TRUE])

\* What ccnlriot_consumer() does with own data while the node is inactive.
CacheOwn(c) ==
    ccnl_content_add2cache(_unflag_cs(contents, Self),
        [name |-> c.name, ts |-> c.ts, user1 |-> TRUE, user2 |-> TRUE])

\* The condition under which a deputy considers chunk c at all.  DOW_DO_CACHE
\* is a random choice: without an ID set by hand a deputy stores what it
\* subscribed to, and anything else only sometimes.
MayCache(c) == ~manual \/ _check_in_range(Self, S!strtol(c.name.src), Cap - 1, NumSrc)
MustCache(c) == IF manual THEN MayCache(c) ELSE c.name.pfx = registered

\* The ID of every content that a running node sees, stored or not.
CountId(c) ==
    highest' = IF S!strtol(c.name.src) > highest THEN S!strtol(c.name.src) ELSE highest

\* ccnlriot_consumer().
ccnlriot_consumer(c) ==
    \/ /\ dowState = "STOPPED"
       /\ UNCHANGED <<storeVars, highest>>
    \/ /\ dowState # "STOPPED"
       /\ CountId(c)
       /\ \/ /\ dowState = "INACTIVE"
             /\ c.name.src = Self
             /\ CacheOwn(c)
          \/ /\ dowState = "INACTIVE"
             /\ c.name.src # Self
             /\ UNCHANGED storeVars
          \/ /\ dowState = "DEPUTY"
             /\ MayCache(c)
             /\ _ccnl_helper_handle_content(c)
          \/ /\ dowState = "DEPUTY"
             /\ ~MustCache(c)
             /\ UNCHANGED storeVars

\* An own chunk comes back from the loopback interface.
ReceiveOwn ==
    /\ loopback # <<>>
    /\ ccnlriot_consumer(Head(loopback))
    /\ loopback' = Tail(loopback)
    /\ UNCHANGED <<shellVars, clock, loopVars, manual, datum, heard>>

\* A datum of another node arrives.  What arrives after "stop" is ignored.
ReceiveBroadcast ==
    /\ pc # "off" /\ dowState # "STOPPED" /\ radioOn
    /\ \E i \in Peers : \E t \in heard[i] + 1 .. MaxTs :
        /\ ccnlriot_consumer([name |-> [pfx |-> PfxOf[i], src |-> i], ts |-> t])
        /\ heard' = [heard EXCEPT ![i] = t]
    /\ UNCHANGED <<shellVars, clock, loopback, loopVars, manual, datum>>

\* The beacon of another node: a content like any other, whose fourth component
\* is the CPU ID once more.  It comes each time the node becomes deputy.
ReceiveBeacon ==
    /\ pc # "off" /\ dowState # "STOPPED" /\ radioOn
    /\ \E i \in Peers :
        ccnlriot_consumer([name |-> [pfx |-> Beacon, src |-> CpuId[i]], ts |-> CpuId[i]])
    /\ UNCHANGED <<shellVars, clock, loopback, loopVars, manual, datum, heard>>

\* The entries that ccnlriot_producer() counts: those of the subscription.
Matches(s) == {i \in DOMAIN s : registered = None \/ s[i].name.pfx = registered}

\* Plausible bug: a request past the end of the store is not answered.
ccnlriot_producer_NoFailsafe(s, num) ==
    LET stop == {i \in 1 .. Len(s) :
                    Cardinality({j \in Matches(s) : j < i}) = num}
    IN  IF num < Cap THEN {i \in stop : \A j \in stop : i <= j} ELSE {}

\* The entry that ccnlriot_producer() of a deputy answers an Interest for chunk
\* number num with: the one after the num-th that it counts, whatever its
\* prefix, or if the store ends before it, the last one that it counts
\* ("failsafe").  The answer changes nothing that this model has.
ccnlriot_producer(s, num) ==
    LET stop == {i \in 1 .. Len(s) :
                    Cardinality({j \in Matches(s) : j < i}) = num}
    IN  IF stop # {} /\ num < Cap THEN {i \in stop : \A j \in stop : i <= j}
        ELSE {i \in Matches(s) : \A j \in Matches(s) : j <= i}

-----------------------------------------------------------------------------
(***************************************************************************)
(* The manager thread.                                                     *)
(***************************************************************************)

\* _radio_sleep(): an idle radio is sent to sleep, a busy one is tried again
\* when DOW_MSG_BACKTOSLEEP comes.
_radio_sleep == radioOn' \in {FALSE, radioOn}

\* The loop after a handler that waited: it looks at the state first.
Continue == pc' = IF dowState = "STOPPED" THEN "ended" ELSE "receive"

Receive == pc = "receive" /\ dowState # "STOPPED"

managerLeaves == <<shellVars, clock, manual, highest, heard>>

\* The start of the thread, whose first state is drawn by lot.
StartLoop ==
    /\ pc' = "receive"
    /\ \/ dowState' = "INACTIVE" /\ _radio_sleep
       \/ dowState' = "DEPUTY" /\ radioOn' = TRUE

\* DOW_MSG_SECOND: every second the node draws its state again.  A node that
\* becomes deputy broadcasts its CPU ID first, while CCN-lite handles what
\* arrives in the new state already, ...
Second ==
    /\ Receive
    /\ \/ /\ dowState = "DEPUTY"
          /\ dowState' = "INACTIVE"
          /\ _radio_sleep
          /\ UNCHANGED pc
       \/ /\ dowState = "INACTIVE"
          /\ dowState' = "DEPUTY"
          /\ radioOn' = TRUE
          /\ pc' = "beacon"
    /\ UNCHANGED <<storeVars, loopback, datum, managerLeaves>>

\* ... and then forgets which entries are recent, and wakes the radio up.
Beaconed ==
    /\ pc = "beacon"
    /\ contents' = ccnl_helper_reset(contents)
    /\ radioOn' = TRUE
    /\ Continue
    /\ UNCHANGED <<firstTimeFull, flaggedCache, loopback, datum, dowState, managerLeaves>>

\* DOW_MSG_NEWDATA: dow_new_data() names a datum of this instant and waits for
\* half a second.  Two data are at least half a second apart.
dow_new_data ==
    /\ Receive
    /\ clock > datum.ts
    /\ \E p \in S!DataPrefixes :
        datum' = [name |-> [pfx |-> p, src |-> Self], ts |-> clock]
    /\ pc' = "publish"
    /\ UNCHANGED <<storeVars, loopback, dowState, radioOn, managerLeaves>>

\* ccnl_helper_create_cont(): the datum is broadcast, for which the radio goes
\* on, and sent to the node itself; an inactive node waits for 5 ms.
Publish ==
    /\ pc = "publish"
    /\ radioOn' = TRUE
    /\ loopback' = Append(loopback, datum)
    /\ IF dowState = "INACTIVE" THEN pc' = "settle" ELSE Continue
    /\ UNCHANGED <<storeVars, datum, dowState, managerLeaves>>

Settled ==
    /\ pc = "settle"
    /\ _radio_sleep
    /\ Continue
    /\ UNCHANGED <<storeVars, loopback, datum, dowState, managerLeaves>>

\* DOW_MSG_BACKTOSLEEP.
BackToSleep ==
    /\ Receive
    /\ dowState = "INACTIVE"
    /\ _radio_sleep
    /\ UNCHANGED <<storeVars, loopback, datum, dowState, pc, managerLeaves>>

\* Any message ends the loop of a stopped node.
EndLoop ==
    /\ pc = "receive" /\ dowState = "STOPPED"
    /\ pc' = "ended"
    /\ UNCHANGED <<storeVars, loopback, datum, dowState, radioOn, managerLeaves>>

-----------------------------------------------------------------------------
(***************************************************************************)
(* The shell.  Its commands after "stop" are left out.                     *)
(***************************************************************************)

\* "start": with an ID, and DOW_HARDWIRED, the ID counts as set by hand.  A node
\* is started once: a second "start" would run a second thread on the stack of
\* the first.
_start_dow ==
    /\ pc = "off"
    /\ manual' \in BOOLEAN
    /\ StartLoop
    /\ UNCHANGED <<storeVars, shellVars, clock, loopback, highest, datum, heard>>

_stop_dow ==
    /\ pc # "off"
    /\ dowState' = "STOPPED"
    /\ UNCHANGED <<storeVars, shellVars, clock, loopback, pc, radioOn, manual, highest,
                   datum, heard>>

\* "prefix".
_sub_prefix ==
    /\ dowState # "STOPPED" /\ registered = None
    /\ registered' \in PfxChars
    /\ UNCHANGED <<storeVars, sensors, clock, loopback, loopVars, manual, highest, datum,
                   heard>>

\* "sensor": the first one is a subscription as well.
_add_sensor ==
    /\ dowState # "STOPPED" /\ Len(sensors) < MaxSensors
    /\ \E p \in PfxChars :
        /\ sensors' = Append(sensors, p)
        /\ registered' = IF registered = None THEN p ELSE registered
    /\ UNCHANGED <<storeVars, clock, loopback, loopVars, manual, highest, datum, heard>>

\* "dc": a chunk of any ID and time stamp, over the loopback interface; here one
\* that is not stored.
_debug_cache_date ==
    /\ pc # "off" /\ dowState # "STOPPED" /\ loopback = <<>>
    /\ \E c \in DebugChunks :
        /\ ~S!IsStored(contents, c)
        /\ loopback' = <<c>>
    /\ UNCHANGED <<storeVars, shellVars, clock, loopVars, manual, highest, datum, heard>>

Tick ==
    /\ dowState # "STOPPED" /\ clock < MaxTs
    /\ clock' = clock + 1
    /\ UNCHANGED <<storeVars, shellVars, loopback, loopVars, manual, highest, datum, heard>>

-----------------------------------------------------------------------------
Init ==
    /\ contents = <<>> /\ firstTimeFull = FALSE /\ flaggedCache = 0
    /\ registered = None /\ sensors = <<>>
    /\ clock = 1 /\ loopback = <<>>
    /\ dowState = "INACTIVE" /\ pc = "off" /\ radioOn = TRUE
    /\ manual = FALSE /\ highest = 0
    /\ datum = NoDatum
    /\ heard = [i \in Peers |-> 0]

Next ==
    \/ ReceiveOwn \/ ReceiveBroadcast \/ ReceiveBeacon
    \/ Second \/ Beaconed \/ dow_new_data \/ Publish \/ Settled \/ BackToSleep \/ EndLoop
    \/ _start_dow \/ _stop_dow \/ _sub_prefix \/ _add_sensor \/ _debug_cache_date
    \/ Tick

Spec == Init /\ [][Next]_vars

-----------------------------------------------------------------------------
(***************************************************************************)
(* Properties.                                                             *)
(***************************************************************************)

\* The names of other nodes' data that s holds an entry of; beacons are left out.
DataNames(s) == {n \in S!ForeignNames(s) : n.pfx # Beacon}

\* The names under which data and beacons of other nodes, and what the user
\* enters, may reach this node.
Sent ==
    {[pfx |-> PfxOf[i], src |-> i] : i \in Peers}
    \cup {[pfx |-> Beacon, src |-> CpuId[i]] : i \in Peers}
    \cup {c.name : c \in DebugChunks}

\* The names a node with an ID set by hand stores data of: its own, and those of
\* the nodes that come after it.
Placed ==
    {[pfx |-> q, src |-> Self] : q \in PfxChars \cup {Site}}
    \cup {n \in Sent : _check_in_range(Self, S!strtol(n.src), Cap - 1, NumSrc)}

\* What the placement is laid out for: there is an entry for each of these names.
\* Beacons have a prefix of their own, and a chunk that the user enters is the
\* only one of its name.
PlacementFits ==
    /\ IsFiniteSet(Placed) /\ Cardinality(Placed) <= Cap
    /\ Beacon \notin PfxChars \cup {Site}
    /\ \A c \in DebugChunks : c.name.src \notin Peers
    /\ \A c, d \in DebugChunks : c.name = d.name => c = d

\* The hardwired placement: a node whose ID was set by hand never gives up the
\* newest value it has of a name it is responsible for, although its store is
\* full, values of one name compete, and its own data come under two prefixes.
\* CCNLRIOT_CACHE_SIZE - 1 names leave just one entry to spare.
KeepsNewest ==
    [][manual => \A n \in DataNames(contents) :
            /\ n \in DataNames(contents')
            /\ S!Newest(contents', n) >= S!Newest(contents, n)]_vars

\* "this is our own content, so we know that it is always the newest": the flag
\* that shields an entry is on the newest own datum in the store, although an
\* inactive node moves it by source and a deputy by name, own data come under
\* several prefixes, and beacons, which are stored as well, push entries out.
OwnNewestIsFlagged ==
    LET own == {i \in DOMAIN contents : contents[i].name.src = Self}
    IN  \A i \in own : (\A j \in own : contents[j].ts <= contents[i].ts) => contents[i].user1

\* dow_highest_id is no lower than the ID of anything stored, own data and
\* beacons included, as far as strtol() can tell the IDs apart.
HighestIsSeen ==
    \A i \in DOMAIN contents : S!strtol(contents[i].name.src) <= highest

\* A deputy that has anything of its subscription answers
\* a request for any chunk number, also one beyond the end of its store.
AnswersIfItCan ==
    \A num \in 0..Cap :
        Matches(contents) # {} => ccnlriot_producer(contents, num) # {}

=============================================================================
