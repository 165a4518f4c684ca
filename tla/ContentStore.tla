---------------------------- MODULE ContentStore ----------------------------
(***************************************************************************)
(* The content store of one node of the caching application, as shipped:   *)
(* DOW_DEPUTY, DOW_INT_INT, DOW_PER and DOW_PRIO_CACHE are 0 and           *)
(* DOW_CACHE_REPL_STRAT is 1 (src/ccnl_caching/dow.h).                     *)
(*                                                                         *)
(* Content reaches the store through ccnlriot_consumer(), which CCN-lite   *)
(* calls for every data packet: the node's own data over the loopback      *)
(* interface, the broadcasts of other nodes, and the chunks of the shell   *)
(* command "dc".  The store marks an entry of each name as the newest one  *)
(* (flag USER1) and the entries stored since the node last woke up (flag   *)
(* USER2), and a full store asks cs_oldest_representative() what to evict. *)
(*                                                                         *)
(* Abstractions.  A name is its prefix character and the ID of its source, *)
(* the first three components of a CCN name; the fourth component is the   *)
(* time stamp, a positive number.  The payload equals the time stamp, so   *)
(* name and time stamp identify a chunk.  The flag STATIC is left out:     *)
(* nothing sets it when DOW_PRIO_CACHE is 0.                               *)
(***************************************************************************)
EXTENDS Integers, Sequences, FiniteSets, SequencesExt

CONSTANTS
    Sources,      \* the IDs of the nodes that generate data
    Self,         \* dow_my_id, the ID of this node
    PfxChars,     \* the prefix characters a sensor or a subscription may have
    Site,         \* stands for the prefix of data without sensor or subscription
    None,         \* no subscription: dow_is_registered is false
    Cap,          \* dow_cache_size
    MaxTs,        \* bound: the largest time stamp that occurs
    LongMax,      \* LONG_MAX of the platform, where strtol() saturates
    MaxSensors,   \* DOW_SENSOR_MAX_NR
    REBC_LAST,    \* DOW_REBC_LAST: every datum is published twice
    Repeats       \* can a stored chunk of another node arrive once more?

ASSUME ConstantsAssumption ==
    /\ Self \in Sources
    /\ Site \notin PfxChars
    /\ None \notin PfxChars \cup {Site}
    /\ Cap \in Nat \ {0}
    /\ MaxTs \in Nat \ {0}
    /\ LongMax \in Nat \ {0}
    /\ MaxSensors \in Nat
    /\ REBC_LAST \in BOOLEAN
    /\ Repeats \in BOOLEAN

VARIABLES
    contents,         \* ccnl_relay.contents, the head of the list first
    firstTimeFull,    \* _first_time_full
    flaggedCache,     \* ccnl_helper_flagged_cache
    dowState,         \* dow_state
    registered,       \* dow_registered_prefix, or None
    sensors,          \* dow_sensors[0 .. dow_sensor_nr - 1]
    clock,            \* xtimer_now() of this node
    oldData,          \* _old_data, 0 before the first datum
    sendOldData,      \* _send_old_data
    loopback          \* own chunks on their way through the loopback interface

storeVars == <<contents, firstTimeFull, flaggedCache>>
dataVars == <<clock, oldData, sendOldData, loopback>>
shellVars == <<registered, sensors>>
vars == <<storeVars, dowState, shellVars, dataVars>>

Names == [pfx : PfxChars \cup {Site}, src : Sources]
TimeStamps == 1..MaxTs
Chunks == [name : Names, ts : TimeStamps]
Entries == [name : Names, ts : TimeStamps, user1 : BOOLEAN, user2 : BOOLEAN]

TypeOK ==
    /\ contents \in Seq(Entries)
    /\ Len(contents) <= Cap
    /\ firstTimeFull \in BOOLEAN
    /\ flaggedCache \in 0..Cap
    /\ dowState \in {"DEPUTY", "INACTIVE", "STOPPED"}
    /\ registered \in PfxChars \cup {None}
    /\ sensors \in Seq(PfxChars)
    /\ clock \in TimeStamps
    /\ oldData \in 0..MaxTs
    /\ sendOldData \in BOOLEAN
    /\ loopback \in Seq(Chunks)

-----------------------------------------------------------------------------
(***************************************************************************)
(* Reading the store.                                                      *)
(***************************************************************************)

\* The number the code compares: strtol() of the time stamp component.
strtol(ts) == IF ts <= LongMax THEN ts ELSE LongMax

\* The positions whose name agrees with n in its first three components.
SameName(s, n) == {i \in DOMAIN s : s[i].name = n}

\* The positions of entries for c's name that are younger than c.
Younger(s, c) == {i \in SameName(s, c.name) : strtol(s[i].ts) > strtol(c.ts)}

\* The position a scan that keeps the least time stamp ends with.  The scan
\* replaces its candidate only by a strictly smaller one: the first of equals.
Oldest(s, I) ==
    CHOOSE i \in I :
        \A j \in I : \/ strtol(s[i].ts) < strtol(s[j].ts)
                     \/ strtol(s[i].ts) = strtol(s[j].ts) /\ i <= j

Unflagged(s) == {i \in DOMAIN s : ~s[i].user1}

\* The positions whose prefix is not the one this node subscribed to.
Unregistered(s, reg) ==
    IF reg = None THEN {} ELSE {i \in DOMAIN s : s[i].name.pfx # reg}

-----------------------------------------------------------------------------
(***************************************************************************)
(* The flags.                                                              *)
(***************************************************************************)

\* ccnl_helper_reset(): no entry counts as recent any more.
ccnl_helper_reset(s) == [i \in DOMAIN s |-> [s[i] EXCEPT !.user2 = FALSE]]

\* Plausible bug: the flag is not given back to the younger entry.
HandleScan_NoRestore(s, c) ==
    [i \in DOMAIN s |-> [s[i] EXCEPT !.user1 = @ /\ s[i].name # c.name]]

\* The loop of _ccnl_helper_handle_content() over the store: it takes the flag
\* from every entry of the name until it meets one that is younger than the
\* chunk, and gives the flag to that one.
HandleScan(s, c) ==
    LET stop == IF Younger(s, c) = {} THEN Len(s) + 1
                ELSE CHOOSE i \in Younger(s, c) : \A j \in Younger(s, c) : i <= j
    IN  [i \in DOMAIN s |->
            IF s[i].name = c.name /\ i <= stop
            THEN [s[i] EXCEPT !.user1 = (i = stop)]
            ELSE s[i]]

\* _unflag_cs(): no entry of the source is flagged, whatever its prefix is.
_unflag_cs(s, source) ==
    [i \in DOMAIN s |-> IF s[i].name.src = source
                        THEN [s[i] EXCEPT !.user1 = FALSE]
                        ELSE s[i]]

-----------------------------------------------------------------------------
(***************************************************************************)
(* Replacement.  cs_oldest_representative() runs when the store is full;   *)
(* its result here is the set of the positions it removes, none if it      *)
(* leaves the store alone, in which case the chunk is not stored.          *)
(***************************************************************************)
\* Plausible bug: the age of the chunk is not checked.
TooOld_Never(s, I, c) == FALSE

\* The chunk is older than everything it could replace: it is skipped.
TooOld(s, I, c) == strtol(s[Oldest(s, I)].ts) > strtol(c.ts)

\* Plausible bug: entries of unregistered prefixes go before unflagged ones.
cs_UnregisteredFirst(s, c) ==
    LET same == SameName(s, c.name)
        others == CHOOSE I \in {Unregistered(s, registered), Unflagged(s), DOMAIN s} :
                    /\ I # {}
                    /\ Unregistered(s, registered) # {} => I = Unregistered(s, registered)
    IN  IF same # {}
        THEN IF TooOld(s, same, c) THEN {} ELSE {Oldest(s, same)}
        ELSE {Oldest(s, others)}

cs_oldest_representative(s, c) ==
    LET same == SameName(s, c.name)
        foreign == Unregistered(s, registered)
    IN  IF same # {} THEN IF TooOld(s, same, c) THEN {} ELSE {Oldest(s, same)}
        ELSE IF Unflagged(s) # {} THEN {Oldest(s, Unflagged(s))}
        ELSE IF foreign # {} THEN {Oldest(s, foreign)}
        ELSE IF TooOld(s, DOMAIN s, c) THEN {} ELSE {Oldest(s, DOMAIN s)}

\* The number of entries flagged as recent.
CountUser2(s) == Cardinality({i \in DOMAIN s : s[i].user2})

\* Is the very chunk stored already?
IsStored(s, c) == \E i \in DOMAIN s : s[i].name = c.name /\ s[i].ts = c.ts

\* ccnl_content_add2cache() of CCN-lite, with s the store after the flags were
\* changed and e the new entry: it adds at the head, asks the strategy first
\* if the store is full, and may refuse a chunk that it finds stored already.
ccnl_content_add2cache(s, e) ==
    \/ /\ IsStored(s, e)
       /\ contents' = s
       /\ UNCHANGED <<firstTimeFull, flaggedCache>>
    \/ /\ Len(s) < Cap
       /\ contents' = Cons(e, s)
       /\ UNCHANGED <<firstTimeFull, flaggedCache>>
    \/ /\ Len(s) >= Cap
       /\ firstTimeFull' = TRUE
       /\ LET t == IF firstTimeFull THEN s ELSE ccnl_helper_reset(s)
              victims == cs_oldest_representative(t, e)
          IN  \/ /\ victims = {}
                 /\ contents' = t
                 /\ UNCHANGED flaggedCache
              \/ \E v \in victims :
                 /\ contents' = Cons(e, RemoveAt(t, v))
                 /\ flaggedCache' = CountUser2(t)

\* Plausible bug: older versions are dropped where they should lose the flag.
_ccnl_helper_handle_content_Drops(c) ==
    LET s == SelectSeq(contents, LAMBDA e : e.name = c.name => strtol(e.ts) >= strtol(c.ts))
    IN  ccnl_content_add2cache(HandleScan(s, c),
            [name |-> c.name, ts |-> c.ts, user1 |-> Younger(s, c) = {}, user2 |-> TRUE])

\* _ccnl_helper_handle_content(): flag the newest entry, then store the chunk.
_ccnl_helper_handle_content(c) ==
    ccnl_content_add2cache(HandleScan(contents, c),
        [name |-> c.name, ts |-> c.ts, user1 |-> Younger(contents, c) = {}, user2 |-> TRUE])

\* What ccnlriot_consumer() does with own data while the node is inactive.
CacheOwn(c) ==
    ccnl_content_add2cache(_unflag_cs(contents, Self),
        [name |-> c.name, ts |-> c.ts, user1 |-> TRUE, user2 |-> TRUE])

\* ccnlriot_consumer().  DOW_DO_CACHE is a random choice: a deputy stores what
\* it subscribed to, and anything else only sometimes.
ccnlriot_consumer(c) ==
    \/ /\ dowState = "DEPUTY"
       /\ _ccnl_helper_handle_content(c)
    \/ /\ dowState = "DEPUTY"
       /\ c.name.pfx # registered
       /\ UNCHANGED storeVars
    \/ /\ dowState = "INACTIVE"
       /\ c.name.src = Self
       /\ CacheOwn(c)
    \/ /\ \/ dowState = "STOPPED"
          \/ dowState = "INACTIVE" /\ c.name.src # Self
       /\ UNCHANGED storeVars

-----------------------------------------------------------------------------
(***************************************************************************)
(* Actions.                                                                *)
(***************************************************************************)

Init ==
    /\ contents = <<>>
    /\ firstTimeFull = FALSE
    /\ flaggedCache = 0
    /\ dowState \in {"DEPUTY", "INACTIVE"}
    /\ registered = None
    /\ sensors = <<>>
    /\ clock = 1
    /\ oldData = 0
    /\ sendOldData = FALSE
    /\ loopback = <<>>

\* The prefixes dow_new_data() may name its datum with.
DataPrefixes ==
    IF sensors # <<>> THEN ToSet(sensors)
    ELSE IF registered # None THEN {registered}
    ELSE {Site}

\* dow_new_data(): a new datum, or with DOW_REBC_LAST every other time the last
\* one again.  Two data are at least half a second apart: the chunk has left
\* the loopback interface, and the clock has advanced, before the next one.
dow_new_data ==
    /\ dowState # "STOPPED"
    /\ loopback = <<>>
    /\ \E p \in DataPrefixes :
        LET again == REBC_LAST /\ oldData # 0 /\ sendOldData
            data == IF again THEN oldData ELSE clock
        IN  /\ again \/ clock > oldData
            /\ loopback' = <<[name |-> [pfx |-> p, src |-> Self], ts |-> data]>>
            /\ oldData' = data
            /\ sendOldData' = (REBC_LAST /\ ~again)
    /\ UNCHANGED <<storeVars, dowState, shellVars, clock>>

\* The chunk comes back from the loopback interface.
ReceiveOwn ==
    /\ loopback # <<>>
    /\ ccnlriot_consumer(Head(loopback))
    /\ loopback' = Tail(loopback)
    /\ UNCHANGED <<dowState, shellVars, clock, oldData, sendOldData>>

\* A broadcast of another node arrives.  Its clock is unrelated to ours and
\* starts again at every reboot: time stamps arrive in any order.
ReceiveBroadcast ==
    /\ \E c \in Chunks :
        /\ c.name.src # Self
        /\ Repeats \/ ~IsStored(contents, c)
        /\ ccnlriot_consumer(c)
    /\ UNCHANGED <<dowState, shellVars, dataVars>>

\* The second timer: a sleeping node becomes deputy.
BecomeDeputy ==
    /\ dowState = "INACTIVE"
    /\ dowState' = "DEPUTY"
    /\ contents' = ccnl_helper_reset(contents)
    /\ UNCHANGED <<firstTimeFull, flaggedCache, shellVars, dataVars>>

\* The second timer: a deputy goes to sleep.
GoInactive ==
    /\ dowState = "DEPUTY"
    /\ dowState' = "INACTIVE"
    /\ UNCHANGED <<storeVars, shellVars, dataVars>>

\* The shell command "stop".
_stop_dow ==
    /\ dowState' = "STOPPED"
    /\ UNCHANGED <<storeVars, shellVars, dataVars>>

\* The shell command "prefix".
_sub_prefix ==
    /\ registered = None
    /\ registered' \in PfxChars
    /\ UNCHANGED <<storeVars, dowState, sensors, dataVars>>

\* The shell command "sensor": the first sensor is a subscription as well.
_add_sensor ==
    /\ Len(sensors) < MaxSensors
    /\ \E p \in PfxChars :
        /\ sensors' = Append(sensors, p)
        /\ registered' = IF registered = None THEN p ELSE registered
    /\ UNCHANGED <<storeVars, dowState, dataVars>>

\* Time passes, up to the bound.
Tick ==
    /\ clock < MaxTs
    /\ clock' = clock + 1
    /\ UNCHANGED <<storeVars, dowState, shellVars, oldData, sendOldData, loopback>>

Next ==
    \/ dow_new_data
    \/ ReceiveOwn
    \/ ReceiveBroadcast
    \/ BecomeDeputy
    \/ GoInactive
    \/ _stop_dow
    \/ _sub_prefix
    \/ _add_sensor
    \/ Tick

Spec == Init /\ [][Next]_vars

-----------------------------------------------------------------------------
(***************************************************************************)
(* Properties.                                                             *)
(***************************************************************************)

\* The names of other nodes that s holds an entry of.
ForeignNames(s) == {n \in Names : n.src # Self /\ SameName(s, n) # {}}

\* The newest time stamp stored for a name.
Newest(s, n) == CHOOSE t \in {strtol(s[i].ts) : i \in SameName(s, n)} :
                    \A i \in SameName(s, n) : strtol(s[i].ts) <= t

\* "unflag everything and flag the newest once we're done": whatever the order
\* in which the data of another node arrived, the flag that shields an entry
\* from eviction is on the newest stored entry of its name.  Flagging is spread
\* over the scan that stops early, the new entry and three kinds of eviction.
\* (It needs ~Repeats: a chunk that is stored already takes the flag away.)
NewestIsFlagged ==
    \A n \in ForeignNames(contents) :
        \E i \in SameName(contents, n) :
            /\ contents[i].user1
            /\ \A j \in SameName(contents, n) :
                    strtol(contents[j].ts) <= strtol(contents[i].ts)

\* Eviction and storing are one step: a full store stays full, it never gives
\* up an entry without storing the chunk it made room for.
FullStaysFull == [][Len(contents) = Cap => Len(contents') = Cap]_vars

\* The store never forgets the newest value of another node's name while it
\* keeps an older one: the chunk that makes an entry leave never makes the
\* stored name staler than it was.
NamesNeverGetStale ==
    [][\A n \in ForeignNames(contents) \cap ForeignNames(contents') :
            Newest(contents', n) >= Newest(contents, n)]_vars

\* The flag shields what is stored of other nodes: a flagged entry makes room
\* only for a chunk of its own name, unless nothing without the flag is left,
\* and one of the subscribed prefix only if nothing else is stored.
FlagShields ==
    [][\A e \in ToSet(contents) :
            /\ e.user1
            /\ e.name.src # Self
            /\ ~IsStored(contents', e)
            /\ contents'[1].name # e.name
            => /\ Unflagged(contents) = {}
               /\ e.name.pfx = registered => Unregistered(contents, registered) = {}]_vars

\* What the comment above cs_oldest_representative() promises: "replace the
\* oldest value for any name that has different version in the cache.  If no
\* such entry exists in the cache, replace the oldest value for any name."  So
\* the only value of a name goes only if no name has a second version.
OnlyValueGoesLast ==
    [][\A n \in {s.name : s \in ToSet(contents)} \ {s.name : s \in ToSet(contents')} :
            \A m \in Names : Cardinality(SameName(contents, m)) <= 1]_vars

=============================================================================
