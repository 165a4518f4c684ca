----------------------------- MODULE DowManager -----------------------------
(***************************************************************************)
(* The caching manager of one node as shipped (DOW_DEPUTY, DOW_INT_INT,    *)
(* DOW_PER and DOW_KEEP_ALIVE_PFX are 0): the thread _loop() of            *)
(* src/ccnl_caching/dow.c, its three timers and its message queue, the     *)
(* state of the radio, and the time it was active and asleep.              *)
(*                                                                         *)
(* A timer is named by the message it sends.  A handler that blocks is     *)
(* split where it does, so that timers fire, the radio changes and the     *)
(* shell runs in between: in the broadcast of _dow_beacon_id(), in the     *)
(* half second before a datum is published, and in the 5 ms after it.      *)
(* DOW_GO_SLEEP is a random choice.  Time is counted modulo Wrap, as       *)
(* xtimer_now() is modulo 2^32; how long a timer takes is left open.       *)
(***************************************************************************)
EXTENDS Integers, Sequences

CONSTANTS
    Period,       \* DOW_X * DOW_D seconds between two decisions
    Wrap,         \* 2^32 in the code: where a time stamp wraps
    MaxQueue      \* bound: the messages that wait; DOW_MSG_QUEUE_SIZE is 64

ASSUME ConstantsAssumption ==
    /\ Period \in Nat \ {0}
    /\ Wrap \in Nat \ {0}
    /\ MaxQueue \in Nat \ {0}

VARIABLES
    state,            \* dow_state
    pc,               \* where the manager thread is
    periodCounter,    \* dow_period_counter
    timers,           \* the timers that are set
    queue,            \* the manager's message queue
    radio,            \* state of the transceiver
    sleeping,         \* dow_sleeping
    tsWakeup,         \* dow_ts_wakeup
    tsSleep,          \* dow_ts_sleep
    timeActive,       \* dow_time_active
    timeSleeping,     \* dow_time_sleeping
    started,          \* xtimer_now() when the thread started
    now               \* xtimer_now()

accountVars == <<sleeping, tsWakeup, tsSleep, timeActive, timeSleeping>>
clockVars == <<started, now>>
vars == <<state, pc, periodCounter, timers, queue, radio, accountVars, clockVars>>

Messages == {"SECOND", "NEWDATA", "BACKTOSLEEP"}
Instants == 0..(Wrap - 1)

TypeOK ==
    /\ state \in {"DEPUTY", "INACTIVE", "STOPPED"}
    /\ pc \in {"start", "receive", "beacon", "publish", "settle", "ended"}
    /\ periodCounter \in 0..Period
    /\ timers \subseteq Messages
    /\ queue \in Seq(Messages)
    /\ Len(queue) <= MaxQueue
    /\ radio \in {"IDLE", "BUSY", "SLEEP"}
    /\ sleeping \in BOOLEAN
    /\ {tsWakeup, tsSleep, timeActive, timeSleeping, started, now} \subseteq Instants

-----------------------------------------------------------------------------
(***************************************************************************)
(* Operations that several handlers share.                                 *)
(***************************************************************************)

\* The loop after a handler: it looks at the state before it receives again.
Continue == pc' = IF state' = "STOPPED" THEN "ended" ELSE "receive"

\* msg_receive() in the loop returns message m.
Receive(m) ==
    /\ pc = "receive"
    /\ state # "STOPPED"
    /\ queue # <<>>
    /\ Head(queue) = m
    /\ queue' = Tail(queue)

\* Plausible bug: a sleeping node is accounted as active once more.
Doze_Unguarded ==
    /\ tsSleep' = now
    /\ timeActive' = (timeActive + (now - tsWakeup)) % Wrap
    /\ sleeping' = TRUE
    /\ UNCHANGED <<tsWakeup, timeSleeping>>

\* The accounting in _radio_sleep().
Doze ==
    /\ IF sleeping THEN UNCHANGED <<tsSleep, timeActive, sleeping>>
       ELSE /\ tsSleep' = now
            /\ timeActive' = (timeActive + (now - tsWakeup)) % Wrap
            /\ sleeping' = TRUE
    /\ UNCHANGED <<tsWakeup, timeSleeping>>

\* Plausible bug: a radio that is busy is not tried again.
_radio_sleep_NoRetry(set) ==
    /\ Doze
    /\ radio' = IF radio = "IDLE" THEN "SLEEP" ELSE radio
    /\ timers' = timers \cup set

\* _radio_sleep(), in a handler that sets the timers in set: an idle radio is
\* sent to sleep, a busy one is tried again in DOW_KEEP_ALIVE_PERIOD.
_radio_sleep(set) ==
    /\ Doze
    /\ radio' = IF radio = "IDLE" THEN "SLEEP" ELSE radio
    /\ timers' = timers \cup set \cup (IF radio = "BUSY" THEN {"BACKTOSLEEP"} ELSE {})

\* dow_sleep(), with DOW_X * DOW_D as the number of periods.
dow_sleep ==
    /\ state' = "INACTIVE"
    /\ _radio_sleep({"SECOND"})
    /\ periodCounter' = Period

dow_wakeup ==
    /\ IF sleeping
       THEN /\ tsWakeup' = now
            /\ timeSleeping' = (timeSleeping + (now - tsSleep)) % Wrap
            /\ sleeping' = FALSE
       ELSE UNCHANGED <<tsWakeup, timeSleeping, sleeping>>
    /\ radio' = IF radio = "SLEEP" THEN "IDLE" ELSE radio
    /\ UNCHANGED <<tsSleep, timeActive>>

-----------------------------------------------------------------------------
(***************************************************************************)
(* The manager thread.                                                     *)
(***************************************************************************)

\* The thread has set up CCN-lite and set the data timer; DOW_STARTUP_DELAY is
\* 0.  The radio is on and nothing is accounted.
Init ==
    /\ state = "INACTIVE"
    /\ pc = "start"
    /\ periodCounter = 0
    /\ timers = {"NEWDATA"}
    /\ queue = <<>>
    /\ radio = "IDLE"
    /\ sleeping = FALSE
    /\ timeActive = 0
    /\ timeSleeping = 0
    /\ tsSleep = 0
    /\ now \in Instants
    /\ started = now
    /\ tsWakeup = now

\* The node begins asleep ...
StartInactive ==
    /\ pc = "start"
    /\ state' = "INACTIVE"
    /\ _radio_sleep({"SECOND"})
    /\ periodCounter' = Period
    /\ pc' = "receive"
    /\ UNCHANGED <<queue, clockVars>>

\* ... or as a deputy that announces itself.
StartDeputy ==
    /\ pc = "start"
    /\ state' = "DEPUTY"
    /\ radio' = "BUSY"
    /\ timers' = timers \cup {"SECOND"}
    /\ periodCounter' = Period
    /\ pc' = "receive"
    /\ UNCHANGED <<queue, accountVars, clockVars>>

\* DOW_MSG_SECOND before the end of the period.
Second ==
    /\ Receive("SECOND")
    /\ periodCounter # 1
    /\ periodCounter' = periodCounter - 1
    /\ timers' = timers \cup {"SECOND"}
    /\ UNCHANGED <<state, pc, radio, accountVars, clockVars>>

\* At the end of the period the node keeps its state ...
StayInState ==
    /\ Receive("SECOND")
    /\ periodCounter = 1
    /\ periodCounter' = Period
    /\ timers' = timers \cup {"SECOND"}
    /\ UNCHANGED <<state, pc, radio, accountVars, clockVars>>

\* ... or a deputy goes to sleep ...
GoInactive ==
    /\ Receive("SECOND")
    /\ periodCounter = 1
    /\ state = "DEPUTY"
    /\ dow_sleep
    /\ UNCHANGED <<pc, clockVars>>

\* ... or a sleeping node becomes deputy: it broadcasts its ID, for which the
\* driver switches the radio on, ...
BecomeDeputy ==
    /\ Receive("SECOND")
    /\ periodCounter = 1
    /\ state = "INACTIVE"
    /\ state' = "DEPUTY"
    /\ periodCounter' = 0
    /\ timers' = timers \ {"SECOND"}
    /\ radio' = "BUSY"
    /\ pc' = "beacon"
    /\ UNCHANGED <<accountVars, clockVars>>

\* Plausible bug: the second timer is not set again on this path.
Beaconed_NoTimer ==
    /\ pc = "beacon"
    /\ dow_wakeup
    /\ periodCounter' = Period
    /\ UNCHANGED <<state, timers, queue, clockVars>>
    /\ Continue

\* ... and wakes up.
Beaconed ==
    /\ pc = "beacon"
    /\ dow_wakeup
    /\ periodCounter' = Period
    /\ timers' = timers \cup {"SECOND"}
    /\ UNCHANGED <<state, queue, clockVars>>
    /\ Continue

\* Plausible bug: a sleeping node puts its datum off instead of waiting.
NewData_PutOff ==
    /\ Receive("NEWDATA")
    /\ timers' = timers \cup {"NEWDATA"}
    /\ pc' = IF state = "INACTIVE" THEN pc ELSE "publish"
    /\ UNCHANGED <<state, periodCounter, radio, accountVars, clockVars>>

\* DOW_MSG_NEWDATA: dow_new_data() sets the timer for the next datum, and waits.
NewData ==
    /\ Receive("NEWDATA")
    /\ timers' = timers \cup {"NEWDATA"}
    /\ pc' = "publish"
    /\ UNCHANGED <<state, periodCounter, radio, accountVars, clockVars>>

\* It broadcasts the datum, whatever the node's state; an inactive node gives
\* the transceiver some time to finish its job ...
Publish ==
    /\ pc = "publish"
    /\ radio' = "BUSY"
    /\ UNCHANGED <<state, periodCounter, timers, queue, accountVars, clockVars>>
    /\ IF state = "INACTIVE" THEN pc' = "settle" ELSE Continue

\* ... and sends it back to sleep.
Settled ==
    /\ pc = "settle"
    /\ _radio_sleep({})
    /\ UNCHANGED <<state, periodCounter, queue, clockVars>>
    /\ Continue

\* Plausible bug: the request to sleep is obeyed in any state.
BackToSleep_AnyState ==
    /\ Receive("BACKTOSLEEP")
    /\ _radio_sleep({})
    /\ UNCHANGED <<state, pc, periodCounter, clockVars>>

\* DOW_MSG_BACKTOSLEEP, which is late if the node became deputy meanwhile.
BackToSleep ==
    /\ Receive("BACKTOSLEEP")
    /\ IF state = "INACTIVE" THEN _radio_sleep({})
       ELSE UNCHANGED <<radio, timers, accountVars>>
    /\ UNCHANGED <<state, pc, periodCounter, clockVars>>

\* Plausible bug: a stopped node receives and forgets what it received.
EndLoop_Forgets ==
    /\ pc = "receive"
    /\ state = "STOPPED"
    /\ queue # <<>>
    /\ queue' = Tail(queue)
    /\ UNCHANGED <<state, pc, periodCounter, timers, radio, accountVars, clockVars>>

\* A message makes a stopped node leave the loop.
EndLoop ==
    /\ pc = "receive"
    /\ state = "STOPPED"
    /\ queue # <<>>
    /\ queue' = Tail(queue)
    /\ pc' = "ended"
    /\ UNCHANGED <<state, periodCounter, timers, radio, accountVars, clockVars>>

Loop ==
    \/ StartInactive
    \/ StartDeputy
    \/ Second
    \/ StayInState
    \/ GoInactive
    \/ BecomeDeputy
    \/ Beaconed
    \/ NewData
    \/ Publish
    \/ Settled
    \/ BackToSleep
    \/ EndLoop

-----------------------------------------------------------------------------
(***************************************************************************)
(* The environment.                                                        *)
(***************************************************************************)

\* The interrupt of timer t sends its message.
Fire(t) ==
    /\ t \in timers
    /\ Len(queue) < MaxQueue
    /\ timers' = timers \ {t}
    /\ queue' = Append(queue, t)
    /\ UNCHANGED <<state, pc, periodCounter, radio, accountVars, clockVars>>

\* The shell command "stop", at any time but before the first steps, which the
\* thread takes without waiting.
_stop_dow ==
    /\ pc # "start"
    /\ state' = "STOPPED"
    /\ UNCHANGED <<pc, periodCounter, timers, queue, radio, accountVars, clockVars>>

\* A radio that is on receives, or sends for the relay, and is idle again.
RadioChanges ==
    /\ \/ radio = "IDLE" /\ radio' = "BUSY"
       \/ radio = "BUSY" /\ radio' = "IDLE"
    /\ UNCHANGED <<state, pc, periodCounter, timers, queue, accountVars, clockVars>>

Tick ==
    /\ now' = (now + 1) % Wrap
    /\ UNCHANGED <<state, pc, periodCounter, timers, queue, radio, accountVars, started>>

Next ==
    \/ Loop
    \/ \E t \in Messages : Fire(t)
    \/ _stop_dow
    \/ RadioChanges
    \/ Tick

Spec == Init /\ [][Next]_vars

\* The manager has a priority above the shell's, its waits end, and a timer that
\* is set fires; strongly fair only because MaxQueue may hold it back for a
\* while, which 64 places do not.  Nothing is assumed about radio and user.
Fairness == WF_vars(Loop) /\ \A t \in Messages : SF_vars(Fire(t))
FairSpec == Spec /\ Fairness

-----------------------------------------------------------------------------
(***************************************************************************)
(* Properties.                                                             *)
(***************************************************************************)

Running == pc \notin {"start", "ended"}
Queued(m) == \E i \in DOMAIN queue : queue[i] = m
Once(m) == \A i, j \in DOMAIN queue : queue[i] = m /\ queue[j] = m => i = j

\* Every path through the handlers sets the second timer exactly once: there is
\* always one SECOND to come, on its way or waiting, and never two, which would
\* make the periods short.
OneSecond ==
    Running =>
        /\ Once("SECOND")
        /\ ("SECOND" \in timers) => ~Queued("SECOND")
        /\ ("SECOND" \in timers) \/ Queued("SECOND") <=> pc # "beacon"

\* The same for the next datum, whose timer is set in the middle of a handler.
OneDatum ==
    Running =>
        /\ Once("NEWDATA")
        /\ ("NEWDATA" \in timers) # Queued("NEWDATA")

\* A deputy that waits for messages hears the network: neither a late request
\* to sleep nor the wake-up leaves its radio off, and it is not accounted as
\* asleep.
DeputyIsAwake ==
    state = "DEPUTY" /\ pc = "receive" => radio # "SLEEP" /\ ~sleeping

\* The energy goal: an inactive node whose radio is on while the manager waits
\* is going to try again to switch it off.
InactiveRetries ==
    state = "INACTIVE" /\ pc = "receive" /\ radio # "SLEEP" =>
        "BACKTOSLEEP" \in timers \/ Queued("BACKTOSLEEP")

\* The two accounts and the time since the last change add up to the time since
\* the start, although the time stamps wrap and sleep requests come twice.
TimeAddsUp ==
    (timeActive + timeSleeping + (now - (IF sleeping THEN tsSleep ELSE tsWakeup))) % Wrap
        = (now - started) % Wrap

\* A node that was told to stop ends its loop, whatever its handler waits for:
\* no handler writes the state after it waited, and there is always a message
\* that wakes the loop.
StopEnds == state = "STOPPED" ~> pc = "ended"

\* A node that was not told to stop counts every period down and begins the
\* next one.
PeriodsEnd ==
    /\ []<>(periodCounter = 1 \/ state = "STOPPED")
    /\ []<>(periodCounter = Period \/ state = "STOPPED")

\* A datum that is due is published, asleep or not.
DataArePublished == Queued("NEWDATA") ~> pc = "publish" \/ state = "STOPPED"

=============================================================================
