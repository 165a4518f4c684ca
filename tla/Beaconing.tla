----------------------------- MODULE Beaconing ------------------------------
(***************************************************************************)
(* How the nodes of the deputy mode (DOW_DEPUTY) find their order when they *)
(* start: beaconing_start() of src/ccnl_caching/beaconing.c.  Each node     *)
(* broadcasts its ID a few times, counts the IDs it hears, and takes the    *)
(* number of those below its own as its position; position 0 is the first   *)
(* deputy.                                                                  *)
(*                                                                          *)
(* Nodes start at different times, broadcasts may be lost, and the Bloom    *)
(* filter that remembers the neighbours may take a new ID for a known one.  *)
(* One unit of time is about a second: DOW_BEACONING_PERIOD, a random time  *)
(* of 50 ms to 1.1 s, is 0 or 1, and DOW_BEACONING_WAIT is 4.  Nothing      *)
(* happens between two instants, and what arrives is handled in its instant. *)
(***************************************************************************)
EXTENDS Integers, FiniteSets

CONSTANTS
    Node,
    ID,               \* [Node -> Nat], dow_my_id of every node
    Count,            \* DOW_BEACONING_COUNT
    Wait,             \* DOW_BEACONING_WAIT
    PeriodMax,        \* the longest DOW_BEACONING_PERIOD
    MaxSkew,          \* the last node starts this long after the first
    Lossy,            \* broadcasts may be lost
    FalsePositives    \* the Bloom filter may err

ASSUME ConstantsAssumption ==
    /\ IsFiniteSet(Node)
    /\ ID \in [Node -> Nat]
    /\ Count \in Nat \ {0}
    /\ Wait \in Nat
    /\ PeriodMax \in Nat
    /\ Count * PeriodMax <= Wait
    /\ MaxSkew \in Nat
    /\ Lossy \in BOOLEAN
    /\ FalsePositives \in BOOLEAN

VARIABLES
    phase,        \* where a node is: not started, in beaconing_start(), after it
    remaining,    \* remaining_beacons
    due,          \* the time until beacon_timer sends its message
    elapsed,      \* xtimer_now() - start
    inbox,        \* the IDs in the beacons that wait in a node's queue
    neighbors,    \* dow_neighbors, the IDs that were added to the filter
    position,     \* dow_position
    size,         \* dow_size
    clock         \* the time since the first node could start, up to MaxSkew

timerVars == <<remaining, due, elapsed>>
countVars == <<neighbors, position, size>>
vars == <<phase, timerVars, inbox, countVars, clock>>

IDs == {ID[n] : n \in Node}
Periods == 0..PeriodMax
Beaconing == {n \in Node : phase[n] = "beaconing"}

TypeOK ==
    /\ phase \in [Node -> {"off", "beaconing", "done"}]
    /\ remaining \in [Node -> 0..Count]
    /\ due \in [Node -> 0..(2 * Wait)]
    /\ elapsed \in [Node -> 0..(2 * Wait)]
    /\ inbox \in [Node -> SUBSET IDs]
    /\ neighbors \in [Node -> SUBSET IDs]
    /\ position \in [Node -> Nat]
    /\ size \in [Node -> Nat]
    /\ clock \in 0..MaxSkew

-----------------------------------------------------------------------------
Init ==
    /\ phase = [n \in Node |-> "off"]
    /\ remaining = [n \in Node |-> 0]
    /\ due = [n \in Node |-> 0]
    /\ elapsed = [n \in Node |-> 0]
    /\ inbox = [n \in Node |-> {}]
    /\ neighbors = [n \in Node |-> {}]
    /\ position = [n \in Node |-> 0]
    /\ size = [n \in Node |-> 1]
    /\ clock = 0

\* beaconing_start() registers for packets and delays the first beacon.
beaconing_start(n) ==
    /\ phase[n] = "off"
    /\ phase' = [phase EXCEPT ![n] = "beaconing"]
    /\ remaining' = [remaining EXCEPT ![n] = Count]
    /\ \E p \in Periods : due' = [due EXCEPT ![n] = Wait + p]
    /\ UNCHANGED <<elapsed, inbox, countVars, clock>>

\* The nodes that can receive what n broadcasts, and the sets that do.
Listeners(n) == Beaconing \ {n}
Receivers(n) == IF Lossy THEN SUBSET Listeners(n) ELSE {Listeners(n)}

\* Plausible bug: beaconing ends with the last beacon that is sent.
SendBeacon_EndsAtOnce(n) ==
    /\ phase[n] = "beaconing"
    /\ due[n] = 0
    /\ remaining[n] > 0
    /\ \E to \in Receivers(n) :
           inbox' = [m \in Node |-> IF m \in to THEN inbox[m] \cup {ID[n]} ELSE inbox[m]]
    /\ remaining' = [remaining EXCEPT ![n] = @ - 1]
    /\ IF remaining[n] > 1 THEN \E p \in Periods : due' = [due EXCEPT ![n] = p]
       ELSE UNCHANGED due
    /\ UNCHANGED <<phase, elapsed, countVars, clock>>

\* DOW_MSG_BEACON: beaconing_send(), and a timer for the next beacon or for the
\* end, which is 2 * Wait after the start.
SendBeacon(n) ==
    /\ phase[n] = "beaconing"
    /\ due[n] = 0
    /\ remaining[n] > 0
    /\ \E to \in Receivers(n) :
           inbox' = [m \in Node |-> IF m \in to THEN inbox[m] \cup {ID[n]} ELSE inbox[m]]
    /\ remaining' = [remaining EXCEPT ![n] = @ - 1]
    /\ \/ remaining[n] > 1 /\ \E p \in Periods : due' = [due EXCEPT ![n] = p]
       \/ remaining[n] = 1 /\ due' = [due EXCEPT ![n] = 2 * Wait - elapsed[n]]
    /\ UNCHANGED <<phase, elapsed, countVars, clock>>

\* What bloom_check() may say of ID i when the IDs in the set known were added:
\* it never denies one of them, and an empty filter knows none.
bloom_check(known, i) ==
    IF i \in known THEN {TRUE}
    ELSE IF FalsePositives /\ known # {} THEN BOOLEAN
    ELSE {FALSE}

\* Plausible bug: the position is counted before the filter is asked.
_handle_beacon_CountsTwice(n, i) ==
    /\ phase[n] = "beaconing"
    /\ i \in inbox[n]
    /\ inbox' = [inbox EXCEPT ![n] = @ \ {i}]
    /\ position' = [position EXCEPT ![n] = IF i < ID[n] THEN @ + 1 ELSE @]
    /\ neighbors' = [neighbors EXCEPT ![n] = @ \cup {i}]
    /\ size' = [size EXCEPT ![n] = IF i \in neighbors[n] THEN @ ELSE @ + 1]
    /\ UNCHANGED <<phase, timerVars, clock>>

\* _handle_beacon(): an ID the filter does not know is counted.
_handle_beacon(n, i) ==
    /\ phase[n] = "beaconing"
    /\ i \in inbox[n]
    /\ inbox' = [inbox EXCEPT ![n] = @ \ {i}]
    /\ \E hit \in bloom_check(neighbors[n], i) :
           IF hit THEN UNCHANGED countVars
           ELSE /\ neighbors' = [neighbors EXCEPT ![n] = @ \cup {i}]
                /\ size' = [size EXCEPT ![n] = @ + 1]
                /\ position' = [position EXCEPT ![n] = IF i < ID[n] THEN @ + 1 ELSE @]
    /\ UNCHANGED <<phase, timerVars, clock>>

\* Plausible bug: the message of the last timer has the wrong type.
EndBeaconing_Never(n) ==
    /\ phase[n] = "beaconing"
    /\ due[n] = 0
    /\ remaining[n] = 0
    /\ UNCHANGED vars

\* DOW_MSG_BEACON_END; the main loop does not understand beacons still queued.
EndBeaconing(n) ==
    /\ phase[n] = "beaconing"
    /\ due[n] = 0
    /\ remaining[n] = 0
    /\ phase' = [phase EXCEPT ![n] = "done"]
    /\ inbox' = [inbox EXCEPT ![n] = {}]
    /\ UNCHANGED <<timerVars, countVars, clock>>

\* Time passes when everything due at this instant has happened.
Tick ==
    /\ \A n \in Beaconing : due[n] > 0 /\ inbox[n] = {}
    /\ clock < MaxSkew \/ \A n \in Node : phase[n] # "off"
    /\ clock' = IF clock < MaxSkew THEN clock + 1 ELSE clock
    /\ due' = [n \in Node |-> IF n \in Beaconing THEN due[n] - 1 ELSE due[n]]
    /\ elapsed' = [n \in Node |-> IF n \in Beaconing THEN elapsed[n] + 1 ELSE elapsed[n]]
    /\ UNCHANGED <<phase, remaining, inbox, countVars>>

Next ==
    \/ \E n \in Node :
          \/ beaconing_start(n)
          \/ SendBeacon(n)
          \/ \E i \in IDs : _handle_beacon(n, i)
          \/ EndBeaconing(n)
    \/ Tick

Spec == Init /\ [][Next]_vars

\* Every node is switched on, every thread runs, and time goes on.
FairSpec == Spec /\ WF_vars(Next)

-----------------------------------------------------------------------------
OtherIDs(n) == {ID[m] : m \in Node \ {n}}
Lower(n, S) == {i \in S : i < ID[n]}
Decided == \A n \in Node : phase[n] = "done"

\* In whatever order and however often beacons come, whatever is lost and
\* whatever the filter mistakes, a node counts no ID twice: it believes in a
\* place that exists, in a group that is no larger than the real one.
PlaceIsPossible ==
    \A n \in Node :
        /\ position[n] < size[n]
        /\ position[n] <= Cardinality(Lower(n, OtherIDs(n)))
        /\ size[n] <= Cardinality(OtherIDs(n)) + 1

\* The network is never without a first deputy: the node with the lowest ID
\* takes position 0.
LowestLeads ==
    \A n \in Node : (\A m \in Node : ID[n] <= ID[m]) => position[n] = 0

\* Beaconing ends at every node: the timer for the end lies in the future.
EveryNodeDecides == <>Decided

=============================================================================
