------------------------------- MODULE Deputy -------------------------------
(***************************************************************************)
(* What deputy mode (DOW_DEPUTY) of src/ccnl_caching promises, whatever    *)
(* its messages are: the nodes take turns at being awake, there is always  *)
(* one, and what the awake nodes have stored is never lost to the network, *)
(* although the nodes that rest cannot be asked.                           *)
(***************************************************************************)
CONSTANTS
    Node,
    Datum,
    First       \* the node of position 0

VARIABLES
    awake,      \* the nodes that take part in the network
    cache       \* the data that can be got from them

vars == <<awake, cache>>

Init ==
    /\ awake = {First}
    /\ cache = {}

\* A node that is awake stores a datum of its own.
Collect(d) ==
    /\ d \notin cache
    /\ cache' = cache \cup {d}
    /\ UNCHANGED awake

\* A node's rest is over.  What it stored in an earlier shift is no news.
WakeUp(n) ==
    /\ n \notin awake
    /\ awake' = awake \cup {n}
    /\ UNCHANGED cache

\* A deputy is relieved: somebody else has what it has.
Rest(n) ==
    /\ n \in awake
    /\ awake \ {n} # {}
    /\ awake' = awake \ {n}
    /\ UNCHANGED cache

Next ==
    \/ \E d \in Datum : Collect(d)
    \/ \E n \in Node : WakeUp(n) \/ Rest(n)

Spec == Init /\ [][Next]_vars

\* A deputy that woke up relieves the others.
OneRemains == (\E n \in Node : awake # {n}) ~> (\E n \in Node : awake = {n})

=============================================================================
