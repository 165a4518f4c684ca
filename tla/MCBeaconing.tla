---------------------------- MODULE MCBeaconing -----------------------------
(***************************************************************************)
(* Three nodes for TLC, and a history variable:                            *)
(* has beaconing gone undisturbed so far?                                  *)
(***************************************************************************)
EXTENDS Beaconing

CONSTANT
    Together        \* starts at most so far apart are no disturbance

VARIABLE
    undisturbed     \* history

MCNode == 1..3
MCID == [n \in MCNode |-> 10 * n]

\* Every listener hears the beacon that is sent, the filter takes no unknown ID
\* for a known one, and nodes start together.
Undisturbed ==
    /\ \A n \in Node : remaining'[n] < remaining[n] =>
           \A m \in Listeners(n) : ID[n] \in inbox'[m]
    /\ \A n \in Node : \A i \in inbox[n] \ inbox'[n] :
           phase'[n] = "done" \/ i \in neighbors'[n]
    /\ \A n \in Node : phase[n] # phase'[n] /\ phase[n] = "off" =>
           \A m \in Node : elapsed[m] <= Together

MCInit == Init /\ undisturbed = TRUE
MCNext == Next /\ undisturbed' = (undisturbed /\ Undisturbed)
MCSpec ==
    /\ MCInit /\ [][MCNext]_<<vars, undisturbed>>
    /\ WF_<<vars, undisturbed>>(MCNext)

\* Undisturbed, the positions are the order of the IDs and everyone knows the
\* size of the group, however often a node that shares an ID is counted: the
\* wait before the first beacon and the one after the last are long enough.
PositionsAreRanks ==
    undisturbed /\ Decided => \A n \in Node :
        /\ position[n] = Cardinality(Lower(n, IDs))
        /\ size[n] = Cardinality(OtherIDs(n)) + 1
=============================================================================
