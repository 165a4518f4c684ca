----------------------------- MODULE MCHandover -----------------------------
EXTENDS Handover, FiniteSetsExt

\* Bound: the messages and frames that wait in the whole network.
FewWait == MapThenSumSet(LAMBDA n : Len(queue[n]) + Len(inbox[n]), Node) <= 3

=============================================================================
